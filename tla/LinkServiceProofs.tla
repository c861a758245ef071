------------------------- MODULE LinkServiceProofs -------------------------
(***************************************************************************)
(* Proof that the acknowledged data link implements LinkService, for one   *)
(* link that the mobile establishes: messages arrive whole, in order and   *)
(* once, and none is given up unless the layer 3 that sent it has no sound *)
(* link.                                                                   *)
(***************************************************************************)
EXTENDS LapdProofs

-----------------------------------------------------------------------------
(* What Waiting says of one direction: d sends, q receives, and s is under way
   from d. *)

Has(d, q) ==
  /\ d.out = Parts[d.buf]
  /\ d.hist[H(Dec(d.vs))] = None \/ q.vr = d.vs
Own(d, q) == (IF d.buf = "none" \/ Has(d, q) THEN <<>> ELSE <<d.buf>>) \o d.queue
Wholes(w) == [i \in 1..Len(w) |-> Whole(w[i])]

Strays(q, s) == {i \in 1..Len(s) :
  /\ s[i].k = "I" /\ ~More(s[i].seg)
  /\ \/ q.state \in {"MF_EST", "TIMER_RECOV"} /\ s[i].ns = q.vr
     \/ q.state = "SABM_SENT" /\ s[i].ns = 0 /\ \E j \in 1..i - 1 : s[j].k = "UA"}
(* the frames themselves *)
Lasts(q, s) == {s[i] : i \in Strays(q, s)}

Wait(d, q, s) ==
  IF d.state \in Established THEN Wholes(Own(d, q))
  ELSE IF Strays(q, s) = {} THEN <<>>
  ELSE <<Whole(s[CHOOSE i \in Strays(q, s) : TRUE].seg.msg)>>

LEMMA WaitingIs ==
  ASSUME NEW e \in Entities
  PROVE  Waiting(e) = Wait(dl[e], dl[Peer(e)], pipe[e])
<1>1. UnderWay(e) = Strays(dl[Peer(e)], pipe[e])
  BY DEF UnderWay, Strays
<1> QED
  BY <1>1 DEF Waiting, Received, Wait, Own, Has, Wholes, Established

LEMMA WaitingBecomes ==
  ASSUME NEW e \in Entities
  PROVE  Waiting(e)' = Wait(dl'[e], dl'[Peer(e)], pipe'[e])
<1>1. UnderWay(e)' = Strays(dl'[Peer(e)], pipe'[e])
  BY DEF UnderWay, Strays
<1> QED
  BY <1>1 DEF Waiting, Received, Wait, Own, Has, Wholes, Established

(* Frames of an entity that is not established. *)
LEMMA LastsParts ==
  ASSUME NEW q, NEW s \in Seq(Frames)
  PROVE  /\ Lasts(q, s) \subseteq {f \in Within(s) : f.k = "I" /\ ~More(f.seg)}
         /\ q.state \in Established =>
              Lasts(q, s) = {f \in Within(s) : f.k = "I" /\ ~More(f.seg) /\ f.ns = q.vr}
         /\ q.state = "SABM_SENT" =>
              /\ \A f \in Lasts(q, s) : f.ns = 0
              /\ Lacks(s, {"UA"}) => Lasts(q, s) = {}
         /\ q.state \notin Established /\ q.state # "SABM_SENT" => Lasts(q, s) = {}
         /\ Strays(q, s) = {} <=> Lasts(q, s) = {}
<1>1. \A i \in 1..Len(s) : s[i] \in Within(s)
  BY DEF Within
<1>2. \A f \in Within(s) : \E i \in 1..Len(s) : f = s[i]
  BY DEF Within
<1>3. Lasts(q, s) \subseteq {f \in Within(s) : f.k = "I" /\ ~More(f.seg)}
  BY <1>1 DEF Lasts, Strays
<1>4. ASSUME q.state \in Established
      PROVE  Lasts(q, s) = {f \in Within(s) : f.k = "I" /\ ~More(f.seg) /\ f.ns = q.vr}
  <2>1. Strays(q, s) = {i \in 1..Len(s) : s[i].k = "I" /\ ~More(s[i].seg) /\ s[i].ns = q.vr}
    BY <1>4 DEF Strays, Established
  <2> QED
    BY <1>1, <1>2, <2>1 DEF Lasts
<1>5. ASSUME q.state = "SABM_SENT"
      PROVE  /\ \A f \in Lasts(q, s) : f.ns = 0
             /\ Lacks(s, {"UA"}) => Lasts(q, s) = {}
  <2>1. \A f \in Lasts(q, s) : f.ns = 0
    BY <1>5 DEF Lasts, Strays
  <2>2. ASSUME Lacks(s, {"UA"}), NEW i \in Strays(q, s) PROVE FALSE
    <3>1. i \in 1..Len(s) /\ \E j \in 1..i - 1 : s[j].k = "UA"
      BY <1>5, <2>2 DEF Strays
    <3>2. PICK j \in 1..i - 1 : s[j].k = "UA"
      BY <3>1
    <3>3. j \in 1..Len(s)
      BY <3>1, <3>2
    <3> QED
      BY <1>1, <2>2, <3>2, <3>3 DEF Lacks
  <2> QED
    BY <2>1, <2>2 DEF Lasts
<1>6. q.state \notin Established /\ q.state # "SABM_SENT" => Lasts(q, s) = {}
  BY DEF Lasts, Strays, Established
<1>7. Strays(q, s) = {} <=> Lasts(q, s) = {}
  BY DEF Lasts
<1> QED
  BY <1>3, <1>4, <1>5, <1>6, <1>7

LEMMA WaitLast ==
  ASSUME NEW d, d.state \notin Established, NEW q, NEW s \in Seq(Frames), AtMostOne(s, IFrames)
  PROVE  /\ Lasts(q, s) = {} => Wait(d, q, s) = <<>>
         /\ \A f \in Lasts(q, s) : Wait(d, q, s) = <<Whole(f.seg.msg)>>
<1>1. Strays(q, s) = {} <=> Lasts(q, s) = {}
  BY LastsParts
<1>2. ASSUME NEW f \in Lasts(q, s) PROVE Wait(d, q, s) = <<Whole(f.seg.msg)>>
  <2>1. PICK i \in Strays(q, s) : f = s[i]
    BY <1>2 DEF Lasts
  <2>2. \A j \in Strays(q, s) : j \in 1..Len(s) /\ s[j] \in IFrames
    <3>1. \A j \in Strays(q, s) : j \in 1..Len(s) /\ s[j].k = "I"
      BY DEF Strays
    <3>2. \A j \in 1..Len(s) : s[j] \in Frames
      OBVIOUS
    <3> QED
      BY <3>1, <3>2, FrameKinds
  <2>3. \A j \in Strays(q, s) : j = i
    BY <2>2 DEF AtMostOne
  <2>4. (CHOOSE j \in Strays(q, s) : TRUE) = i
    BY <2>3
  <2>5. Wait(d, q, s) = <<Whole(s[i].seg.msg)>>
    BY <1>2, <2>1, <2>4 DEF Wait
  <2> QED
    BY <2>1, <2>5
<1> QED
  BY <1>1, <1>2 DEF Wait

LEMMA FewerLasts ==
  ASSUME NEW d, d.state \notin Established, NEW q, NEW s \in Seq(Frames), AtMostOne(s, IFrames),
         NEW x, x.state \notin Established, NEW y, NEW t \in Seq(Frames), AtMostOne(t, IFrames),
         Lasts(y, t) \subseteq Lasts(q, s)
  PROVE  /\ Wait(x, y, t) = Wait(d, q, s) \/ Wait(x, y, t) = <<>>
         /\ Lasts(q, s) = {} => Wait(x, y, t) = Wait(d, q, s)
         /\ Lasts(q, s) = Lasts(y, t) => Wait(x, y, t) = Wait(d, q, s)
<1>1. CASE Lasts(y, t) = {}
  BY <1>1, WaitLast
<1>2. CASE Lasts(y, t) # {}
  <2>1. PICK f \in Lasts(y, t) : TRUE
    BY <1>2
  <2>2. Wait(x, y, t) = <<Whole(f.seg.msg)>> /\ Wait(d, q, s) = <<Whole(f.seg.msg)>>
    BY <2>1, WaitLast
  <2> QED
    BY <2>2
<1> QED
  BY <1>1, <1>2

-----------------------------------------------------------------------------
(* Messages that wait are given up, added or delivered. *)

Pieces(w) == {SubSeq(w, n, k) : n \in 1..Len(w) + 1, k \in 0..Len(w)}
Changed(w, v, sound) == v = w \/ (v \in Pieces(w) /\ ~sound)
Taken(w, v, msg) == w # <<>> /\ Head(w) = msg /\ v = Tail(w)

LEMMA PiecesParts ==
  ASSUME NEW S, NEW w \in Seq(S)
  PROVE  /\ <<>> \in Pieces(w)
         /\ w # <<>> => Tail(w) \in Pieces(w) /\ <<Head(w)>> \in Pieces(w)
<1>1. <<>> \in Pieces(w)
  <2>1. SubSeq(w, 1, 0) = <<>> /\ 1 \in 1..Len(w) + 1 /\ 0 \in 0..Len(w)
    OBVIOUS
  <2> QED
    BY <2>1 DEF Pieces
<1>2. ASSUME w # <<>> PROVE Tail(w) \in Pieces(w)
  <2>1. Tail(w) = SubSeq(w, 2, Len(w)) /\ 2 \in 1..Len(w) + 1 /\ Len(w) \in 0..Len(w)
    BY <1>2
  <2> QED
    BY <2>1 DEF Pieces
<1>3. ASSUME w # <<>> PROVE <<Head(w)>> \in Pieces(w)
  <2>1. <<Head(w)>> = SubSeq(w, 1, 1) /\ 1 \in 1..Len(w) + 1 /\ 1 \in 0..Len(w)
    BY <1>3
  <2> QED
    BY <2>1 DEF Pieces
<1> QED
  BY <1>1, <1>2, <1>3

LEMMA WholesParts ==
  ASSUME NEW w \in Seq(Msgs)
  PROVE  /\ Wholes(w) \in Seq({Whole(m) : m \in Msgs})
         /\ Wholes(w) = <<>> <=> w = <<>>
         /\ w # <<>> => Head(Wholes(w)) = Whole(Head(w)) /\ Tail(Wholes(w)) = Wholes(Tail(w))
         /\ \A m \in Msgs : Wholes(Append(w, m)) = Append(Wholes(w), Whole(m))
<1> DEFINE S == {Whole(m) : m \in Msgs}
<1>1. /\ Len(w) \in Nat /\ \A i \in 1..Len(w) : w[i] \in Msgs
  OBVIOUS
<1>2. \A u \in Seq(Msgs) : /\ Wholes(u) \in Seq(S) /\ Len(Wholes(u)) = Len(u)
                           /\ \A i \in 1..Len(u) : Wholes(u)[i] = Whole(u[i])
  BY DEF Wholes
<1> HIDE DEF S
<1>3. Wholes(w) = <<>> <=> w = <<>>
  BY <1>2
<1>4. ASSUME w # <<>> PROVE Head(Wholes(w)) = Whole(Head(w)) /\ Tail(Wholes(w)) = Wholes(Tail(w))
  <2>1. /\ Tail(w) \in Seq(Msgs) /\ Len(Tail(w)) = Len(w) - 1 /\ Head(w) = w[1]
        /\ \A i \in 1..Len(Tail(w)) : Tail(w)[i] = w[i + 1] /\ i + 1 \in 1..Len(w)
    BY <1>4
  <2>2. Wholes(w) # <<>> /\ Wholes(w) \in Seq(S) /\ Len(Wholes(w)) = Len(w)
    BY <1>2, <1>3, <1>4
  <2> DEFINE t == Tail(Wholes(w))
             u == Wholes(Tail(w))
  <2>3. t \in Seq(S) /\ Len(t) = Len(w) - 1 /\ \A i \in 1..Len(t) : t[i] = Wholes(w)[i + 1]
    BY <2>2
  <2>4. u \in Seq(S) /\ Len(u) = Len(w) - 1 /\ \A i \in 1..Len(u) : u[i] = Whole(Tail(w)[i])
    BY <1>2, <2>1
  <2>5. Head(Wholes(w)) = Whole(Head(w))
    BY <1>2, <1>4, <2>1, <2>2
  <2> HIDE DEF t, u
  <2>6. \A i \in 1..Len(t) : t[i] = u[i]
    BY <1>2, <2>1, <2>3, <2>4
  <2>7. t = u
    BY <2>3, <2>4, <2>6, SeqEqual
  <2> QED
    BY <2>5, <2>7 DEF t, u
<1>5. ASSUME NEW m \in Msgs PROVE Wholes(Append(w, m)) = Append(Wholes(w), Whole(m))
  <2> DEFINE b == Append(w, m)
             t == Wholes(b)
             u == Append(Wholes(w), Whole(m))
  <2>1. /\ b \in Seq(Msgs) /\ Len(b) = Len(w) + 1 /\ b[Len(w) + 1] = m
        /\ \A i \in 1..Len(w) : b[i] = w[i]
    OBVIOUS
  <2> HIDE DEF b
  <2>2. t \in Seq(S) /\ Len(t) = Len(w) + 1 /\ \A i \in 1..Len(w) + 1 : t[i] = Whole(b[i])
    BY <1>2, <2>1
  <2>3. Whole(m) \in S
    BY DEF S
  <2>4. /\ u \in Seq(S) /\ Len(u) = Len(w) + 1 /\ u[Len(w) + 1] = Whole(m)
        /\ \A i \in 1..Len(w) : u[i] = Wholes(w)[i]
    BY <1>2, <2>3
  <2> HIDE DEF t, u
  <2>5. \A i \in 1..Len(t) : t[i] = u[i]
    BY <1>2, <2>1, <2>2, <2>4
  <2>6. t = u
    BY <2>2, <2>4, <2>5, SeqEqual
  <2> QED
    BY <2>6 DEF t, u, b
<1> QED
  BY <1>2, <1>3, <1>4, <1>5 DEF S

-----------------------------------------------------------------------------
(* The messages of an established entity. *)

LEMMA JoinedQueue ==
  ASSUME NEW S, NEW m \in S, NEW w \in Seq(S)
  PROVE  /\ <<m>> \o w \in Seq(S) /\ <<m>> \o w # <<>>
         /\ Head(<<m>> \o w) = m /\ Tail(<<m>> \o w) = w
<1>1. /\ <<m>> \o w \in Seq(S) /\ Len(<<m>> \o w) = Len(w) + 1
      /\ (<<m>> \o w)[1] = m /\ \A i \in 1..Len(w) : (<<m>> \o w)[i + 1] = w[i]
  OBVIOUS
<1> DEFINE u == <<m>> \o w
           t == Tail(u)
<1> HIDE DEF u
<1>2. u # <<>> /\ Head(u) = m
  BY <1>1 DEF u
<1>3. t \in Seq(S) /\ Len(t) = Len(w) /\ \A i \in 1..Len(t) : t[i] = u[i + 1]
  BY <1>1, <1>2 DEF u
<1> HIDE DEF t
<1>4. \A i \in 1..Len(t) : t[i] = w[i]
  BY <1>1, <1>3 DEF u
<1>5. t = w
  BY <1>3, <1>4, SeqEqual
<1> QED
  BY <1>1, <1>2, <1>5 DEF t, u

LEMMA OwnParts ==
  ASSUME NEW d \in Datalinks, NEW q
  PROVE  /\ Own(d, q) \in Seq(Msgs)
         /\ d.buf = "none" \/ Has(d, q) => Own(d, q) = d.queue
         /\ d.buf # "none" /\ ~Has(d, q) => /\ Own(d, q) # <<>> /\ Head(Own(d, q)) = d.buf
                                            /\ Tail(Own(d, q)) = d.queue /\ d.buf \in Msgs
<1>1. d.queue \in Seq(Msgs) /\ d.buf \in Msgs \cup {"none"}
  BY DEF Datalinks
<1>2. CASE d.buf = "none" \/ Has(d, q)
  <2>1. Own(d, q) = <<>> \o d.queue
    BY <1>2 DEF Own
  <2>2. <<>> \o d.queue = d.queue
    BY <1>1
  <2> QED
    BY <1>1, <1>2, <2>1, <2>2
<1>3. CASE d.buf # "none" /\ ~Has(d, q)
  <2> DEFINE w == d.queue
             u == <<d.buf>> \o w
  <2>1. Own(d, q) = u /\ d.buf \in Msgs
    BY <1>1, <1>3 DEF Own
  <2>2. w \in Seq(Msgs)
    BY <1>1
  <2> HIDE DEF w
  <2>3. u \in Seq(Msgs) /\ u # <<>> /\ Head(u) = d.buf /\ Tail(u) = w
    BY <2>1, <2>2, JoinedQueue
  <2> QED
    BY <1>3, <2>1, <2>3 DEF w
<1> QED
  BY <1>2, <1>3

(* A segment that the peer has is the last of its message. *)
LEMMA HasPassed ==
  ASSUME NEW d \in Datalinks, d.buf # "none", NEW q, NEW s, NEW a, Direction(d, q, s, a)
  PROVE  Has(d, q) <=> Passed(d, q) = Parts[d.buf]
<1>1. /\ d.vs \in Numbers /\ d.va \in Numbers /\ d.buf \in Msgs
      /\ d.vs \in {d.va, Inc(d.va)} /\ q.vr \in {d.va, d.vs} /\ d.out \in 1..Parts[d.buf]
  BY DEF Direction, Window, Acks, Datalinks
<1>2. Parts[d.buf] \in Nat
  BY <1>1, LapdAssumption
<1>3. CASE d.vs = d.va
  <2>1. d.hist[H(Dec(d.vs))] = None
    BY <1>1, <1>3, NumbersWrap DEF Direction, Window
  <2> QED
    BY <1>1, <1>3, <2>1 DEF Has, Passed
<1>4. CASE d.vs # d.va
  <2>1. Dec(d.vs) = d.va /\ d.hist[H(d.va)] = Latest(d)
    BY <1>1, <1>4, NumbersWrap DEF Direction, Window
  <2>2. Latest(d) # None
    BY <1>1, LapdAssumption DEF Latest, None
  <2>3. d.out - 1 # Parts[d.buf]
    BY <1>1, <1>2
  <2> QED
    BY <1>1, <2>1, <2>2, <2>3 DEF Has, Passed
<1> QED
  BY <1>3, <1>4

(* It takes an acknowledgement, and sends what it may send: nothing is gone. *)
LEMMA OwnStays ==
  ASSUME NEW d \in Datalinks, NEW q, NEW s, NEW a, Direction(d, q, s, a),
         NEW x \in Datalinks, NEW t, NEW b, Direction(x, q, t, b),
         x.vs = d.vs, x.buf = d.buf, x.out = d.out, x.queue = d.queue
  PROVE  Own(x, q) = Own(d, q)
<1>1. d.buf # "none" => (Has(d, q) <=> Has(x, q))
  BY HasPassed DEF Passed
<1> QED
  BY <1>1 DEF Own

LEMMA OwnSends ==
  ASSUME NEW d \in Datalinks, NEW q, NEW s, NEW a, Direction(d, q, s, a), d.state \in Established,
         NEW t, NEW b, Direction(SendI(d).d, q, t, b)
  PROVE  Own(SendI(d).d, q) = Own(d, q)
<1> DEFINE x == SendI(d).d
           out == SendI(d).out
<1>1. SendsNothing(d, x, out) \/ \E m, n : Sends(d, x, out, m, n)
  BY SendICases DEF Direction
<1>2. x \in Datalinks /\ Direction(x, q, t, b)
  BY SendIKeeps
<1> HIDE DEF x, out
<1>3. ASSUME SendsNothing(d, x, out) PROVE Own(x, q) = Own(d, q)
  <2>1. CASE x.buf = d.buf /\ x.out = d.out
    BY <1>2, <1>3, <2>1, OwnStays DEF SendsNothing
  <2>2. CASE ~(x.buf = d.buf /\ x.out = d.out)
    <3>1. /\ d.vs = d.va /\ d.queue = <<>> /\ x.queue = <<>> /\ x.buf = "none"
          /\ d.buf = "none" \/ d.out = Parts[d.buf]
      BY <1>3, <2>2 DEF SendsNothing
    <3>2. d.buf # "none" => Has(d, q)
      BY <3>1 DEF Has, Direction, Acks
    <3> QED
      BY <1>2, <3>1, <3>2, OwnParts
  <2> QED
    BY <2>1, <2>2
<1>4. ASSUME NEW m, NEW n, Sends(d, x, out, m, n) PROVE Own(x, q) = Own(d, q)
  <2>1. /\ m \in Msgs /\ n \in Nat /\ n < Parts[m] /\ d.vs = d.va /\ x.vs = Inc(d.vs)
        /\ x.buf = m /\ x.out = n + 1 /\ Loads(d, m, n, x.queue)
    BY <1>4 DEF Sends
  <2>2. d.vs \in Numbers /\ q.vr = d.vs /\ q.vr # x.vs
    BY <2>1, NumbersWrap DEF Datalinks, Direction, Acks
  <2>3. x.buf # "none" /\ Parts[m] \in Nat
    BY <2>1, LapdAssumption
  <2>4. ~Has(x, q)
    <3>1. Passed(x, q) = n
      BY <2>1, <2>2 DEF Passed
    <3> QED
      BY <1>2, <2>1, <2>3, <3>1, HasPassed
  <2>5. Own(x, q) = <<m>> \o x.queue
    BY <2>1, <2>3, <2>4 DEF Own
  <2>6. CASE d.buf # "none" /\ d.out # Parts[d.buf]
    <3>1. m = d.buf /\ x.queue = d.queue
      BY <2>1, <2>6 DEF Loads
    <3>2. ~Has(d, q)
      BY <2>6 DEF Has
    <3> QED
      BY <2>5, <2>6, <3>1, <3>2 DEF Own
  <2>7. CASE d.buf = "none" \/ d.out = Parts[d.buf]
    <3>1. d.queue # <<>> /\ m = Head(d.queue) /\ x.queue = Tail(d.queue)
      BY <2>1, <2>7 DEF Loads
    <3>2. d.buf # "none" => Has(d, q)
      BY <2>2, <2>7 DEF Has
    <3>3. Own(d, q) = d.queue
      BY <3>2, OwnParts
    <3>4. d.queue \in Seq(Msgs) /\ <<Head(d.queue)>> \o Tail(d.queue) = d.queue
      <4>1. d.queue \in Seq(Msgs)
        BY DEF Datalinks
      <4> QED
        BY <3>1, <4>1
    <3> QED
      BY <2>5, <3>1, <3>3, <3>4
  <2> QED
    BY <2>6, <2>7
<1> QED
  BY <1>1, <1>3, <1>4 DEF x

-----------------------------------------------------------------------------
(* An established entity d takes a frame of its peer. *)

(* What the peer left under way continues what d has received. *)
Ready(q, f) == f.seg.part \in 1..Parts[f.seg.msg] /\ q.rcv = First(f.seg.msg, f.seg.part - 1)
Continues(q, s) == \A f \in Within(s) : f.k = "I" /\ f.ns = q.vr => Ready(q, f)

LEMMA DirectionContinues ==
  ASSUME NEW d \in Datalinks, NEW q \in Datalinks, NEW s \in Seq(Frames), NEW a \in Seq(Frames),
         Direction(d, q, s, a)
  PROVE  Continues(q, s)
<1> SUFFICES ASSUME NEW f \in Within(s), f.k = "I", f.ns = q.vr PROVE Ready(q, f)
  BY DEF Continues
<1>1. f.seg = Latest(d) /\ d.out \in 1..Parts[d.buf] /\ q.rcv = First(d.buf, d.out - 1)
  BY ExpectedFrame
<1> QED
  BY <1>1 DEF Ready, Latest

LEMMA OwnTaken ==
  ASSUME NEW d \in Datalinks, NEW q \in Datalinks, NEW s \in Seq(Frames), NEW a \in Seq(Frames),
         Side(d, q, s, a, FALSE), a # <<>>, Numbered(Head(a)), Head(a).k = "REJ" => Head(a) \in Finals,
         NEW x, NEW out, NEW prims, RxTaken(d, Head(a), x, out, prims)
  PROVE  Own(x, q) = Own(d, q)
<1>1. d.state \in Established /\ Direction(d, q, s, a) /\ AtMostOne(s, IFrames)
  BY DEF RxTaken, Side
<1>2. PICK y, answer : Handles(d, y, answer, Head(a)) /\ x = SendI(y).d
  BY DEF RxTaken
<1>3. Direction(y, q, s \o answer, Tail(a)) /\ y \in Datalinks /\ y.state \in Established
  BY <1>1, <1>2, OwnDirection
<1>4. Direction(SendI(y).d, q, s \o (answer \o SendI(y).out), Tail(a))
  BY <1>1, <1>2, OwnDirection
<1>5. Own(SendI(y).d, q) = Own(y, q)
  BY <1>3, <1>4, OwnSends
<1>6. Head(a) \in Finals => Head(a).nr = d.vs
  BY <1>1, TailParts DEF Direction, Recovery
<1>7. y.vs = d.vs /\ y.buf = d.buf /\ y.out = d.out /\ y.queue = d.queue
  BY <1>2, <1>6 DEF Handles, SameLink
<1>8. Own(y, q) = Own(d, q)
  BY <1>1, <1>3, <1>7, OwnStays
<1> QED
  BY <1>2, <1>5, <1>8

LEMMA WholeReceived ==
  ASSUME NEW q, NEW f, f.seg \in Segment, f.seg.msg \in Msgs, Ready(q, f), ~More(f.seg)
  PROVE  Append(q.rcv, f.seg) = Whole(f.seg.msg)
<1> DEFINE m == f.seg.msg
           n == f.seg.part
<1>1. Parts[m] \in Nat /\ n \in 1..Parts[m] /\ q.rcv = First(m, n - 1)
  BY LapdAssumption DEF Ready
<1>2. n = Parts[m]
  BY <1>1 DEF More
<1>3. f.seg = Segm(m, n)
  BY DEF Segment, Segm
<1> HIDE DEF m, n
<1>4. m \in Msgs
  BY DEF m
<1>5. n - 1 \in Nat /\ (n - 1) + 1 = n
  BY <1>1
<1>6. Append(First(m, n - 1), Segm(m, (n - 1) + 1)) = First(m, (n - 1) + 1)
  BY <1>4, <1>5, FirstNext
<1>7. Append(q.rcv, f.seg) = First(m, n)
  BY <1>1, <1>3, <1>5, <1>6
<1>8. First(m, Parts[m]) = Whole(m)
  BY DEF First, Whole
<1> QED
  BY <1>2, <1>7, <1>8 DEF m

(* d, which becomes x, takes the first of the frames a of q: that delivers the
   message that it completes. *)
HandsOver(q, d, a, x) ==
  /\ Completes(d, Head(a)) =>
       Taken(Wait(q, d, a), Wait(q, x, Tail(a)), Append(d.rcv, Head(a).seg))
  /\ ~Completes(d, Head(a)) => Wait(q, x, Tail(a)) = Wait(q, d, a)

LEMMA PeerTaken ==
  ASSUME NEW d \in Datalinks, NEW q \in Datalinks, NEW s \in Seq(Frames), NEW a \in Seq(Frames),
         Side(q, d, a, s, FALSE), q.state \notin Established => Continues(d, a),
         a # <<>>, NEW x, x.state \in Established, Hears(d, x, Head(a)), d.state \in Established
  PROVE  HandsOver(q, d, a, x)
<1> DEFINE f == Head(a)
           t == Tail(a)
<1>1. /\ f \in Within(a) /\ f \in Frames /\ t \in Seq(Frames) /\ Within(t) \subseteq Within(a)
      /\ AtMostOne(a, IFrames) /\ AtMostOne(t, IFrames)
      /\ f \in IFrames => Within(t) \cap IFrames = {}
  BY TailParts DEF Side
<1>2. f.k = "I" => f \in IFrames /\ f.seg \in Segment /\ f.seg.msg \in Msgs /\ f.seg.part \in Nat
  BY <1>1, FrameKinds DEF IFrames, Segment
<1>3. Within(a) = {f} \cup Within(t)
  BY <1>1, HeadOrTail
<1>4. Hears(d, x, f)
  OBVIOUS
<1> HIDE DEF f, t
<1>5. CASE q.state \in Established
  <2>1. Wait(q, d, a) = Wholes(Own(q, d)) /\ Wait(q, x, t) = Wholes(Own(q, x))
    BY <1>5 DEF Wait
  <2>2. Direction(q, d, a, s)
    BY <1>5 DEF Side
  <2>3. CASE f.k = "I" /\ f.ns = d.vr
    <3>1. /\ q.vs = Inc(d.vr) /\ q.vs # d.vr /\ f.seg = Latest(q) /\ q.buf \in Msgs /\ q.buf # "none"
          /\ q.out \in 1..Parts[q.buf]
      BY <1>1, <2>2, <2>3, ExpectedFrame, LapdAssumption
    <3>2. x.vr = q.vs /\ Parts[q.buf] \in Nat
      BY <1>4, <2>3, <3>1, LapdAssumption DEF Hears
    <3>3. ~Has(q, d)
      BY <2>2, <3>1, <3>2, HasPassed DEF Passed
    <3>4. Has(q, x) <=> q.out = Parts[q.buf]
      BY <3>2 DEF Has
    <3>5. More(f.seg) <=> q.out # Parts[q.buf]
      BY <3>1, <3>2 DEF More, Latest
    <3>6. CASE More(f.seg)
      <4>1. Own(q, x) = Own(q, d)
        BY <3>3, <3>4, <3>5, <3>6 DEF Own
      <4> QED
        BY <2>1, <3>6, <4>1 DEF HandsOver, Completes, f, t
    <3>7. CASE ~More(f.seg)
      <4>1. Own(q, x) = q.queue
        BY <3>4, <3>5, <3>7, OwnParts
      <4>2. /\ Own(q, d) \in Seq(Msgs) /\ Own(q, d) # <<>>
            /\ Head(Own(q, d)) = q.buf /\ Tail(Own(q, d)) = q.queue
        BY <3>1, <3>3, OwnParts
      <4>3. Append(d.rcv, f.seg) = Whole(q.buf)
        <5>1. Continues(d, a)
          BY <2>2, DirectionContinues
        <5>2. Ready(d, f)
          BY <1>1, <2>3, <5>1 DEF Continues
        <5>3. f.seg.msg = q.buf
          BY <3>1 DEF Latest
        <5> QED
          BY <1>2, <2>3, <3>7, <5>2, <5>3, WholeReceived
      <4> DEFINE w == Own(q, d)
      <4>4. w \in Seq(Msgs) /\ w # <<>> /\ Head(w) = q.buf /\ Tail(w) = q.queue
        BY <4>2
      <4> HIDE DEF w
      <4>5. Wholes(w) # <<>> /\ Head(Wholes(w)) = Whole(Head(w)) /\ Tail(Wholes(w)) = Wholes(Tail(w))
        BY <4>4, WholesParts
      <4>6. Taken(Wholes(w), Wholes(q.queue), Append(d.rcv, f.seg))
        BY <4>3, <4>4, <4>5 DEF Taken
      <4>7. Completes(d, f)
        BY <2>3, <3>7 DEF Completes
      <4> QED
        BY <2>1, <4>1, <4>6, <4>7 DEF HandsOver, w, f, t
    <3> QED
      BY <3>6, <3>7
  <2>4. CASE ~(f.k = "I" /\ f.ns = d.vr)
    <3>1. x.vr = d.vr
      BY <1>4, <2>4 DEF Hears, SameReceiver
    <3>2. Own(q, x) = Own(q, d)
      BY <3>1 DEF Own, Has
    <3> QED
      BY <2>1, <2>4, <3>2 DEF HandsOver, Completes, f, t
  <2> QED
    BY <2>3, <2>4
<1>6. CASE q.state \notin Established
  <2>1. /\ Lasts(d, a) = {g \in Within(a) : g.k = "I" /\ ~More(g.seg) /\ g.ns = d.vr}
        /\ Lasts(x, t) = {g \in Within(t) : g.k = "I" /\ ~More(g.seg) /\ g.ns = x.vr}
    BY <1>1, LastsParts
  <2>2. \A g \in Within(t) : g.k = "I" => g \in IFrames
    BY <1>1, WithinParts, FrameKinds
  <2>3. CASE f.k = "I" /\ f.ns = d.vr
    <3>1. Lasts(x, t) = {}
      BY <1>1, <1>2, <2>1, <2>2, <2>3
    <3>2. Wait(q, x, t) = <<>>
      BY <1>1, <1>6, <3>1, WaitLast
    <3>3. CASE More(f.seg)
      <4>1. Lasts(d, a) = {}
        BY <1>1, <1>2, <1>3, <2>1, <2>2, <2>3, <3>3
      <4>2. Wait(q, d, a) = <<>>
        BY <1>1, <1>6, <4>1, WaitLast
      <4> QED
        BY <3>2, <3>3, <4>2 DEF HandsOver, Completes, f, t
    <3>4. CASE ~More(f.seg)
      <4>1. f \in Lasts(d, a)
        BY <1>1, <2>1, <2>3, <3>4
      <4>2. Wait(q, d, a) = <<Whole(f.seg.msg)>>
        BY <1>1, <1>6, <4>1, WaitLast
      <4>3. Ready(d, f)
        BY <1>1, <1>6, <2>3 DEF Continues
      <4>4. Append(d.rcv, f.seg) = Whole(f.seg.msg)
        BY <1>2, <2>3, <3>4, <4>3, WholeReceived
      <4>5. Taken(Wait(q, d, a), Wait(q, x, t), Append(d.rcv, f.seg))
        BY <3>2, <4>2, <4>4 DEF Taken
      <4>6. Completes(d, f)
        BY <2>3, <3>4 DEF Completes
      <4> QED
        BY <4>5, <4>6 DEF HandsOver, f, t
    <3> QED
      BY <3>3, <3>4
  <2>4. CASE ~(f.k = "I" /\ f.ns = d.vr)
    <3>1. x.vr = d.vr
      BY <1>4, <2>4 DEF Hears, SameReceiver
    <3>2. Lasts(x, t) = Lasts(d, a)
      BY <1>3, <2>1, <2>4, <3>1
    <3>3. Wait(q, x, t) = Wait(q, d, a)
      BY <1>1, <1>6, <3>2, FewerLasts
    <3> QED
      BY <2>4, <3>3 DEF HandsOver, Completes, f, t
  <2> QED
    BY <2>3, <2>4
<1> QED
  BY <1>5, <1>6

-----------------------------------------------------------------------------
(* Frames are added or taken away. *)

LEMMA LastsAdded ==
  ASSUME NEW q, NEW s \in Seq(Frames), NEW out \in Seq(Frames), Lacks(out, {"I"})
  PROVE  Lasts(q, s \o out) = Lasts(q, s)
<1> DEFINE t == s \o out
<1>1. /\ t \in Seq(Frames) /\ Len(t) = Len(s) + Len(out) /\ Len(s) \in Nat /\ Len(out) \in Nat
      /\ \A i \in 1..Len(s) : t[i] = s[i]
      /\ \A i \in 1..Len(out) : t[Len(s) + i] = out[i]
  OBVIOUS
<1> HIDE DEF t
<1>2. ASSUME NEW i \in 1..Len(t), t[i].k = "I" PROVE i \in 1..Len(s)
  <2>1. CASE i \notin 1..Len(s)
    <3>1. i - Len(s) \in 1..Len(out) /\ i = Len(s) + (i - Len(s))
      BY <1>1, <2>1
    <3>2. t[i] \in Within(out)
      BY <1>1, <3>1 DEF Within
    <3> QED
      BY <1>2, <3>2 DEF Lacks
  <2> QED
    BY <2>1
<1>3. \A i \in 1..Len(s) : i \in 1..Len(t) /\ \A j \in 1..i - 1 : j \in 1..Len(s) /\ t[j] = s[j]
  BY <1>1
<1>4. Strays(q, t) = Strays(q, s)
  <2>1. ASSUME NEW i \in Strays(q, t) PROVE i \in Strays(q, s)
    <3>1. i \in 1..Len(s)
      BY <1>2 DEF Strays
    <3> QED
      BY <1>1, <1>3, <3>1 DEF Strays
  <2>2. ASSUME NEW i \in Strays(q, s) PROVE i \in Strays(q, t)
    <3>1. i \in 1..Len(s)
      BY DEF Strays
    <3> QED
      BY <1>1, <1>3, <3>1 DEF Strays
  <2> QED
    BY <2>1, <2>2
<1>5. \A i \in Strays(q, s) : t[i] = s[i]
  BY <1>1 DEF Strays
<1> QED
  BY <1>4, <1>5 DEF Lasts, t

LEMMA LastsTail ==
  ASSUME NEW d, NEW x, NEW a \in Seq(Frames), a # <<>>,
         \/ x.state \notin Established /\ x.state # "SABM_SENT"
         \/ d.state \in Established /\ x.state \in Established /\ x.vr = d.vr
         \/ d.state = "SABM_SENT" /\ x.state = "SABM_SENT"
         \/ d.state = "SABM_SENT" /\ x.state \in Established /\ x.vr = 0 /\ Head(a).k = "UA"
  PROVE  Lasts(x, Tail(a)) \subseteq Lasts(d, a)
<1> DEFINE t == Tail(a)
<1>1. /\ t \in Seq(Frames) /\ Len(t) = Len(a) - 1 /\ Len(a) \in Nat \ {0} /\ Head(a) = a[1]
      /\ \A i \in 1..Len(t) : t[i] = a[i + 1] /\ i + 1 \in 1..Len(a)
      /\ Within(t) \subseteq Within(a)
  BY TailParts
<1> HIDE DEF t
<1>2. CASE x.state \notin Established /\ x.state # "SABM_SENT"
  BY <1>1, <1>2, LastsParts DEF t
<1>3. CASE d.state \in Established /\ x.state \in Established /\ x.vr = d.vr
  <2>1. /\ Lasts(d, a) = {g \in Within(a) : g.k = "I" /\ ~More(g.seg) /\ g.ns = d.vr}
        /\ Lasts(x, t) = {g \in Within(t) : g.k = "I" /\ ~More(g.seg) /\ g.ns = x.vr}
    BY <1>1, <1>3, LastsParts
  <2> QED
    BY <1>1, <1>3, <2>1 DEF t
<1>4. CASE d.state = "SABM_SENT" /\ x.state = "SABM_SENT"
  <2>1. ASSUME NEW i \in Strays(x, t) PROVE i + 1 \in Strays(d, a) /\ t[i] = a[i + 1]
    <3>1. i \in 1..Len(t) /\ t[i].k = "I" /\ ~More(t[i].seg) /\ t[i].ns = 0
      BY <1>4, <2>1 DEF Strays, Established
    <3>2. PICK j \in 1..i - 1 : t[j].k = "UA"
      BY <1>4, <2>1 DEF Strays, Established
    <3>3. j \in 1..Len(t) /\ j + 1 \in 1..(i + 1) - 1
      BY <3>1, <3>2
    <3>4. a[j + 1].k = "UA" /\ t[i] = a[i + 1] /\ i + 1 \in 1..Len(a)
      BY <1>1, <3>1, <3>2, <3>3
    <3> QED
      BY <1>4, <3>1, <3>3, <3>4 DEF Strays
  <2> QED
    BY <2>1 DEF Lasts, t
<1>5. CASE d.state = "SABM_SENT" /\ x.state \in Established /\ x.vr = 0 /\ Head(a).k = "UA"
  <2>1. ASSUME NEW i \in Strays(x, t) PROVE i + 1 \in Strays(d, a) /\ t[i] = a[i + 1]
    <3>1. i \in 1..Len(t) /\ t[i].k = "I" /\ ~More(t[i].seg) /\ t[i].ns = 0
      BY <1>5, <2>1 DEF Strays, Established
    <3>2. 1 \in 1..(i + 1) - 1 /\ a[1].k = "UA" /\ t[i] = a[i + 1] /\ i + 1 \in 1..Len(a)
      BY <1>1, <1>5, <3>1
    <3> QED
      BY <1>5, <3>1, <3>2 DEF Strays
  <2> QED
    BY <2>1 DEF Lasts, t
<1> QED
  BY <1>2, <1>3, <1>4, <1>5 DEF t

(* An entity that leaves the established link gives up what it had, but for a
   message whose last segment is under way. *)
LEMMA OwnLeft ==
  ASSUME NEW d \in Datalinks, NEW q \in Datalinks, NEW s \in Seq(Frames), NEW a \in Seq(Frames),
         Direction(d, q, s, a), AtMostOne(s, IFrames), d.state \in Established,
         q.state = "SABM_SENT" => q.vr = 0,
         NEW x, x.state \notin Established, NEW out \in Seq(Frames), Lacks(out, {"I"}),
         AtMostOne(s \o out, IFrames)
  PROVE  Wait(x, q, s \o out) \in Pieces(Wait(d, q, s))
<1> DEFINE t == s \o out
           w == Own(d, q)
<1>1. t \in Seq(Frames) /\ Lasts(q, t) = Lasts(q, s) /\ AtMostOne(t, IFrames)
  BY LastsAdded, JoinParts
<1>2. w \in Seq(Msgs) /\ Wait(d, q, s) = Wholes(w)
  BY OwnParts DEF Wait
<1>3. Wholes(w) \in Seq({Whole(m) : m \in Msgs})
  BY <1>2, WholesParts
<1>4. CASE Lasts(q, t) = {}
  <2>1. Wait(x, q, t) = <<>>
    BY <1>1, <1>4, WaitLast
  <2> HIDE DEF w
  <2> QED
    BY <1>2, <1>3, <2>1, PiecesParts
<1>5. CASE Lasts(q, t) # {}
  <2>1. PICK f \in Lasts(q, s) : TRUE
    BY <1>1, <1>5
  <2>2. Wait(x, q, t) = <<Whole(f.seg.msg)>>
    <3> HIDE DEF t
    <3>1. f \in Lasts(q, t)
      BY <1>1, <2>1
    <3> QED
      BY <1>1, <3>1, WaitLast
  <2>3. f \in Within(s) /\ f.k = "I" /\ f.ns = q.vr
    BY <1>5, <2>1, LastsParts
  <2>4. q.vr # d.vs /\ f.seg = Latest(d) /\ d.buf \in Msgs /\ d.out \in 1..Parts[d.buf]
    BY <2>3, ExpectedFrame
  <2>5. d.buf # "none" /\ Parts[d.buf] \in Nat
    BY <2>4, LapdAssumption
  <2>6. ~Has(d, q)
    BY <2>4, <2>5, HasPassed DEF Passed
  <2>7. w # <<>> /\ Head(w) = d.buf
    BY <2>5, <2>6, OwnParts
  <2>8. Wait(x, q, t) = <<Whole(d.buf)>>
    BY <2>2, <2>4 DEF Latest
  <2> HIDE DEF w, t
  <2>9. Wholes(w) # <<>> /\ Head(Wholes(w)) = Whole(d.buf)
    BY <1>2, <2>7, WholesParts
  <2>10. <<Head(Wholes(w))>> \in Pieces(Wholes(w))
    BY <1>3, <2>9, PiecesParts
  <2> QED
    BY <1>2, <2>8, <2>9, <2>10 DEF t
<1> QED
  BY <1>4, <1>5

-----------------------------------------------------------------------------
(* What the layers above know, and what is left under way. *)

(* What an entity that has left the link, or has an error unanswered, leaves
   under way: of the mobile nothing that an established base station would
   take, of the base station nothing but what continues what the mobile has
   received.  A base station that takes a SABM while it releases tells its
   layer 3 that the link is up. *)
Handed(m, n, s, a, vm, vn, bm, bn) ==
  /\ (m.state \notin Established \/ bm) /\ n.state \in Established => Lacks(s, {"I"})
  /\ n.state \notin Established \/ bn => Continues(m, a)
  /\ bn /\ n.state \in Established => Lasts(m, a) = {}
  /\ vm = "up" => m.state \in Established
  /\ vn = "up" /\ n.state \notin Established => m.state \notin Established /\ Lacks(a, {"UA"})

LEMMA HandedLasts ==
  ASSUME NEW m, NEW n, n.state # "SABM_SENT", NEW s \in Seq(Frames), NEW a \in Seq(Frames),
         NEW vm, NEW vn, NEW bm, NEW bn, Handed(m, n, s, a, vm, vn, bm, bn)
  PROVE  /\ m.state \notin Established \/ bm => Lasts(n, s) = {}
         /\ vn = "up" /\ n.state \notin Established => Lasts(m, a) = {}
<1>1. ASSUME m.state \notin Established \/ bm PROVE Lasts(n, s) = {}
  <2>1. CASE n.state \in Established
    <3>1. Lacks(s, {"I"})
      BY <1>1, <2>1 DEF Handed
    <3>2. Lasts(n, s) \subseteq {f \in Within(s) : f.k = "I" /\ ~More(f.seg)}
      BY LastsParts
    <3> QED
      BY <3>1, <3>2 DEF Lacks
  <2>2. CASE n.state \notin Established
    BY <2>2, LastsParts
  <2> QED
    BY <2>1, <2>2
<1>2. ASSUME vn = "up", n.state \notin Established PROVE Lasts(m, a) = {}
  <2>1. m.state \notin Established /\ Lacks(a, {"UA"})
    BY <1>2 DEF Handed
  <2> QED
    BY <2>1, LastsParts
<1> QED
  BY <1>1, <1>2

(* The mobile does something: it sends out, and b is what is left of a. *)
LEMMA MsHands ==
  ASSUME NEW m, NEW n, NEW s \in Seq(Frames), NEW a \in Seq(Frames),
         NEW vm, NEW vn, NEW bm, NEW bn, Handed(m, n, s, a, vm, vn, bm, bn),
         NEW x, NEW out \in Seq(Frames), NEW b \in Seq(Frames), Within(b) \subseteq Within(a),
         NEW vx, NEW cm,
         x.state \notin Established \/ cm =>
           Lacks(out, {"I"}) /\ (m.state \notin Established \/ bm \/ n.state \notin Established \/ s = <<>>),
         Continues(m, a) => Continues(x, b),
         bn => x.state = "IDLE",
         vx = "up" => x.state \in Established,
         x.state \in Established => m.state \in Established \/ ~Lacks(a, {"UA"})
  PROVE  Handed(x, n, s \o out, b, vx, vn, cm, bn)
<1>1. ASSUME x.state \notin Established \/ cm, n.state \in Established PROVE Lacks(s \o out, {"I"})
  <2>1. Lacks(s, {"I"})
    BY <1>1, LacksParts DEF Handed
  <2> QED
    BY <1>1, <2>1, LacksParts
<1>2. ASSUME bn, n.state \in Established PROVE Lasts(x, b) = {}
  BY <1>2, LastsParts DEF Established
<1>3. ASSUME vn = "up", n.state \notin Established PROVE x.state \notin Established /\ Lacks(b, {"UA"})
  BY <1>3 DEF Handed, Lacks
<1> QED
  BY <1>1, <1>2, <1>3 DEF Handed

(* The base station does something: t is what is left of s. *)
LEMMA BtsHands ==
  ASSUME NEW m, NEW n, NEW s \in Seq(Frames), NEW a \in Seq(Frames),
         NEW vm, NEW vn, NEW bm, NEW bn, Handed(m, n, s, a, vm, vn, bm, bn),
         NEW x, NEW out \in Seq(Frames), NEW t \in Seq(Frames), Within(t) \subseteq Within(s),
         NEW vx, NEW cn,
         x.state \in Established => n.state \in Established \/ t = <<>>,
         x.state \notin Established \/ cn =>
           Lacks(out, {"I"}) /\ (n.state \notin Established \/ bn \/ Continues(m, a)),
         cn /\ x.state \in Established => Lasts(m, a \o out) = {},
         vx = "up" /\ x.state \notin Established => m.state \notin Established /\ Lacks(a \o out, {"UA"})
  PROVE  Handed(m, x, t, a \o out, vm, vx, bm, cn)
<1>1. ASSUME m.state \notin Established \/ bm, x.state \in Established PROVE Lacks(t, {"I"})
  <2>1. CASE t = <<>>
    BY <2>1, LacksParts
  <2>2. CASE n.state \in Established
    <3>1. Lacks(s, {"I"})
      BY <1>1, <2>2 DEF Handed
    <3> QED
      BY <3>1 DEF Lacks
  <2> QED
    BY <1>1, <2>1, <2>2
<1>2. ASSUME x.state \notin Established \/ cn PROVE Continues(m, a \o out)
  <2>1. Continues(m, a) /\ Lacks(out, {"I"})
    BY <1>2 DEF Handed
  <2>2. Within(a \o out) = Within(a) \cup Within(out)
    BY JoinParts
  <2> QED
    BY <2>1, <2>2 DEF Continues, Lacks
<1>3. vm = "up" => m.state \in Established
  BY DEF Handed
<1> QED
  BY <1>1, <1>2, <1>3 DEF Handed

(* The messages of the mobile, and those that its peer sends to it. *)
LEMMA MsWait ==
  ASSUME NEW m, NEW n, n.state # "SABM_SENT", NEW s \in Seq(Frames), NEW a \in Seq(Frames),
         NEW vm, NEW vn, NEW bm, NEW bn, Handed(m, n, s, a, vm, vn, bm, bn),
         m.state \notin Established, AtMostOne(s, IFrames)
  PROVE  Wait(m, n, s) = <<>>
<1>1. Lasts(n, s) = {}
  BY HandedLasts
<1> QED
  BY <1>1, WaitLast

LEMMA WaitType ==
  ASSUME NEW d \in Datalinks, d.state \in Established, NEW q, NEW s
  PROVE  Wait(d, q, s) \in Seq({Whole(m) : m \in Msgs})
<1> DEFINE w == Own(d, q)
<1>1. w \in Seq(Msgs) /\ Wait(d, q, s) = Wholes(w)
  BY OwnParts DEF Wait
<1> HIDE DEF w
<1> QED
  BY <1>1, WholesParts

LEMMA MsLeaves ==
  ASSUME NEW m \in Datalinks, NEW n, n.state # "SABM_SENT", NEW s \in Seq(Frames), NEW a \in Seq(Frames),
         NEW vm, NEW vn, NEW bm, NEW bn, Handed(m, n, s, a, vm, vn, bm, bn), AtMostOne(s, IFrames),
         NEW x, x.state \notin Established, NEW t \in Seq(Frames), NEW b \in Seq(Frames),
         NEW vx, NEW cm, Handed(x, n, t, b, vx, vn, cm, bn), AtMostOne(t, IFrames),
         NEW c
  PROVE  Changed(Wait(m, n, s), Wait(x, n, t), vx = "up" /\ c)
<1>1. Wait(x, n, t) = <<>>
  BY MsWait
<1>2. vx # "up"
  BY DEF Handed
<1>3. CASE m.state \notin Established
  <2>1. Wait(m, n, s) = <<>>
    BY <1>3, MsWait
  <2> QED
    BY <1>1, <2>1 DEF Changed
<1>4. CASE m.state \in Established
  <2>1. Wait(m, n, s) \in Seq({Whole(k) : k \in Msgs})
    BY <1>4, WaitType
  <2>2. <<>> \in Pieces(Wait(m, n, s))
    BY <2>1, PiecesParts
  <2> QED
    BY <1>1, <1>2, <2>2 DEF Changed
<1> QED
  BY <1>3, <1>4

LEMMA MsHears ==
  ASSUME NEW m, NEW n \in Datalinks, n.state # "SABM_SENT", NEW s \in Seq(Frames), NEW a \in Seq(Frames),
         AtMostOne(a, IFrames),
         NEW vm, NEW vn, NEW bm, NEW bn, Handed(m, n, s, a, vm, vn, bm, bn),
         NEW x, x.vr = m.vr, NEW b \in Seq(Frames), AtMostOne(b, IFrames),
         Lasts(x, b) \subseteq Lasts(m, a)
  PROVE  Changed(Wait(n, m, a), Wait(n, x, b), vn = "up")
<1>1. CASE n.state \in Established
  <2>1. Own(n, x) = Own(n, m)
    BY DEF Own, Has
  <2> QED
    BY <1>1, <2>1 DEF Wait, Changed
<1>2. CASE n.state \notin Established
  <2>1. CASE Lasts(m, a) = {}
    <3>1. Wait(n, x, b) = Wait(n, m, a)
      BY <1>2, <2>1, FewerLasts
    <3> QED
      BY <3>1 DEF Changed
  <2>2. CASE Lasts(m, a) # {}
    <3>1. vn # "up"
      BY <1>2, <2>2, HandedLasts
    <3>2. Wait(n, x, b) = Wait(n, m, a) \/ Wait(n, x, b) = <<>>
      BY <1>2, FewerLasts
    <3>3. <<>> \in Pieces(Wait(n, m, a))
      <4>1. PICK f \in Lasts(m, a) : TRUE
        BY <2>2
      <4>2. Wait(n, m, a) = <<Whole(f.seg.msg)>>
        BY <1>2, <4>1, WaitLast
      <4>3. Wait(n, m, a) \in Seq({Whole(f.seg.msg)})
        BY <4>2
      <4> QED
        BY <4>3, PiecesParts
    <3> QED
      BY <3>1, <3>2, <3>3 DEF Changed
  <2> QED
    BY <2>1, <2>2
<1> QED
  BY <1>1, <1>2

LEMMA BtsHears ==
  ASSUME NEW m, NEW n, n.state # "SABM_SENT", NEW s \in Seq(Frames), NEW a \in Seq(Frames),
         NEW vm, NEW vn, NEW bm, NEW bn, Handed(m, n, s, a, vm, vn, bm, bn), AtMostOne(s, IFrames),
         NEW x, x.state # "SABM_SENT", NEW t \in Seq(Frames), NEW b \in Seq(Frames),
         NEW vx, NEW cn, Handed(m, x, t, b, vm, vx, bm, cn), AtMostOne(t, IFrames),
         m.state \in Established => x.vr = n.vr, NEW c
  PROVE  Changed(Wait(m, n, s), Wait(m, x, t), c)
<1>1. CASE m.state \in Established
  <2>1. Own(m, x) = Own(m, n)
    BY <1>1 DEF Own, Has
  <2> QED
    BY <1>1, <2>1 DEF Wait, Changed
<1>2. CASE m.state \notin Established
  <2>1. Wait(m, n, s) = <<>> /\ Wait(m, x, t) = <<>>
    BY <1>2, MsWait
  <2> QED
    BY <2>1 DEF Changed
<1> QED
  BY <1>1, <1>2

-----------------------------------------------------------------------------
(* The mobile receives a frame. *)

Told(v, prims) ==
  IF prims \cap {"EST_IND", "EST_CONF"} # {} THEN "up"
  ELSE IF prims \cap {"REL_IND", "REL_CONF"} # {} THEN "down" ELSE v

LEMMA ToldParts ==
  ASSUME NEW v, NEW prims
  PROVE  /\ prims \subseteq {"MDL_ERROR"} => Told(v, prims) = v
         /\ prims \in {{"REL_IND"}, {"REL_CONF"}} => Told(v, prims) = "down"
         /\ prims = {} => "MDL_ERROR" \notin prims
  BY DEF Told

MsGoes(m, n, s, a, vm, vn, x, out, prims) ==
  /\ Handed(x, n, s \o out, Tail(a), Told(vm, prims), vn, "MDL_ERROR" \in prims, FALSE)
  /\ Changed(Wait(m, n, s), Wait(x, n, s \o out), Told(vm, prims) = "up" /\ "MDL_ERROR" \notin prims)
  /\ Changed(Wait(n, m, a), Wait(n, x, Tail(a)), vn = "up")

LEMMA MsStays ==
  ASSUME NEW m \in Datalinks, NEW n \in Datalinks, NEW s \in Seq(Frames), NEW a \in Seq(Frames), a # <<>>,
         Alone(m, n, s, a), Linked(m, n, s, a, FALSE, FALSE),
         NEW vm, NEW vn, Handed(m, n, s, a, vm, vn, FALSE, FALSE),
         NEW x, Kept(m, x) \/ Closed(m, x), NEW out \in Seq(Frames), Lacks(out, {"I"}), NEW prims,
         Linked(x, n, s \o out, Tail(a), "MDL_ERROR" \in prims, FALSE),
         m.state \in Established /\ (x.state \notin Established \/ "MDL_ERROR" \in prims) =>
           n.state \notin Established,
         Told(vm, prims) = "up" => x.state \in Established
  PROVE  MsGoes(m, n, s, a, vm, vn, x, out, prims)
<1> DEFINE t == s \o out
           b == Tail(a)
           c == "MDL_ERROR" \in prims
           v == Told(vm, prims)
<1>1. /\ t \in Seq(Frames) /\ b \in Seq(Frames) /\ Within(b) \subseteq Within(a)
      /\ AtMostOne(s, IFrames) /\ AtMostOne(a, IFrames) /\ AtMostOne(t, IFrames) /\ AtMostOne(b, IFrames)
      /\ n.state # "SABM_SENT"
  BY TailParts, JoinParts DEF Linked, Side, Alone
<1>2. SameReceiver(m, x) /\ (x.state = m.state \/ x.state = "IDLE")
  BY DEF Kept, SameData, Closed
<1>3. x.state \in Established => m.state \in Established /\ Kept(m, x)
  BY DEF Kept, Closed, Established
<1>4. Handed(x, n, t, b, v, vn, c, FALSE)
  <2>1. Continues(m, a) => Continues(x, b)
    BY <1>1, <1>2 DEF Continues, Ready, SameReceiver
  <2> HIDE DEF b, c, v
  <2>2. x.state \notin Established \/ c =>
          Lacks(out, {"I"}) /\ (m.state \notin Established \/ FALSE \/ n.state \notin Established \/ s = <<>>)
    BY DEF c
  <2> QED
    BY <1>1, <1>3, <2>1, <2>2, MsHands DEF v
<1>5. Changed(Wait(m, n, s), Wait(x, n, t), v = "up" /\ ~c)
  <2>1. CASE x.state \in Established
    <3>1. Own(x, n) = Own(m, n)
      BY <1>3, <2>1 DEF Kept, SameData, Own, Has
    <3> QED
      BY <1>3, <2>1, <3>1 DEF Wait, Changed
  <2>2. CASE x.state \notin Established
    <3> HIDE DEF t, b, c, v
    <3> QED
      <4> DEFINE g == ~c
      <4> HIDE DEF g
      <4>1. Changed(Wait(m, n, s), Wait(x, n, t), v = "up" /\ g)
        BY <1>1, <1>4, <2>2, MsLeaves, ZenonT(60)
      <4> QED
        BY <4>1 DEF g
  <2> QED
    BY <2>1, <2>2
<1>6. Changed(Wait(n, m, a), Wait(n, x, b), vn = "up")
  <2>1. x.vr = m.vr
    BY <1>2 DEF SameReceiver
  <2>2. Lasts(x, b) \subseteq Lasts(m, a)
    BY <1>2, <2>1, LastsTail DEF Established
  <2> QED
    BY <1>1, <2>1, <2>2, MsHears
<1> QED
  BY <1>4, <1>5, <1>6 DEF MsGoes

LEMMA NoInformation ==
  ASSUME NEW out, \/ out = <<>>
                  \/ One(out, "DM") \/ One(out, "UA") \/ One(out, "SABM") \/ One(out, "DISC")
  PROVE  out \in Seq(Frames) /\ Lacks(out, {"I"})
<1>1. CASE out = <<>>
  BY <1>1, NoFrame DEF Lacks
<1>2. ASSUME NEW k \in {"DM", "UA", "SABM", "DISC"}, One(out, k) PROVE out \in Seq(Frames) /\ Lacks(out, {"I"})
  BY <1>2, OneParts DEF Lacks
<1> QED
  BY <1>1, <1>2

LEMMA MsGetsDmDisc ==
  ASSUME NEW m \in Datalinks, NEW n \in Datalinks, NEW s \in Seq(Frames), NEW a \in Seq(Frames), a # <<>>,
         Alone(m, n, s, a), Linked(m, n, s, a, FALSE, FALSE),
         NEW vm, NEW vn, Handed(m, n, s, a, vm, vn, FALSE, FALSE),
         NEW x, NEW out, NEW prims,
         Linked(x, n, s \o out, Tail(a), "MDL_ERROR" \in prims, FALSE),
         \/ Head(a).k = "DM" /\ RxDm(m, Head(a), x, out, prims)
         \/ Head(a).k = "DISC" /\ RxDisc(m, Head(a), x, out, prims)
  PROVE  MsGoes(m, n, s, a, vm, vn, x, out, prims)
<1>1. Head(a) \in Within(a)
  BY TailParts
<1>2. n.state \notin Established
  BY <1>1 DEF Linked, Control, BtsOpen, Lacks
<1>3. vm = "up" => m.state \in Established
  BY DEF Handed
<1>4. CASE RxDm(m, Head(a), x, out, prims)
  <2>1. out = <<>> /\ (Kept(m, x) \/ Closed(m, x))
    BY <1>4 DEF RxDm
  <2>2. Told(vm, prims) = "up" => x.state \in Established
    <3>1. CASE Kept(m, x) /\ prims \subseteq {"MDL_ERROR"}
      BY <1>3, <3>1, ToldParts DEF Kept
    <3>2. CASE prims \in {{"REL_IND"}, {"REL_CONF"}}
      BY <3>2, ToldParts
    <3> QED
      BY <1>4, <3>1, <3>2 DEF RxDm
  <2>3. out \in Seq(Frames) /\ Lacks(out, {"I"})
    BY <2>1, NoInformation
  <2> QED
    BY <1>2, <2>1, <2>2, <2>3, MsStays
<1>5. CASE RxDisc(m, Head(a), x, out, prims)
  <2>1. Closed(m, x) /\ (One(out, "DM") \/ One(out, "UA"))
    BY <1>5 DEF RxDisc
  <2>2. Told(vm, prims) = "up" => x.state \in Established
    <3>1. CASE m.state = "IDLE" /\ prims = {}
      BY <1>3, <3>1, ToldParts DEF Established
    <3>2. CASE prims \in {{"REL_IND"}, {"REL_CONF"}}
      BY <3>2, ToldParts
    <3> QED
      BY <1>5, <3>1, <3>2 DEF RxDisc
  <2>3. out \in Seq(Frames) /\ Lacks(out, {"I"})
    BY <2>1, NoInformation
  <2> QED
    BY <1>2, <2>1, <2>2, <2>3, MsStays
<1> QED
  BY <1>4, <1>5

LEMMA MsGetsDropped ==
  ASSUME NEW m \in Datalinks, NEW n \in Datalinks, NEW s \in Seq(Frames), NEW a \in Seq(Frames), a # <<>>,
         Alone(m, n, s, a), Linked(m, n, s, a, FALSE, FALSE),
         NEW vm, NEW vn, Handed(m, n, s, a, vm, vn, FALSE, FALSE),
         NEW x, NEW out, NEW prims,
         Linked(x, n, s \o out, Tail(a), "MDL_ERROR" \in prims, FALSE),
         RxDropped(m, Head(a), x, out, prims)
  PROVE  MsGoes(m, n, s, a, vm, vn, x, out, prims)
<1>1. m.state \notin Established /\ Kept(m, x) /\ prims \subseteq {"MDL_ERROR"}
      /\ (out = <<>> \/ One(out, "DM"))
  BY DEF RxDropped
<1>2. Told(vm, prims) = "up" => x.state \in Established
  BY <1>1, ToldParts DEF Handed
<1>3. out \in Seq(Frames) /\ Lacks(out, {"I"})
  BY <1>1, NoInformation
<1> QED
  BY <1>1, <1>2, <1>3, MsStays

LEMMA MsGetsUa ==
  ASSUME NEW m \in Datalinks, NEW n \in Datalinks, NEW s \in Seq(Frames), NEW a \in Seq(Frames), a # <<>>,
         Alone(m, n, s, a), Linked(m, n, s, a, FALSE, FALSE),
         NEW vm, NEW vn, Handed(m, n, s, a, vm, vn, FALSE, FALSE),
         NEW x \in Datalinks, NEW out, NEW prims,
         Linked(x, n, s \o out, Tail(a), "MDL_ERROR" \in prims, FALSE),
         Head(a).k = "UA", RxUa(m, Head(a), x, out, prims)
  PROVE  MsGoes(m, n, s, a, vm, vn, x, out, prims)
<1>1. Head(a) \in Within(a) /\ Tail(a) \in Seq(Frames) /\ Within(Tail(a)) \subseteq Within(a)
  BY TailParts
<1>2. m.state = "SABM_SENT" /\ m.state \notin Established /\ ~Lacks(a, {"UA"})
  BY <1>1 DEF Linked, Control, UaFirst, Lacks, Established
<1>3. m.vr = 0 /\ m.rcv = <<>> /\ m.queue = <<>> /\ m.buf = "none"
  BY <1>2 DEF Linked, Control, Waits
<1>4. CASE out = <<>> /\ (Kept(m, x) \/ Closed(m, x)) /\ (prims = {} \/ prims = {"REL_IND"})
  <2>1. Told(vm, prims) = "up" => x.state \in Established
    BY <1>2, <1>4, ToldParts DEF Handed
  <2>2. out \in Seq(Frames) /\ Lacks(out, {"I"})
    BY <1>4, NoInformation
  <2> QED
    BY <1>2, <1>4, <2>1, <2>2, MsStays
<1>5. ASSUME NEW c \in Datalinks, Joined(m, c), x = SendI(c).d, out = SendI(c).out, prims = {"EST_CONF"}
      PROVE  MsGoes(m, n, s, a, vm, vn, x, out, prims)
  <2>1. /\ out = <<>> /\ x.state = "MF_EST" /\ x.vs = 0 /\ x.va = 0 /\ x.buf = "none"
        /\ \A h \in 1..2 : x.hist[h] = None
        /\ x.vr = 0 /\ x.rcv = <<>>
    BY <1>3, <1>5, NothingWaits
  <2>2. x.queue = <<>> /\ x.state \in Established
    BY <1>3, <1>5, <2>1, NothingWaits DEF Established
  <2>3. /\ "MDL_ERROR" \notin prims /\ ("MDL_ERROR" \in prims) = FALSE
    BY <1>5
  <2>4. /\ s \o out \in Seq(Frames) /\ Lacks(out, {"I"}) /\ out \in Seq(Frames)
        /\ AtMostOne(s, IFrames) /\ AtMostOne(a, IFrames) /\ AtMostOne(Tail(a), IFrames)
        /\ n.state # "SABM_SENT"
    BY <1>1, <2>1, NoInformation, JoinParts DEF Linked, Side, Alone
  <2>5. Continues(m, a) => Continues(x, Tail(a))
    BY <1>1, <1>3, <2>1 DEF Continues, Ready
  <2>6. Handed(x, n, s \o out, Tail(a), Told(vm, prims), vn, FALSE, FALSE)
    BY <1>1, <1>2, <2>2, <2>4, <2>5, MsHands
  <2>7. Wait(m, n, s) = <<>>
    BY <1>2, <2>4, MsWait
  <2>8. Wait(x, n, s \o out) = <<>>
    <3>1. Own(x, n) = <<>>
      BY <2>1, <2>2 DEF Own
    <3> QED
      BY <2>2, <3>1 DEF Wait, Wholes
  <2>9. Lasts(x, Tail(a)) \subseteq Lasts(m, a)
    BY <1>2, <2>1, <2>2, LastsTail
  <2>10. Changed(Wait(n, m, a), Wait(n, x, Tail(a)), vn = "up")
    BY <1>1, <1>3, <2>1, <2>4, <2>9, MsHears
  <2>11. Changed(Wait(m, n, s), Wait(x, n, s \o out), Told(vm, prims) = "up" /\ "MDL_ERROR" \notin prims)
    BY <2>7, <2>8 DEF Changed
  <2> QED
    BY <2>3, <2>6, <2>10, <2>11 DEF MsGoes
<1> QED
  BY <1>2, <1>4, <1>5 DEF RxUa

LEMMA TakenHears ==
  ASSUME NEW d, NEW f, NEW x, NEW out, NEW prims, RxTaken(d, f, x, out, prims)
  PROVE  d.state \in Established /\ Hears(d, x, f)
<1>1. PICK y, answer : Handles(d, y, answer, f) /\ x = SendI(y).d
  BY DEF RxTaken
<1>2. y \in Datalinks /\ Hears(d, y, f)
  BY <1>1 DEF Handles
<1>3. x.vr = y.vr /\ x.rcv = y.rcv
  BY <1>1, <1>2, SendIKeeps
<1>4. Hears(d, x, f)
  BY <1>2, <1>3 DEF Hears, SameReceiver
<1> QED
  BY <1>4 DEF RxTaken

LEMMA ContinuesTaken ==
  ASSUME NEW d, NEW s \in Seq(Frames), s # <<>>, AtMostOne(s, IFrames), Continues(d, s),
         NEW x, Hears(d, x, Head(s))
  PROVE  Continues(x, Tail(s))
<1>1. /\ Head(s) \in Frames /\ Tail(s) \in Seq(Frames) /\ Within(Tail(s)) \subseteq Within(s)
      /\ Head(s) \in IFrames => Within(Tail(s)) \cap IFrames = {}
  BY TailParts
<1>2. CASE Head(s).k = "I" /\ Head(s).ns = d.vr
  <2>1. Within(Tail(s)) \cap IFrames = {} /\ Within(Tail(s)) \subseteq Frames
    BY <1>1, <1>2, FrameKinds, WithinParts
  <2>2. \A g \in Within(Tail(s)) : g.k # "I"
    BY <2>1, FrameKinds
  <2> QED
    BY <2>2 DEF Continues
<1>3. CASE ~(Head(s).k = "I" /\ Head(s).ns = d.vr)
  <2>1. SameReceiver(d, x)
    BY <1>3 DEF Hears
  <2> QED
    BY <1>1, <2>1 DEF Continues, Ready, SameReceiver
<1> QED
  BY <1>2, <1>3

(* An established entity: what it sends stays, and what it takes is delivered
   when a message is complete. *)
MsTakesUp(m, n, s, a, vm, vn, x, out, prims) ==
  /\ prims = {}
  /\ Handed(x, n, s \o out, Tail(a), vm, vn, FALSE, FALSE)
  /\ Wait(x, n, s \o out) = Wait(m, n, s)
  /\ HandsOver(n, m, a, x)

LEMMA MsGetsTaken ==
  ASSUME NEW m \in Datalinks, NEW n \in Datalinks, NEW s \in Seq(Frames), NEW a \in Seq(Frames), a # <<>>,
         Linked(m, n, s, a, FALSE, FALSE),
         NEW vm, NEW vn, Handed(m, n, s, a, vm, vn, FALSE, FALSE),
         NEW x, NEW out, NEW prims, Numbered(Head(a)), RxTaken(m, Head(a), x, out, prims)
  PROVE  MsTakesUp(m, n, s, a, vm, vn, x, out, prims)
<1>1. /\ Head(a) \in Within(a) /\ Tail(a) \in Seq(Frames) /\ Within(Tail(a)) \subseteq Within(a)
      /\ AtMostOne(a, IFrames) /\ RejFinal(a)
      /\ Side(m, n, s, a, FALSE) /\ Side(n, m, a, s, FALSE)
  BY TailParts DEF Linked, Control, Side
<1>2. Head(a).k = "REJ" => Head(a) \in Finals
  BY <1>1 DEF RejFinal
<1>3. prims = {} /\ out \in Seq(Frames) /\ x.state \in Established
  BY <1>1, <1>2, TakenSides
<1>4. m.state \in Established /\ Hears(m, x, Head(a))
  BY TakenHears
<1>5. Own(x, n) = Own(m, n)
  <2>1. Side(m, n, s, a, FALSE)
    BY <1>1
  <2> QED
    BY <2>1, <1>2, OwnTaken, ZenonT(60)
<1>6. Wait(x, n, s \o out) = Wait(m, n, s)
  BY <1>3, <1>4, <1>5 DEF Wait
<1>7. n.state \notin Established => Continues(m, a)
  BY DEF Handed
<1>8. HandsOver(n, m, a, x)
  BY <1>1, <1>3, <1>4, <1>7, PeerTaken
<1>9. Continues(m, a) => Continues(x, Tail(a))
  BY <1>1, <1>4, ContinuesTaken
<1>10. Handed(x, n, s \o out, Tail(a), vm, vn, FALSE, FALSE)
  BY <1>1, <1>3, <1>4, <1>9, MsHands
<1> QED
  BY <1>3, <1>6, <1>8, <1>10 DEF MsTakesUp

BtsTakesUp(m, n, s, a, vm, vn, x, out, prims) ==
  /\ prims = {}
  /\ Handed(m, x, Tail(s), a \o out, vm, vn, FALSE, FALSE)
  /\ Wait(x, m, a \o out) = Wait(n, m, a)
  /\ HandsOver(m, n, s, x)

LEMMA BtsGetsTaken ==
  ASSUME NEW m \in Datalinks, NEW n \in Datalinks, NEW s \in Seq(Frames), NEW a \in Seq(Frames), s # <<>>,
         Linked(m, n, s, a, FALSE, FALSE),
         NEW vm, NEW vn, Handed(m, n, s, a, vm, vn, FALSE, FALSE),
         NEW x, NEW out, NEW prims, Numbered(Head(s)), RxTaken(n, Head(s), x, out, prims)
  PROVE  BtsTakesUp(m, n, s, a, vm, vn, x, out, prims)
<1>1. /\ Head(s) \in Within(s) /\ Tail(s) \in Seq(Frames) /\ Within(Tail(s)) \subseteq Within(s)
      /\ AtMostOne(s, IFrames) /\ RejFinal(s)
      /\ Side(m, n, s, a, FALSE) /\ Side(n, m, a, s, FALSE)
  BY TailParts DEF Linked, Control, Side
<1>2. Head(s).k = "REJ" => Head(s) \in Finals
  BY <1>1 DEF RejFinal
<1>3. prims = {} /\ out \in Seq(Frames) /\ x.state \in Established
  BY <1>1, <1>2, TakenSides
<1>4. n.state \in Established /\ Hears(n, x, Head(s))
  BY TakenHears
<1>5. Own(x, m) = Own(n, m)
  BY <1>1, <1>2, OwnTaken
<1>6. Wait(x, m, a \o out) = Wait(n, m, a)
  BY <1>3, <1>4, <1>5 DEF Wait
<1>7. m.state \notin Established => Continues(n, s)
  BY <1>4 DEF Handed, Lacks, Continues
<1>8. HandsOver(m, n, s, x)
  BY <1>1, <1>3, <1>4, <1>7, PeerTaken
<1>9. Handed(m, x, Tail(s), a \o out, vm, vn, FALSE, FALSE)
  BY <1>1, <1>3, <1>4, BtsHands
<1> QED
  BY <1>3, <1>6, <1>8, <1>9 DEF BtsTakesUp

-----------------------------------------------------------------------------
(* The base station does something: what holds of most of what it does. *)

BtsTurns(m, n, s, a, vm, vn, x, t, b, vx, cn) ==
  /\ Handed(m, x, t, b, vm, vx, FALSE, cn)
  /\ Changed(Wait(n, m, a), Wait(x, m, b), vx = "up" /\ ~cn)
  /\ Changed(Wait(m, n, s), Wait(m, x, t), vm = "up")

LEMMA BtsStays ==
  ASSUME NEW m \in Datalinks, NEW n \in Datalinks, NEW s \in Seq(Frames), NEW a \in Seq(Frames),
         Alone(m, n, s, a), Linked(m, n, s, a, FALSE, FALSE),
         NEW vm, NEW vn, Handed(m, n, s, a, vm, vn, FALSE, FALSE),
         NEW x, x.state # "SABM_SENT", SameReceiver(n, x),
         NEW t \in Seq(Frames), Within(t) \subseteq Within(s), AtMostOne(t, IFrames),
         NEW out \in Seq(Frames), Lacks(out, {"I"}), NEW vx, NEW cn,
         x.state \in Established => n.state \in Established /\ Own(x, m) = Own(n, m),
         n.state \in Established /\ x.state \notin Established => vx # "up" \/ cn,
         cn /\ x.state \in Established => Lasts(m, a) = {},
         vx = "up" /\ x.state \notin Established => m.state \notin Established /\ Lacks(a \o out, {"UA"})
  PROVE  BtsTurns(m, n, s, a, vm, vn, x, t, a \o out, vx, cn)
<1> DEFINE b == a \o out
<1>1. /\ n.state # "SABM_SENT" /\ AtMostOne(s, IFrames) /\ AtMostOne(a, IFrames)
      /\ m.state = "SABM_SENT" => m.vr = 0
      /\ n.state \in Established => Direction(n, m, a, s)
  BY DEF Alone, Linked, Side, Control, Waits
<1>2. b \in Seq(Frames) /\ Lasts(m, b) = Lasts(m, a)
  BY JoinParts, LastsAdded
<1>3. AtMostOne(b, IFrames)
  <2>1. \A g \in Within(out) : g \notin IFrames
    BY FrameKinds, WithinParts DEF Lacks, IFrames
  <2>2. Within(out) \cap IFrames = {}
    BY <2>1
  <2> QED
    BY <1>1, <2>2, JoinParts
<1>4. n.state \in Established => Continues(m, a)
  BY <1>1, DirectionContinues
<1>5. Handed(m, x, t, b, vm, vx, FALSE, cn)
  <2>1. cn /\ x.state \in Established => Lasts(m, b) = {}
    BY <1>2
  <2>2. x.state \notin Established \/ cn =>
          Lacks(out, {"I"}) /\ (n.state \notin Established \/ FALSE \/ Continues(m, a))
    BY <1>4
  <2>3. x.state \in Established => n.state \in Established \/ t = <<>>
    OBVIOUS
  <2> QED
    BY <2>1, <2>2, <2>3, BtsHands
<1>6. Changed(Wait(m, n, s), Wait(m, x, t), vm = "up")
  <2>1. x.vr = n.vr
    BY DEF SameReceiver
  <2> HIDE DEF b
  <2> QED
    BY <1>1, <1>2, <1>5, <2>1, BtsHears
<1>7. Changed(Wait(n, m, a), Wait(x, m, b), vx = "up" /\ ~cn)
  <2>1. CASE x.state \in Established
    BY <2>1 DEF Wait, Changed
  <2>2. CASE x.state \notin Established /\ n.state \in Established
    <3>1. Wait(x, m, a \o out) \in Pieces(Wait(n, m, a))
      BY <1>1, <1>3, <2>2, OwnLeft
    <3> QED
      BY <2>2, <3>1 DEF Changed
  <2>3. CASE x.state \notin Established /\ n.state \notin Established
    <3> HIDE DEF b
    <3>1. Wait(x, m, b) = Wait(n, m, a)
      BY <1>1, <1>2, <1>3, <2>3, FewerLasts
    <3> QED
      BY <3>1 DEF Changed
  <2> QED
    BY <2>1, <2>2, <2>3
<1> QED
  BY <1>5, <1>6, <1>7 DEF BtsTurns

(* It receives a frame. *)
BtsGoes(m, n, s, a, vm, vn, x, out, prims) ==
  BtsTurns(m, n, s, a, vm, vn, x, Tail(s), a \o out, Told(vn, prims), "MDL_ERROR" \in prims)

LEMMA KeptOwn ==
  ASSUME NEW d, NEW x, Kept(d, x), NEW q
  PROVE  SameReceiver(d, x) /\ x.state = d.state /\ Own(x, q) = Own(d, q)
BY DEF Kept, SameData, Own, Has

LEMMA BtsKeeps ==
  ASSUME NEW m \in Datalinks, NEW n \in Datalinks, NEW s \in Seq(Frames), NEW a \in Seq(Frames), s # <<>>,
         Alone(m, n, s, a), Linked(m, n, s, a, FALSE, FALSE),
         NEW vm, NEW vn, Handed(m, n, s, a, vm, vn, FALSE, FALSE),
         NEW x, Kept(n, x) \/ Closed(n, x), NEW out \in Seq(Frames), Lacks(out, {"I"}), NEW prims,
         n.state \in Established => Kept(n, x) \/ Told(vn, prims) # "up",
         "MDL_ERROR" \in prims /\ x.state \in Established => Lasts(m, a) = {},
         Told(vn, prims) = "up" /\ x.state \notin Established =>
           m.state \notin Established /\ Lacks(a \o out, {"UA"})
  PROVE  BtsGoes(m, n, s, a, vm, vn, x, out, prims)
<1> DEFINE t == Tail(s)
           c == "MDL_ERROR" \in prims
           v == Told(vn, prims)
<1>1. t \in Seq(Frames) /\ Within(t) \subseteq Within(s) /\ AtMostOne(t, IFrames)
  BY TailParts DEF Linked, Side
<1>2. n.state # "SABM_SENT"
  BY DEF Alone
<1>3. SameReceiver(n, x) /\ x.state # "SABM_SENT"
  BY <1>2, KeptOwn DEF Closed
<1>4. x.state \in Established => n.state \in Established /\ Own(x, m) = Own(n, m)
  BY KeptOwn DEF Closed, Established
<1>5. n.state \in Established /\ x.state \notin Established => v # "up" \/ c
  BY KeptOwn
<1>6. /\ c /\ x.state \in Established => Lasts(m, a) = {}
      /\ v = "up" /\ x.state \notin Established => m.state \notin Established /\ Lacks(a \o out, {"UA"})
  OBVIOUS
<1> HIDE DEF t, c, v
<1>7. BtsTurns(m, n, s, a, vm, vn, x, t, a \o out, v, c)
  BY <1>1, <1>3, <1>4, <1>5, <1>6, BtsStays
<1> QED
  BY <1>7 DEF BtsGoes, t, c, v

LEMMA BtsGetsDm ==
  ASSUME NEW m \in Datalinks, NEW n \in Datalinks, NEW s \in Seq(Frames), NEW a \in Seq(Frames), s # <<>>,
         Alone(m, n, s, a), Linked(m, n, s, a, FALSE, FALSE),
         NEW vm, NEW vn, Handed(m, n, s, a, vm, vn, FALSE, FALSE),
         NEW x, NEW out, NEW prims, Head(s).k = "DM", RxDm(n, Head(s), x, out, prims)
  PROVE  BtsGoes(m, n, s, a, vm, vn, x, out, prims)
<1>1. m.state = "IDLE"
  BY MsWaits DEF Linked, Numbered
<1>2. Lasts(m, a) = {}
  BY <1>1, LastsParts DEF Established
<1>3. out = <<>> /\ (Kept(n, x) \/ Closed(n, x))
  BY DEF RxDm
<1>4. out \in Seq(Frames) /\ Lacks(out, {"I"}) /\ Lacks(out, {"UA"})
  BY <1>3, NoInformation, LacksParts
<1>5. \/ Kept(n, x) /\ Told(vn, prims) = vn
      \/ Closed(n, x) /\ Told(vn, prims) = "down"
  <2>1. \/ Kept(n, x) /\ prims \subseteq {"MDL_ERROR"}
        \/ Closed(n, x) /\ prims \in {{"REL_IND"}, {"REL_CONF"}}
    BY DEF RxDm
  <2> QED
    BY <2>1, ToldParts
<1>6. Told(vn, prims) = "up" /\ x.state \notin Established =>
        m.state \notin Established /\ Lacks(a \o out, {"UA"})
  BY <1>4, <1>5, LacksParts DEF Kept, Handed
<1> QED
  BY <1>2, <1>3, <1>4, <1>5, <1>6, BtsKeeps

LEMMA BtsGetsUa ==
  ASSUME NEW m \in Datalinks, NEW n \in Datalinks, NEW s \in Seq(Frames), NEW a \in Seq(Frames), s # <<>>,
         Alone(m, n, s, a), Linked(m, n, s, a, FALSE, FALSE),
         NEW vm, NEW vn, Handed(m, n, s, a, vm, vn, FALSE, FALSE),
         NEW x, NEW out, NEW prims, Head(s).k = "UA", RxUa(n, Head(s), x, out, prims)
  PROVE  BtsGoes(m, n, s, a, vm, vn, x, out, prims)
<1>1. n.state \notin Established /\ n.state # "SABM_SENT"
  BY TailParts DEF Linked, Control, BtsOpen, Lacks, Alone
<1>2. out = <<>>
  BY <1>1 DEF RxUa
<1>3. \/ Kept(n, x) /\ prims = {}
      \/ Closed(n, x) /\ prims = {"REL_CONF"}
  BY <1>1 DEF RxUa
<1>4. out \in Seq(Frames) /\ Lacks(out, {"I"}) /\ Lacks(out, {"UA"})
  BY <1>2, NoInformation, LacksParts
<1>5. x.state \notin Established /\ (Told(vn, prims) = vn \/ Told(vn, prims) = "down")
  BY <1>1, <1>3, ToldParts DEF Kept, Closed, Established
<1>6. Told(vn, prims) = "up" /\ x.state \notin Established =>
        m.state \notin Established /\ Lacks(a \o out, {"UA"})
  BY <1>1, <1>4, <1>5, LacksParts DEF Handed
<1> QED
  BY <1>1, <1>3, <1>4, <1>5, <1>6, BtsKeeps

LEMMA BtsGetsDropped ==
  ASSUME NEW m \in Datalinks, NEW n \in Datalinks, NEW s \in Seq(Frames), NEW a \in Seq(Frames), s # <<>>,
         Alone(m, n, s, a), Linked(m, n, s, a, FALSE, FALSE),
         NEW vm, NEW vn, Handed(m, n, s, a, vm, vn, FALSE, FALSE),
         NEW x, NEW out, NEW prims, RxDropped(n, Head(s), x, out, prims)
  PROVE  BtsGoes(m, n, s, a, vm, vn, x, out, prims)
<1>1. n.state \notin Established /\ Kept(n, x) /\ prims \subseteq {"MDL_ERROR"}
      /\ (out = <<>> \/ One(out, "DM"))
  BY DEF RxDropped
<1>2. out \in Seq(Frames) /\ Lacks(out, {"I"})
  BY <1>1, NoInformation
<1>3. Lacks(out, {"UA"})
  BY <1>1, UAnswer, LacksParts
<1>4. x.state \notin Established /\ Told(vn, prims) = vn
  BY <1>1, ToldParts DEF Kept
<1>5. Told(vn, prims) = "up" /\ x.state \notin Established =>
        m.state \notin Established /\ Lacks(a \o out, {"UA"})
  BY <1>1, <1>2, <1>3, <1>4, LacksParts DEF Handed
<1> QED
  BY <1>1, <1>2, <1>4, <1>5, BtsKeeps

(* A SABM that the base station answers without joining the link again. *)
LEMMA BtsHoldsSabm ==
  ASSUME NEW m \in Datalinks, NEW n \in Datalinks, NEW s \in Seq(Frames), NEW a \in Seq(Frames), s # <<>>,
         Alone(m, n, s, a), Linked(m, n, s, a, FALSE, FALSE), m.state \notin Established, Lacks(a, {"UA"}),
         NEW vm, NEW vn, Handed(m, n, s, a, vm, vn, FALSE, FALSE),
         NEW x, NEW out, NEW prims, Kept(n, x),
         \/ n.state \in Established /\ (out = <<>> \/ One(out, "UA"))
         \/ n.state \notin Established /\ One(out, "DM")
  PROVE  BtsGoes(m, n, s, a, vm, vn, x, out, prims)
<1>1. out \in Seq(Frames) /\ Lacks(out, {"I"})
  BY NoInformation
<1>2. Lasts(m, a) = {}
  BY LastsParts
<1>3. x.state \notin Established => Lacks(a \o out, {"UA"})
  BY <1>1, UAnswer, LacksParts DEF Kept
<1> QED
  BY <1>1, <1>2, <1>3, BtsKeeps

LEMMA BtsGetsSabm ==
  ASSUME NEW m \in Datalinks, NEW n \in Datalinks, NEW s \in Seq(Frames), NEW a \in Seq(Frames), s # <<>>,
         Alone(m, n, s, a), Linked(m, n, s, a, FALSE, FALSE),
         NEW vm, NEW vn, Handed(m, n, s, a, vm, vn, FALSE, FALSE),
         NEW x, NEW out, NEW prims, Head(s).k = "SABM", RxSabm(n, Head(s), x, out, prims),
         Linked(m, x, Tail(s), a \o out, FALSE, "MDL_ERROR" \in prims)
  PROVE  BtsGoes(m, n, s, a, vm, vn, x, out, prims)
<1>1. /\ Head(s) \in Within(s) /\ Tail(s) \in Seq(Frames) /\ Within(Tail(s)) \subseteq Within(s)
      /\ AtMostOne(s, IFrames) /\ AtMostOne(Tail(s), IFrames) /\ AtMostOne(a, IFrames)
      /\ n.state # "SABM_SENT"
  BY TailParts DEF Linked, Side, Alone
<1>2. m.state \notin Established
  BY <1>1 DEF Linked, Control, MsOpen, Numbered
<1>3. Lacks(a, {"UA"})
  <2>1. m.state # "SABM_SENT" => Lacks(a, {"UA"})
    BY DEF Linked, Control, UaFirst
  <2>2. m.state = "SABM_SENT" => Lacks(a, {"UA"})
    BY DEF Alone
  <2> QED
    BY <2>1, <2>2
<1>4. Lasts(m, a) = {}
  BY <1>2, <1>3, LastsParts
<1>5. CASE Kept(n, x) /\ n.state # "IDLE"
  BY <1>1, <1>2, <1>3, <1>5, BtsHoldsSabm DEF RxSabm, Established
<1>6. ASSUME Joined(n, x), One(out, "UA"), n.state \in {"IDLE", "MF_EST"}, Told(vn, prims) = "up",
             n.state = "MF_EST" => "MDL_ERROR" \in prims
      PROVE  BtsGoes(m, n, s, a, vm, vn, x, out, prims)
  <2> DEFINE t == Tail(s)
             c == "MDL_ERROR" \in prims
             v == Told(vn, prims)
             b == a \o out
  <2>1. m.state = "SABM_SENT"
    BY <1>1, <1>6 DEF Linked, Control, SabmLate, Lacks
  <2>2. t = <<>> /\ (n.state = "IDLE" => Flushed(n))
    BY <2>1, OneParts DEF Alone, Linked, Control, Waits
  <2>3. x.state \in Established /\ x.state # "SABM_SENT"
    BY <1>6 DEF Joined, Established
  <2>4. out \in Seq(Frames) /\ Lacks(out, {"I"})
    BY <1>6, NoInformation
  <2>5. b \in Seq(Frames) /\ Lasts(m, b) = {}
    BY <1>4, <2>4, JoinParts, LastsAdded
  <2>6. n.state \in Established => Direction(n, m, a, s)
    BY DEF Linked, Side
  <2>7. c => n.state \notin Established \/ FALSE \/ Continues(m, a)
    BY <2>6, DirectionContinues
  <2> HIDE DEF c, v, t
  <2>8. Handed(m, x, t, b, vm, v, FALSE, c)
    <3>1. t \in Seq(Frames) /\ Within(t) \subseteq Within(s)
      BY <1>1 DEF t
    <3> QED
      BY <2>2, <2>3, <2>4, <2>5, <2>7, <3>1, BtsHands
  <2>9. Changed(Wait(m, n, s), Wait(m, x, t), vm = "up")
    <3>1. t \in Seq(Frames) /\ AtMostOne(t, IFrames)
      BY <1>1 DEF t
    <3> HIDE DEF b
    <3> QED
      BY <1>1, <1>2, <2>3, <2>5, <2>8, <3>1, BtsHears
  <2>10. CASE n.state = "IDLE"
    <3>1. Wait(n, m, a) = <<>>
      BY <1>1, <1>4, <2>10, WaitLast DEF Established
    <3>2. Own(x, m) = <<>>
      BY <1>6, <2>2, <2>10 DEF Joined, Flushed, Own
    <3>3. Wait(x, m, b) = <<>>
      BY <2>3, <3>2 DEF Wait, Wholes
    <3>4. Changed(Wait(n, m, a), Wait(x, m, b), v = "up" /\ ~c)
      BY <3>1, <3>3 DEF Changed
    <3> QED
      BY <2>8, <2>9, <3>4 DEF BtsGoes, BtsTurns, b, c, t, v
  <2>11. CASE n.state = "MF_EST"
    <3>1. c /\ n.state \in Established
      BY <1>6, <2>11 DEF c, Established
    <3>2. /\ Has(n, m) => Has(x, m)
          /\ x.buf = n.buf /\ x.queue = n.queue
      <4>1. x.vs \in Numbers
        BY <1>6, LapdAssumption DEF Joined, Numbers
      <4>2. H(Dec(x.vs)) \in 1..2
        BY <4>1, NumbersWrap
      <4>3. x.hist[H(Dec(x.vs))] = None /\ x.out = n.out /\ x.buf = n.buf /\ x.queue = n.queue
        BY <1>6, <4>2 DEF Joined
      <4> QED
        BY <4>3 DEF Has
    <3> DEFINE w == Own(n, m)
               u == Own(x, m)
    <3>3. w \in Seq(Msgs) /\ (u = w \/ (w # <<>> /\ u = Tail(w)))
      <4>1. n.buf = "none" \/ Has(n, m) => u = w
        BY <3>2 DEF Own
      <4>2. n.buf # "none" /\ ~Has(n, m) /\ ~Has(x, m) => u = w
        BY <3>2 DEF Own
      <4>3. ASSUME n.buf # "none", ~Has(n, m), Has(x, m) PROVE w # <<>> /\ u = Tail(w)
        <5>1. w # <<>> /\ Tail(w) = n.queue
          BY <4>3, OwnParts
        <5>2. u = <<>> \o n.queue /\ n.queue \in Seq(Msgs)
          BY <3>2, <4>3 DEF Own, Datalinks
        <5>3. <<>> \o n.queue = n.queue
          BY <5>2
        <5> QED
          BY <5>1, <5>2, <5>3
      <4> QED
        BY <4>1, <4>2, <4>3, OwnParts
    <3>4. Wait(n, m, a) = Wholes(w) /\ Wait(x, m, b) = Wholes(u)
      BY <2>3, <3>1 DEF Wait
    <3> HIDE DEF w, u
    <3>5. Wholes(w) \in Seq({Whole(k) : k \in Msgs})
      BY <3>3, WholesParts
    <3>6. w # <<>> => Wholes(w) # <<>> /\ Tail(Wholes(w)) = Wholes(Tail(w))
      BY <3>3, WholesParts
    <3>7. w # <<>> => Tail(Wholes(w)) \in Pieces(Wholes(w))
      BY <3>5, <3>6, PiecesParts
    <3>8. Changed(Wait(n, m, a), Wait(x, m, b), v = "up" /\ ~c)
      BY <3>1, <3>3, <3>4, <3>6, <3>7 DEF Changed
    <3> QED
      BY <2>8, <2>9, <3>8 DEF BtsGoes, BtsTurns, b, c, t, v
  <2> QED
    BY <1>6, <2>10, <2>11
<1>7. CASE Joined(n, x)
  <2>1. CASE n.state = "IDLE" /\ One(out, "UA") /\ prims = {"EST_IND"}
    BY <1>6, <1>7, <2>1 DEF Told
  <2>2. CASE n.state = "MF_EST" /\ One(out, "UA") /\ prims = {"EST_IND", "MDL_ERROR"}
    BY <1>6, <1>7, <2>2 DEF Told
  <2>3. CASE Kept(n, x) /\ n.state # "IDLE"
    BY <1>5, <2>3
  <2> QED
    BY <2>1, <2>2, <2>3 DEF RxSabm
<1>8. (Kept(n, x) /\ n.state # "IDLE") \/ Joined(n, x)
  BY DEF RxSabm
<1> QED
  BY <1>5, <1>7, <1>8

-----------------------------------------------------------------------------
(* What comes of any frame. *)

MsHeard(m, n, s, a, vm, vn, x, out, prims) ==
  \/ MsTakesUp(m, n, s, a, vm, vn, x, out, prims)
  \/ MsGoes(m, n, s, a, vm, vn, x, out, prims) /\ ~Completes(m, Head(a))
BtsHeard(m, n, s, a, vm, vn, x, out, prims) ==
  \/ BtsTakesUp(m, n, s, a, vm, vn, x, out, prims)
  \/ BtsGoes(m, n, s, a, vm, vn, x, out, prims) /\ ~Completes(n, Head(s))

LEMMA NotCompleted ==
  ASSUME NEW d, NEW f, NEW x, NEW out, NEW prims,
         Rx(d, f, x, out, prims), ~(Numbered(f) /\ RxTaken(d, f, x, out, prims))
  PROVE  ~Completes(d, f)
BY DEF Rx, Numbered, RxDropped, Completes

LEMMA MsReceives ==
  ASSUME NEW m \in Datalinks, NEW n \in Datalinks, NEW s \in Seq(Frames), NEW a \in Seq(Frames), a # <<>>,
         Alone(m, n, s, a), Linked(m, n, s, a, FALSE, FALSE),
         NEW vm, NEW vn, Handed(m, n, s, a, vm, vn, FALSE, FALSE),
         NEW x \in Datalinks, NEW out, NEW prims, Rx(m, Head(a), x, out, prims),
         Linked(x, n, s \o out, Tail(a), "MDL_ERROR" \in prims, FALSE)
  PROVE  MsHeard(m, n, s, a, vm, vn, x, out, prims)
<1>1. Head(a).k # "SABM"
  BY TailParts DEF Alone, Lacks
<1>2. CASE Numbered(Head(a)) /\ RxTaken(m, Head(a), x, out, prims)
  <2>1. MsTakesUp(m, n, s, a, vm, vn, x, out, prims)
    BY <1>2, MsGetsTaken
  <2> QED
    BY <2>1 DEF MsHeard
<1>3. CASE ~(Numbered(Head(a)) /\ RxTaken(m, Head(a), x, out, prims))
  <2>1. MsGoes(m, n, s, a, vm, vn, x, out, prims)
    BY <1>1, <1>3, MsGetsDmDisc, MsGetsUa, MsGetsDropped DEF Rx
  <2>2. ~Completes(m, Head(a))
    BY <1>3, NotCompleted
  <2> QED
    BY <2>1, <2>2 DEF MsHeard
<1> QED
  BY <1>2, <1>3

LEMMA BtsReceives ==
  ASSUME NEW m \in Datalinks, NEW n \in Datalinks, NEW s \in Seq(Frames), NEW a \in Seq(Frames), s # <<>>,
         Alone(m, n, s, a), Linked(m, n, s, a, FALSE, FALSE),
         NEW vm, NEW vn, Handed(m, n, s, a, vm, vn, FALSE, FALSE),
         NEW x \in Datalinks, NEW out, NEW prims, Rx(n, Head(s), x, out, prims),
         Linked(m, x, Tail(s), a \o out, FALSE, "MDL_ERROR" \in prims)
  PROVE  BtsHeard(m, n, s, a, vm, vn, x, out, prims)
<1>1. Head(s).k # "DISC"
  BY TailParts DEF Linked, Control, MsAnswers, Lacks
<1>2. CASE Numbered(Head(s)) /\ RxTaken(n, Head(s), x, out, prims)
  <2>1. BtsTakesUp(m, n, s, a, vm, vn, x, out, prims)
    BY <1>2, BtsGetsTaken
  <2> QED
    BY <2>1 DEF BtsHeard
<1>3. CASE ~(Numbered(Head(s)) /\ RxTaken(n, Head(s), x, out, prims))
  <2>1. BtsGoes(m, n, s, a, vm, vn, x, out, prims)
    BY <1>1, <1>3, BtsGetsSabm, BtsGetsDm, BtsGetsUa, BtsGetsDropped DEF Rx
  <2>2. ~Completes(n, Head(s))
    BY <1>3, NotCompleted
  <2> QED
    BY <2>1, <2>2 DEF BtsHeard
<1> QED
  BY <1>2, <1>3

-----------------------------------------------------------------------------
(* An entity does something of its own accord. *)

MsTurns(m, n, s, a, vm, vn, x, t, b, vx, cm, bn) ==
  /\ Handed(x, n, t, b, vx, vn, cm, bn)
  /\ Changed(Wait(m, n, s), Wait(x, n, t), vx = "up" /\ ~cm)
  /\ Changed(Wait(n, m, a), Wait(n, x, b), vn = "up")

(* The mobile opens the link, or gives it up. *)
LEMMA MsOff ==
  ASSUME NEW m \in Datalinks, NEW n \in Datalinks, n.state # "SABM_SENT",
         NEW s \in Seq(Frames), NEW a \in Seq(Frames), AtMostOne(s, IFrames), AtMostOne(a, IFrames),
         NEW vm, NEW vn, NEW bm, NEW bn, Handed(m, n, s, a, vm, vn, bm, bn),
         m.state \notin Established \/ bm \/ s = <<>>,
         NEW x, x.state \notin Established, x.vr = m.vr, a = <<>> \/ (x.rcv = m.rcv /\ x.state = "IDLE"),
         bn => x.state = "IDLE",
         NEW out \in Seq(Frames), Lacks(out, {"I"}), NEW vx, vx # "up", NEW cm
  PROVE  MsTurns(m, n, s, a, vm, vn, x, s \o out, a, vx, cm, bn)
<1> DEFINE t == s \o out
<1>1. Continues(m, a) => Continues(x, a)
  <2>1. CASE a = <<>>
    BY <2>1, NoFrame DEF Continues
  <2>2. CASE x.rcv = m.rcv
    BY <2>2 DEF Continues, Ready
  <2> QED
    BY <2>1, <2>2
<1>2. Handed(x, n, t, a, vx, vn, cm, bn)
  BY <1>1, MsHands
<1>3. t \in Seq(Frames) /\ AtMostOne(t, IFrames)
  <2>1. \A g \in Within(out) : g \notin IFrames
    BY FrameKinds, WithinParts DEF Lacks, IFrames
  <2>2. Within(out) \cap IFrames = {}
    BY <2>1
  <2> QED
    BY <2>2, JoinParts
<1>4. Lasts(x, a) \subseteq Lasts(m, a)
  <2>1. CASE a = <<>>
    BY <2>1, LastsParts, NoFrame
  <2>2. CASE x.state = "IDLE"
    BY <2>2, LastsParts DEF Established
  <2> QED
    BY <2>1, <2>2
<1> HIDE DEF t
<1>5. Changed(Wait(m, n, s), Wait(x, n, t), vx = "up" /\ ~cm)
  BY <1>2, <1>3, MsLeaves
<1>6. Changed(Wait(n, m, a), Wait(n, x, a), vn = "up")
  BY <1>4, MsHears
<1> QED
  BY <1>2, <1>5, <1>6 DEF MsTurns, t

(* The base station's layer 3 answers an error with a local release. *)
BtsQuits(m, n, s, a, vm, bm, x, vx) ==
  /\ Handed(m, x, s, a \o <<>>, vm, vx, bm, FALSE)
  /\ Changed(Wait(n, m, a), Wait(x, m, a), vx = "up")
  /\ Changed(Wait(m, n, s), Wait(m, x, s), vm = "up")

LEMMA BtsOff ==
  ASSUME NEW m \in Datalinks, NEW n \in Datalinks, n.state # "SABM_SENT",
         NEW s \in Seq(Frames), NEW a \in Seq(Frames), AtMostOne(s, IFrames), AtMostOne(a, IFrames),
         NEW vm, NEW vn, NEW bm, Handed(m, n, s, a, vm, vn, bm, TRUE),
         NEW x, x.state = "IDLE", SameReceiver(n, x), NEW vx, vx # "up"
  PROVE  BtsQuits(m, n, s, a, vm, bm, x, vx)
<1>1. <<>> \in Seq(Frames) /\ Lacks(<<>>, {"I"}) /\ x.state \notin Established /\ x.state # "SABM_SENT"
      /\ a \o <<>> = a
  BY NoFrame DEF Lacks, Established
<1>2. Handed(m, x, s, a \o <<>>, vm, vx, bm, FALSE)
  BY <1>1, BtsHands
<1>3. Changed(Wait(m, n, s), Wait(m, x, s), vm = "up")
  <2>1. x.vr = n.vr
    BY DEF SameReceiver
  <2> QED
    BY <1>1, <1>2, <2>1, BtsHears
<1>4. Changed(Wait(n, m, a), Wait(x, m, a), vx = "up")
  <2>1. CASE n.state \in Established
    <3>1. Lasts(m, a) = {}
      BY <2>1 DEF Handed
    <3>2. Wait(x, m, a) = <<>>
      BY <1>1, <3>1, WaitLast
    <3>3. Wait(n, m, a) \in Seq({Whole(k) : k \in Msgs})
      BY <2>1, WaitType
    <3>4. <<>> \in Pieces(Wait(n, m, a))
      BY <3>3, PiecesParts
    <3> QED
      BY <3>2, <3>4 DEF Changed
  <2>2. CASE n.state \notin Established
    <3>1. Wait(x, m, a) = Wait(n, m, a)
      BY <1>1, <2>2, FewerLasts
    <3> QED
      BY <3>1 DEF Changed
  <2> QED
    BY <2>1, <2>2
<1> QED
  BY <1>2, <1>3, <1>4 DEF BtsQuits

(* An established entity goes on. *)
MsCarried(m, n, s, a, vm, vn, x, out, cm) ==
  /\ Handed(x, n, s \o out, a, vm, vn, cm, FALSE)
  /\ Wait(n, x, a) = Wait(n, m, a)
BtsCarried(m, n, s, a, vm, vn, x, out, cn) ==
  /\ Handed(m, x, s, a \o out, vm, vn, FALSE, cn)
  /\ Wait(m, x, s) = Wait(m, n, s)

LEMMA MsCarries ==
  ASSUME NEW m \in Datalinks, NEW n \in Datalinks, NEW s \in Seq(Frames), NEW a \in Seq(Frames),
         AtMostOne(a, IFrames), m.state \in Established,
         NEW vm, NEW vn, Handed(m, n, s, a, vm, vn, FALSE, FALSE),
         NEW x, x.state \in Established, SameReceiver(m, x), NEW out \in Seq(Frames),
         NEW cm, cm => s = <<>> /\ out = <<>>
  PROVE  MsCarried(m, n, s, a, vm, vn, x, out, cm)
<1>1. Continues(m, a) => Continues(x, a)
  BY DEF Continues, Ready, SameReceiver
<1>2. cm => Lacks(out, {"I"})
  BY LacksParts
<1>3. Handed(x, n, s \o out, a, vm, vn, cm, FALSE)
  BY <1>1, <1>2, MsHands
<1>4. CASE n.state \in Established
  <2>1. Wait(n, x, a) = Wait(n, m, a)
    BY <1>4 DEF Wait, Own, Has, SameReceiver
  <2> QED
    BY <1>3, <2>1 DEF MsCarried
<1>6. Lasts(x, a) \subseteq Lasts(x, a)
  OBVIOUS
<1>5. CASE n.state \notin Established
  <2>1. /\ Lasts(x, a) = {f \in Within(a) : f.k = "I" /\ ~More(f.seg) /\ f.ns = x.vr}
        /\ Lasts(m, a) = {f \in Within(a) : f.k = "I" /\ ~More(f.seg) /\ f.ns = m.vr}
    BY LastsParts
  <2>3. Lasts(x, a) = Lasts(m, a)
    BY <2>1 DEF SameReceiver
  <2>2. Wait(n, x, a) = Wait(n, m, a)
    BY <1>5, <1>6, <2>3, FewerLasts
  <2> QED
    BY <1>3, <2>2 DEF MsCarried
<1> QED
  BY <1>4, <1>5

LEMMA BtsCarries ==
  ASSUME NEW m \in Datalinks, NEW n \in Datalinks, NEW s \in Seq(Frames), NEW a \in Seq(Frames),
         AtMostOne(s, IFrames), n.state \in Established,
         NEW vm, NEW vn, Handed(m, n, s, a, vm, vn, FALSE, FALSE),
         NEW x, x.state \in Established, SameReceiver(n, x), NEW out \in Seq(Frames),
         NEW cn, cn => a = <<>> /\ out = <<>>
  PROVE  BtsCarried(m, n, s, a, vm, vn, x, out, cn)
<1>1. n.state # "SABM_SENT" /\ x.state # "SABM_SENT"
  BY DEF Established
<1>2. cn => Lacks(out, {"I"}) /\ Continues(m, a) /\ Lasts(m, a \o out) = {}
  <2>1. <<>> \in Seq(Frames) /\ <<>> \o <<>> = <<>> /\ Lacks(<<>>, {"I"}) /\ Continues(m, <<>>)
    BY NoFrame DEF Lacks, Continues
  <2>2. Lasts(m, <<>>) \subseteq {f \in Within(<<>>) : f.k = "I" /\ ~More(f.seg)}
    BY <2>1, LastsParts
  <2>3. Lasts(m, <<>>) = {}
    BY <2>2, NoFrame
  <2> QED
    BY <2>1, <2>3
<1>3. Handed(m, x, s, a \o out, vm, vn, FALSE, cn)
  BY <1>2, BtsHands
<1>4. CASE m.state \in Established
  <2>1. Wait(m, x, s) = Wait(m, n, s)
    BY <1>4 DEF Wait, Own, Has, SameReceiver
  <2> QED
    BY <1>3, <2>1 DEF BtsCarried
<1>5. CASE m.state \notin Established
  <2>1. a \o out \in Seq(Frames)
    OBVIOUS
  <2>2. Wait(m, n, s) = <<>>
    BY <1>1, <1>5, MsWait
  <2>3. Wait(m, x, s) = <<>>
    BY <1>1, <1>3, <1>5, <2>1, MsWait
  <2> QED
    BY <1>3, <2>2, <2>3 DEF BtsCarried
<1> QED
  BY <1>4, <1>5

(* Where a position of p \o Append(w, k) lies, for Len(p) = m and Len(w) = n. *)
LEMMA InFirst ==
  ASSUME NEW m \in Nat, NEW n \in Nat, NEW i \in 1..m
  PROVE  i <= m /\ i \in 1..m + n /\ i \in 1..m + (n + 1)
OBVIOUS

(* The same for the second part. *)
LEMMA InSecond ==
  ASSUME NEW m \in Nat, NEW n \in Nat, NEW i \in 1..m + n + 1,
         i \notin 1..m, i # m + n + 1
  PROVE  ~(i <= m) /\ i - m \in 1..n /\ i \in 1..m + n /\ i \in 1..m + (n + 1)
OBVIOUS

(* The same for the last position. *)
LEMMA PastBoth ==
  ASSUME NEW m \in Nat, NEW n \in Nat, NEW i, i = m + n + 1
  PROVE  ~(i <= m) /\ i - m = n + 1 /\ i \in 1..m + (n + 1)
OBVIOUS

(* dl_data_req: the message is added to what waits. *)
LEMMA OwnQueued ==
  ASSUME NEW d \in Datalinks, NEW q, NEW k \in Msgs,
         NEW b, SameSender(d, b), b.queue = Append(d.queue, k)
  PROVE  Own(b, q) = Append(Own(d, q), k)
<1> DEFINE p == IF d.buf = "none" \/ Has(d, q) THEN <<>> ELSE <<d.buf>>
           w == d.queue
<1>1. d.queue \in Seq(Msgs) /\ d.buf \in Msgs \cup {"none"}
  BY DEF Datalinks
<1>2. w \in Seq(Msgs) /\ p \in Seq(Msgs)
  BY <1>1
<1>3. Has(b, q) <=> Has(d, q)
  BY DEF Has, SameSender
<1>4. Own(b, q) = p \o Append(w, k) /\ Own(d, q) = p \o w
  BY <1>3 DEF Own, SameSender
<1> HIDE DEF p, w
<1>5. p \o Append(w, k) = Append(p \o w, k)
  <2> DEFINE u == p \o Append(w, k)
             v == Append(p \o w, k)
  <2>1. /\ Append(w, k) \in Seq(Msgs) /\ Len(Append(w, k)) = Len(w) + 1 /\ Len(w) \in Nat /\ Len(p) \in Nat
        /\ Append(w, k)[Len(w) + 1] = k /\ \A i \in 1..Len(w) : Append(w, k)[i] = w[i]
    BY <1>2
  <2>2. /\ p \o w \in Seq(Msgs) /\ Len(p \o w) = Len(p) + Len(w)
        /\ \A i \in 1..Len(p) + Len(w) : (p \o w)[i] = IF i <= Len(p) THEN p[i] ELSE w[i - Len(p)]
    BY <1>2
  <2>3. /\ v \in Seq(Msgs) /\ Len(v) = Len(p) + Len(w) + 1 /\ v[Len(p) + Len(w) + 1] = k
        /\ \A i \in 1..Len(p) + Len(w) : v[i] = (p \o w)[i]
    BY <2>2
  <2> DEFINE c == Append(w, k)
  <2>4. c \in Seq(Msgs)
    BY <2>1
  <2> HIDE DEF c, v
  <2>5. /\ p \o c \in Seq(Msgs) /\ Len(p \o c) = Len(p) + Len(c)
        /\ \A i \in 1..Len(p) + Len(c) : (p \o c)[i] = IF i <= Len(p) THEN p[i] ELSE c[i - Len(p)]
    BY <1>2, <2>4
  <2>6. Len(c) = Len(w) + 1 /\ c[Len(w) + 1] = k /\ \A i \in 1..Len(w) : c[i] = w[i]
    BY <2>1 DEF c
  <2>7. u \in Seq(Msgs) /\ Len(u) = Len(v)
    BY <2>1, <2>3, <2>5, <2>6 DEF c
  <2> HIDE DEF u
  <2>8. ASSUME NEW i \in 1..Len(u) PROVE u[i] = v[i]
    <3>1. Len(p) \in Nat /\ Len(w) \in Nat /\ i \in 1..Len(p) + Len(w) + 1
      BY <2>1, <2>3, <2>7
    <3>2. CASE i = Len(p) + Len(w) + 1
      <4>1. ~(i <= Len(p)) /\ i - Len(p) = Len(w) + 1 /\ i \in 1..Len(p) + (Len(w) + 1)
        BY <3>1, <3>2, PastBoth
      <4>2. u[i] = c[i - Len(p)]
        BY <2>5, <2>6, <4>1 DEF u, c
      <4> QED
        BY <2>3, <2>6, <3>2, <4>1, <4>2
    <3>3. CASE i \in 1..Len(p)
      <4>1. i <= Len(p) /\ i \in 1..Len(p) + Len(w) /\ i \in 1..Len(p) + (Len(w) + 1)
        BY <3>1, <3>3, InFirst
      <4>2. u[i] = p[i]
        BY <2>5, <2>6, <4>1 DEF u, c
      <4> QED
        BY <2>2, <2>3, <4>1, <4>2
    <3>4. CASE i \notin 1..Len(p) /\ i # Len(p) + Len(w) + 1
      <4>1. /\ ~(i <= Len(p)) /\ i - Len(p) \in 1..Len(w)
            /\ i \in 1..Len(p) + Len(w) /\ i \in 1..Len(p) + (Len(w) + 1)
        BY <3>1, <3>4, InSecond
      <4>2. u[i] = c[i - Len(p)]
        BY <2>5, <2>6, <4>1 DEF u, c
      <4> QED
        BY <2>2, <2>3, <2>6, <4>1, <4>2
    <3> QED
      BY <3>2, <3>3, <3>4
  <2>9. u = v
    BY <2>3, <2>7, <2>8, SeqEqual
  <2> QED
    BY <2>9 DEF u, v, c
<1> QED
  BY <1>4, <1>5

Queued(d, q, s, x, out, t, k) ==
  /\ Wait(x, q, t) = Append(Wait(d, q, s), Whole(k))
  /\ x.state \in Established /\ SameReceiver(d, x) /\ out \in Seq(Frames)

LEMMA WaitQueued ==
  ASSUME NEW d \in Datalinks, NEW q \in Datalinks, NEW s \in Seq(Frames), NEW a \in Seq(Frames),
         d.state \in Established, Side(d, q, s, a, FALSE), Side(q, d, a, s, FALSE),
         NEW k \in Msgs, NEW b \in Datalinks, SameSender(d, b), SameReceiver(d, b),
         b.queue = Append(d.queue, k), NEW t
  PROVE  Queued(d, q, s, SendI(b).d, SendI(b).out, t, k)
<1> DEFINE x == SendI(b).d
           w == Own(d, q)
<1>1. /\ Side(x, q, s \o SendI(b).out, a, FALSE) /\ x.state = d.state /\ SameReceiver(d, x)
      /\ SendI(b).out \in Seq(Frames)
  BY DataSent
<1>2. Direction(b, q, s, a) /\ b.state \in Established
  <2>1. Direction(d, q, s, a) /\ SameReceiver(q, q)
    BY DEF Side, SameReceiver
  <2> QED
    BY <2>1, DirectionFields DEF SameSender
<1>3. Direction(SendI(b).d, q, s \o SendI(b).out, a)
  BY <1>1 DEF Side
<1>4. Own(SendI(b).d, q) = Own(b, q)
  BY <1>2, <1>3, OwnSends
<1>5. Own(b, q) = Append(w, k)
  BY OwnQueued
<1>6. w \in Seq(Msgs) /\ Wait(d, q, s) = Wholes(w)
  BY OwnParts DEF Wait
<1>7. Wait(x, q, t) = Wholes(Append(w, k))
  BY <1>1, <1>4, <1>5 DEF Wait
<1> HIDE DEF w, x
<1>8. Wholes(Append(w, k)) = Append(Wholes(w), Whole(k))
  BY <1>6, WholesParts
<1> QED
  BY <1>1, <1>6, <1>7, <1>8 DEF x, Queued

-----------------------------------------------------------------------------
(* Steps of LinkService. *)

LEMMA ChangedWeaker ==
  ASSUME NEW w, NEW v, NEW p, Changed(w, v, p), NEW q, q => p
  PROVE  Changed(w, v, q)
  BY DEF Changed

LEMMA ServiceReports ==
  ASSUME NEW e \in Entities, view'[Peer(e)] = view[Peer(e)], failed'[Peer(e)] = failed[Peer(e)], got' = got,
         \A x \in Entities : Changed(Waiting(x), Waiting(x)', view'[x] = "up" /\ ~failed'[x])
  PROVE  Service!Next
<1>1. \A x \in Service!Others(e) : x = Peer(e)
  BY DEF Service!Others, Entities, Peer
<1>2. \A x \in Service!Others(e) : view'[x] = view[x] /\ failed'[x] = failed[x]
  BY <1>1
<1> DEFINE w == [x \in Entities |-> Waiting(x)]
<1>3. ASSUME NEW x \in Entities
      PROVE  w'[x] = w[x] \/ (w'[x] \in Service!Pieces(w[x]) /\ ~(view'[x] = "up" /\ ~failed'[x]))
  <2>1. w[x] = Waiting(x)
    OBVIOUS
  <2>2. w'[x] = Waiting(x)'
    OBVIOUS
  <2>3. Changed(Waiting(x), Waiting(x)', view'[x] = "up" /\ ~failed'[x])
    OBVIOUS
  <2> HIDE DEF w
  <2>4. Service!Pieces(w[x]) = Pieces(Waiting(x))
    BY <2>1 DEF Service!Pieces, Pieces
  <2> QED
    BY <2>1, <2>2, <2>3, <2>4 DEF Changed
<1>4. Service!Report(e)
  BY <1>2, <1>3 DEF Service!Report
<1> QED
  BY <1>4 DEF Service!Next

LEMMA ServiceDelivers ==
  ASSUME TypeInv, NEW e \in Entities, NEW k, Taken(Waiting(Peer(e)), Waiting(Peer(e))', k),
         Waiting(e)' = Waiting(e), got' = [got EXCEPT ![e] = Append(@, k)],
         view' = view, failed' = failed
  PROVE  Service!Next
<1> DEFINE w == [x \in Entities |-> Waiting(x)]
           p == Peer(e)
<1>1. p \in Entities /\ p # e /\ Entities = {e, p} /\ e \in Service!Others(p)
  BY Peers DEF Service!Others
<1>2. w[p] = Waiting(p) /\ w[e] = Waiting(e)
  BY <1>1
<1>3. w'[p] = Waiting(p)' /\ w'[e] = Waiting(e)'
  BY <1>1
<1>4. w \in [Entities -> {w[x] : x \in Entities}]
  OBVIOUS
<1>5. w' = [x \in Entities |-> w'[x]]
  OBVIOUS
<1> HIDE DEF w
<1>6. w[p] # <<>> /\ Head(w[p]) = k /\ w'[p] = Tail(w[p]) /\ w'[e] = w[e]
  BY <1>2, <1>3 DEF Taken
<1>7. w' = [w EXCEPT ![p] = Tail(@)]
  BY <1>1, <1>4, <1>5, <1>6
<1>8. failed[e] \in BOOLEAN /\ failed' = [failed EXCEPT ![e] = failed[e]]
  BY DEF TypeInv
<1>9. Service!Deliver(p)
  BY <1>1, <1>6, <1>7, <1>8 DEF Service!Deliver, w
<1> QED
  BY <1>1, <1>9 DEF Service!Next

LEMMA ServiceAccepts ==
  ASSUME NEW e \in Entities, NEW k \in Msgs, Waiting(e)' = Append(Waiting(e), Whole(k)),
         Waiting(Peer(e))' = Waiting(Peer(e)), view[e] = "up", ~failed[e],
         got' = got, view' = view, failed' = failed
  PROVE  Service!Next
<1> DEFINE w == [x \in Entities |-> Waiting(x)]
           p == Peer(e)
<1>1. p \in Entities /\ p # e /\ Entities = {e, p}
  BY Peers
<1>2. w[p] = Waiting(p) /\ w[e] = Waiting(e)
  BY <1>1
<1>3. w'[p] = Waiting(p)' /\ w'[e] = Waiting(e)'
  BY <1>1
<1>4. w \in [Entities -> {w[x] : x \in Entities}]
  OBVIOUS
<1>5. w' = [x \in Entities |-> w'[x]]
  OBVIOUS
<1> HIDE DEF w
<1>6. w'[e] = Append(w[e], Whole(k)) /\ w'[p] = w[p]
  BY <1>2, <1>3
<1>7. w' = [w EXCEPT ![e] = Append(@, Whole(k))]
  BY <1>1, <1>4, <1>5, <1>6
<1>8. Service!Accept(e)
  BY <1>7 DEF Service!Accept, Service!Sound, w
<1> QED
  BY <1>8 DEF Service!Next

-----------------------------------------------------------------------------
(* The state of the link, and the steps of one entity. *)

HandedInv ==
  Handed(dl["ms"], dl["bts"], pipe["ms"], pipe["bts"], view["ms"], view["bts"],
         failed["ms"], failed["bts"])

(* The entity becomes x, and what is under way from it t and from its peer b. *)
Becomes(e, x, t, b, vx, cx) ==
  /\ dl'[e] = x /\ dl'[Peer(e)] = dl[Peer(e)]
  /\ pipe'[e] = t /\ pipe'[Peer(e)] = b
  /\ view'[e] = vx /\ view'[Peer(e)] = view[Peer(e)]
  /\ failed'[e] = cx /\ failed'[Peer(e)] = failed[Peer(e)]

LEMMA BothEnds ==
  /\ Waiting("ms") = Wait(dl["ms"], dl["bts"], pipe["ms"])
  /\ Waiting("bts") = Wait(dl["bts"], dl["ms"], pipe["bts"])
  /\ Waiting("ms")' = Wait(dl'["ms"], dl'["bts"], pipe'["ms"])
  /\ Waiting("bts")' = Wait(dl'["bts"], dl'["ms"], pipe'["bts"])
<1>1. "ms" \in Entities /\ "bts" \in Entities /\ Peer("ms") = "bts" /\ Peer("bts") = "ms"
  BY DEF Entities, Peer
<1> QED
  BY <1>1, WaitingIs, WaitingBecomes

LEMMA MsReported ==
  ASSUME NEW x, NEW t, NEW b, NEW vx, NEW cx, Becomes("ms", x, t, b, vx, cx), got' = got,
         MsTurns(dl["ms"], dl["bts"], pipe["ms"], pipe["bts"], view["ms"], view["bts"],
                 x, t, b, vx, cx, failed["bts"])
  PROVE  HandedInv' /\ Service!Next
<1>1. /\ dl'["ms"] = x /\ dl'["bts"] = dl["bts"] /\ pipe'["ms"] = t /\ pipe'["bts"] = b
      /\ view'["ms"] = vx /\ view'["bts"] = view["bts"]
      /\ failed'["ms"] = cx /\ failed'["bts"] = failed["bts"]
  BY DEF Becomes, Peer
<1>2. HandedInv'
  BY <1>1 DEF HandedInv, MsTurns
<1>3. Changed(Waiting("ms"), Waiting("ms")', view'["ms"] = "up" /\ ~failed'["ms"])
  BY <1>1, BothEnds DEF MsTurns
<1>4. Changed(Waiting("bts"), Waiting("bts")', view'["bts"] = "up" /\ ~failed'["bts"])
  <2>1. Changed(Waiting("bts"), Waiting("bts")', view["bts"] = "up")
    BY <1>1, BothEnds DEF MsTurns
  <2> QED
    BY <1>1, <2>1, ChangedWeaker
<1>5. "ms" \in Entities /\ Peer("ms") = "bts" /\ \A y \in Entities : y = "ms" \/ y = "bts"
  BY DEF Entities, Peer
<1>6. \A y \in Entities : Changed(Waiting(y), Waiting(y)', view'[y] = "up" /\ ~failed'[y])
  BY <1>3, <1>4, <1>5
<1>7. Service!Next
  BY <1>1, <1>5, <1>6, ServiceReports
<1> QED
  BY <1>2, <1>7

LEMMA BtsReported ==
  ASSUME NEW x, NEW t, NEW b, NEW vx, NEW cx, Becomes("bts", x, b, t, vx, cx), got' = got,
         Handed(dl["ms"], x, t, b, view["ms"], vx, failed["ms"], cx),
         Changed(Wait(dl["bts"], dl["ms"], pipe["bts"]), Wait(x, dl["ms"], b), vx = "up" /\ ~cx),
         Changed(Wait(dl["ms"], dl["bts"], pipe["ms"]), Wait(dl["ms"], x, t), view["ms"] = "up")
  PROVE  HandedInv' /\ Service!Next
<1>1. /\ dl'["bts"] = x /\ dl'["ms"] = dl["ms"] /\ pipe'["bts"] = b /\ pipe'["ms"] = t
      /\ view'["bts"] = vx /\ view'["ms"] = view["ms"]
      /\ failed'["bts"] = cx /\ failed'["ms"] = failed["ms"]
  BY DEF Becomes, Peer
<1>2. HandedInv'
  BY <1>1 DEF HandedInv
<1>3. Changed(Waiting("bts"), Waiting("bts")', view'["bts"] = "up" /\ ~failed'["bts"])
  BY <1>1, BothEnds
<1>4. Changed(Waiting("ms"), Waiting("ms")', view'["ms"] = "up" /\ ~failed'["ms"])
  <2>1. Changed(Waiting("ms"), Waiting("ms")', view["ms"] = "up")
    BY <1>1, BothEnds
  <2> QED
    BY <1>1, <2>1, ChangedWeaker
<1>5. "bts" \in Entities /\ Peer("bts") = "ms" /\ \A y \in Entities : y = "ms" \/ y = "bts"
  BY DEF Entities, Peer
<1>6. \A y \in Entities : Changed(Waiting(y), Waiting(y)', view'[y] = "up" /\ ~failed'[y])
  BY <1>3, <1>4, <1>5
<1>7. Service!Next
  BY <1>1, <1>5, <1>6, ServiceReports
<1> QED
  BY <1>2, <1>7

LEMMA ServesReceive ==
  ASSUME TypeInv, OpenInv, LinkInv, HandedInv, NEW e \in Entities, Receive(e)
  PROVE  HandedInv' /\ Service!Next
<1> DEFINE f == Head(pipe[Peer(e)])
           k == Append(dl[e].rcv, f.seg)
<1>1. /\ dl["ms"] \in Datalinks /\ dl["bts"] \in Datalinks
      /\ pipe["ms"] \in Seq(Frames) /\ pipe["bts"] \in Seq(Frames)
      /\ Alone(dl["ms"], dl["bts"], pipe["ms"], pipe["bts"])
  BY LinkEnds
<1>2. pipe[Peer(e)] # <<>> /\ Attended
  BY DEF Receive
<1>3. f.k = "REJ" => ~f.cmd
  <2>1. RejFinal(pipe["ms"]) /\ RejFinal(pipe["bts"])
    BY DEF LinkInv, Linked, Control
  <2>2. RejFinal(pipe[Peer(e)]) /\ pipe[Peer(e)] \in Seq(Frames)
    BY <1>1, <2>1 DEF Peer
  <2>3. f \in Within(pipe[Peer(e)])
    BY <1>2, <2>2, TailParts
  <2> QED
    BY <2>2, <2>3 DEF RejFinal, Finals
<1>4. /\ \E x, out, prims : Reply(e, x, out, prims) /\ Rx(dl[e], f, x, out, prims)
      /\ got' = IF Completes(dl[e], f) THEN [got EXCEPT ![e] = Append(@, k)] ELSE got
  BY <1>3, ReceiveCases
<1>5. PICK x, out, prims : Reply(e, x, out, prims) /\ Rx(dl[e], f, x, out, prims)
  BY <1>4
<1>6. /\ failed["ms"] = FALSE /\ failed["bts"] = FALSE
      /\ Linked(dl["ms"], dl["bts"], pipe["ms"], pipe["bts"], FALSE, FALSE)
  BY <1>2, LinkAttended
<1>7. Handed(dl["ms"], dl["bts"], pipe["ms"], pipe["bts"], view["ms"], view["bts"], FALSE, FALSE)
  BY <1>6 DEF HandedInv
<1> DEFINE c == "MDL_ERROR" \in prims
           v == Told(view[e], prims)
<1>8. Becomes(e, x, pipe[e] \o out, Tail(pipe[Peer(e)]), v, c)
  <2>1. Peer(e) \in Entities /\ Peer(e) # e
    BY Peers
  <2>2. dl'[e] = x /\ dl'[Peer(e)] = dl[Peer(e)]
    BY <1>5, <2>1 DEF Reply, TypeInv
  <2>3. pipe'[e] = pipe[e] \o out /\ pipe'[Peer(e)] = Tail(pipe[Peer(e)])
    BY <1>5, <2>1 DEF Reply, TypeInv
  <2>4. view'[e] = v /\ view'[Peer(e)] = view[Peer(e)]
    BY <1>5, <2>1 DEF Reply, Tell, Told, TypeInv
  <2>5. failed'[e] = (failed[e] \/ c) /\ failed'[Peer(e)] = failed[Peer(e)]
    BY <1>5, <2>1 DEF Reply, Tell, TypeInv
  <2>6. failed[e] = FALSE
    BY <1>6 DEF Entities
  <2> QED
    BY <2>2, <2>3, <2>4, <2>5, <2>6 DEF Becomes
<1>9. x \in Datalinks
  <2>1. TypeInv'
    BY TypeReceive
  <2>2. dl'[e] = x
    BY <1>8 DEF Becomes
  <2> QED
    BY <2>1, <2>2 DEF TypeInv
<1>10. LinkInv'
  BY LinkReceive
<1>11. prims = {} => /\ c = FALSE /\ v = view[e] /\ view' = view /\ failed' = failed
  <2> SUFFICES ASSUME prims = {} PROVE c = FALSE /\ v = view[e] /\ view' = view /\ failed' = failed
    OBVIOUS
  <2>1. c = FALSE /\ v = view[e]
    BY ToldParts
  <2>2. view' = [view EXCEPT ![e] = v]
    BY <1>5 DEF Reply, Tell, Told
  <2>3. failed' = [failed EXCEPT ![e] = @ \/ c]
    BY <1>5 DEF Reply, Tell
  <2> HIDE DEF v, c
  <2>4. view' = view
    BY <2>1, <2>2 DEF TypeInv
  <2>5. failed' = failed
    BY <2>1, <2>3 DEF TypeInv
  <2> QED
    BY <2>1, <2>4, <2>5
<1>12. CASE e = "ms"
  <2>1. Peer("ms") = "bts" /\ Peer(e) = "bts" /\ "ms" \in Entities
    BY <1>12 DEF Peer, Entities
  <2> DEFINE m == dl["ms"]
             n == dl["bts"]
             s == pipe["ms"]
             a == pipe["bts"]
  <2>2. Becomes("ms", x, s \o out, Tail(a), Told(view["ms"], prims), c)
    BY <1>8, <1>12, <2>1
  <2>3. /\ dl'["ms"] = x /\ dl'["bts"] = n /\ pipe'["ms"] = s \o out /\ pipe'["bts"] = Tail(a)
        /\ view'["ms"] = Told(view["ms"], prims) /\ view'["bts"] = view["bts"]
        /\ failed'["ms"] = c /\ failed'["bts"] = FALSE
    BY <1>6, <2>1, <2>2 DEF Becomes
  <2>4. Linked(x, n, s \o out, Tail(a), "MDL_ERROR" \in prims, FALSE)
    BY <1>10, <2>3 DEF LinkInv
  <2>5. Rx(m, Head(a), x, out, prims) /\ a # <<>>
    BY <1>2, <1>5, <1>12, <2>1
  <2>6. MsHeard(m, n, s, a, view["ms"], view["bts"], x, out, prims)
    BY <1>1, <1>6, <1>7, <1>9, <2>4, <2>5, MsReceives
  <2>7. ASSUME MsTakesUp(m, n, s, a, view["ms"], view["bts"], x, out, prims), Completes(m, Head(a))
        PROVE  HandedInv' /\ Service!Next
    <3>1. /\ prims = {}
          /\ Handed(x, n, s \o out, Tail(a), view["ms"], view["bts"], FALSE, FALSE)
          /\ Wait(x, n, s \o out) = Wait(m, n, s)
          /\ Taken(Wait(n, m, a), Wait(n, x, Tail(a)), Append(m.rcv, Head(a).seg))
      BY <2>7 DEF MsTakesUp, HandsOver
    <3>2. c = FALSE /\ view' = view /\ failed' = failed
      BY <1>11, <3>1
    <3>3. HandedInv'
      BY <2>3, <3>1, <3>2 DEF HandedInv
    <3>4. got' = [got EXCEPT !["ms"] = Append(@, Append(m.rcv, Head(a).seg))]
      BY <1>4, <1>12, <2>1, <2>7
    <3>5. Waiting("ms")' = Waiting("ms")
      BY <2>3, <3>1, BothEnds
    <3>6. Taken(Waiting("bts"), Waiting("bts")', Append(m.rcv, Head(a).seg))
      BY <2>3, <3>1, BothEnds
    <3>7. Service!Next
      BY <2>1, <3>2, <3>4, <3>5, <3>6, ServiceDelivers
    <3> QED
      BY <3>3, <3>7
  <2>8. ASSUME ~Completes(m, Head(a)),
               MsTurns(m, n, s, a, view["ms"], view["bts"], x, s \o out, Tail(a),
                       Told(view["ms"], prims), c, FALSE)
        PROVE  HandedInv' /\ Service!Next
    <3>1. got' = got
      BY <1>4, <1>12, <2>1, <2>8
    <3>2. MsTurns(m, n, s, a, view["ms"], view["bts"], x, s \o out, Tail(a),
                  Told(view["ms"], prims), c, failed["bts"])
      BY <1>6, <2>8
    <3> HIDE DEF c
    <3> QED
      BY <2>2, <3>1, <3>2, MsReported
  <2>9. ASSUME MsTakesUp(m, n, s, a, view["ms"], view["bts"], x, out, prims), ~Completes(m, Head(a))
        PROVE  MsTurns(m, n, s, a, view["ms"], view["bts"], x, s \o out, Tail(a),
                       Told(view["ms"], prims), c, FALSE)
    <3>1. /\ prims = {}
          /\ Handed(x, n, s \o out, Tail(a), view["ms"], view["bts"], FALSE, FALSE)
          /\ Wait(x, n, s \o out) = Wait(m, n, s)
          /\ Wait(n, x, Tail(a)) = Wait(n, m, a)
      BY <2>9 DEF MsTakesUp, HandsOver
    <3>2. c = FALSE /\ Told(view["ms"], prims) = view["ms"]
      BY <1>11, <1>12, <3>1
    <3> HIDE DEF c
    <3> QED
      BY <3>1, <3>2 DEF MsTurns, Changed
  <2>10. ASSUME MsGoes(m, n, s, a, view["ms"], view["bts"], x, out, prims)
         PROVE  MsTurns(m, n, s, a, view["ms"], view["bts"], x, s \o out, Tail(a),
                        Told(view["ms"], prims), c, FALSE)
    BY <2>10 DEF MsGoes, MsTurns
  <2>11. \/ MsTakesUp(m, n, s, a, view["ms"], view["bts"], x, out, prims)
         \/ MsGoes(m, n, s, a, view["ms"], view["bts"], x, out, prims) /\ ~Completes(m, Head(a))
    BY <2>6 DEF MsHeard
  <2> HIDE DEF m, n, s, a, c
  <2> QED
    BY <2>7, <2>8, <2>9, <2>10, <2>11
<1>13. CASE e = "bts"
  <2>1. Peer("bts") = "ms" /\ Peer(e) = "ms" /\ "bts" \in Entities
    BY <1>13 DEF Peer, Entities
  <2> DEFINE m == dl["ms"]
             n == dl["bts"]
             s == pipe["ms"]
             a == pipe["bts"]
  <2>2. Becomes("bts", x, a \o out, Tail(s), Told(view["bts"], prims), c)
    BY <1>8, <1>13, <2>1
  <2>3. /\ dl'["bts"] = x /\ dl'["ms"] = m /\ pipe'["bts"] = a \o out /\ pipe'["ms"] = Tail(s)
        /\ view'["bts"] = Told(view["bts"], prims) /\ view'["ms"] = view["ms"]
        /\ failed'["bts"] = c /\ failed'["ms"] = FALSE
    BY <1>6, <2>1, <2>2 DEF Becomes
  <2>4. Linked(m, x, Tail(s), a \o out, FALSE, "MDL_ERROR" \in prims)
    BY <1>10, <2>3 DEF LinkInv
  <2>5. Rx(n, Head(s), x, out, prims) /\ s # <<>>
    BY <1>2, <1>5, <1>13, <2>1
  <2>6. BtsHeard(m, n, s, a, view["ms"], view["bts"], x, out, prims)
    BY <1>1, <1>6, <1>7, <1>9, <2>4, <2>5, BtsReceives
  <2>7. ASSUME BtsTakesUp(m, n, s, a, view["ms"], view["bts"], x, out, prims), Completes(n, Head(s))
        PROVE  HandedInv' /\ Service!Next
    <3>1. /\ prims = {}
          /\ Handed(m, x, Tail(s), a \o out, view["ms"], view["bts"], FALSE, FALSE)
          /\ Wait(x, m, a \o out) = Wait(n, m, a)
          /\ Taken(Wait(m, n, s), Wait(m, x, Tail(s)), Append(n.rcv, Head(s).seg))
      BY <2>7 DEF BtsTakesUp, HandsOver
    <3>2. c = FALSE /\ view' = view /\ failed' = failed
      BY <1>11, <3>1
    <3>3. HandedInv'
      BY <2>3, <3>1, <3>2 DEF HandedInv
    <3>4. got' = [got EXCEPT !["bts"] = Append(@, Append(n.rcv, Head(s).seg))]
      BY <1>4, <1>13, <2>1, <2>7
    <3>5. Waiting("bts")' = Waiting("bts")
      BY <2>3, <3>1, BothEnds
    <3>6. Taken(Waiting("ms"), Waiting("ms")', Append(n.rcv, Head(s).seg))
      BY <2>3, <3>1, BothEnds
    <3>7. Service!Next
      BY <2>1, <3>2, <3>4, <3>5, <3>6, ServiceDelivers
    <3> QED
      BY <3>3, <3>7
  <2>8. ASSUME ~Completes(n, Head(s)),
               BtsTurns(m, n, s, a, view["ms"], view["bts"], x, Tail(s), a \o out,
                        Told(view["bts"], prims), c)
        PROVE  HandedInv' /\ Service!Next
    <3>1. got' = got
      BY <1>4, <1>13, <2>1, <2>8
    <3>2. /\ Handed(m, x, Tail(s), a \o out, view["ms"], Told(view["bts"], prims), failed["ms"], c)
          /\ Changed(Wait(n, m, a), Wait(x, m, a \o out), Told(view["bts"], prims) = "up" /\ ~c)
          /\ Changed(Wait(m, n, s), Wait(m, x, Tail(s)), view["ms"] = "up")
      BY <1>6, <2>8 DEF BtsTurns
    <3> HIDE DEF c
    <3> QED
      BY <2>2, <3>1, <3>2, BtsReported
  <2>9. ASSUME BtsTakesUp(m, n, s, a, view["ms"], view["bts"], x, out, prims), ~Completes(n, Head(s))
        PROVE  BtsTurns(m, n, s, a, view["ms"], view["bts"], x, Tail(s), a \o out,
                        Told(view["bts"], prims), c)
    <3>1. /\ prims = {}
          /\ Handed(m, x, Tail(s), a \o out, view["ms"], view["bts"], FALSE, FALSE)
          /\ Wait(x, m, a \o out) = Wait(n, m, a)
          /\ Wait(m, x, Tail(s)) = Wait(m, n, s)
      BY <2>9 DEF BtsTakesUp, HandsOver
    <3>2. c = FALSE /\ Told(view["bts"], prims) = view["bts"]
      BY <1>11, <1>13, <3>1
    <3> HIDE DEF c
    <3> QED
      BY <3>1, <3>2 DEF BtsTurns, Changed
  <2>10. ASSUME BtsGoes(m, n, s, a, view["ms"], view["bts"], x, out, prims)
         PROVE  BtsTurns(m, n, s, a, view["ms"], view["bts"], x, Tail(s), a \o out,
                         Told(view["bts"], prims), c)
    BY <2>10 DEF BtsGoes
  <2>11. \/ BtsTakesUp(m, n, s, a, view["ms"], view["bts"], x, out, prims)
         \/ BtsGoes(m, n, s, a, view["ms"], view["bts"], x, out, prims) /\ ~Completes(n, Head(s))
    BY <2>6 DEF BtsHeard
  <2> HIDE DEF m, n, s, a, c
  <2> QED
    BY <2>7, <2>8, <2>9, <2>10, <2>11
<1> QED
  BY <1>12, <1>13 DEF Entities

LEMMA SentBecomes ==
  ASSUME TypeInv, NEW e \in Entities, NEW d, NEW out, Send(e, d, out),
         NEW v, view' = [view EXCEPT ![e] = v], NEW c, failed' = [failed EXCEPT ![e] = c]
  PROVE  Becomes(e, d, pipe[e] \o out, pipe[Peer(e)], v, c)
<1>1. Peer(e) \in Entities /\ Peer(e) # e
  BY Peers
<1>2. view'[e] = v /\ view'[Peer(e)] = view[Peer(e)]
  BY <1>1 DEF TypeInv
<1>3. failed'[e] = c /\ failed'[Peer(e)] = failed[Peer(e)]
  BY <1>1 DEF TypeInv
<1> QED
  BY <1>2, <1>3, LinkSent DEF Becomes

LEMMA SentQuietly ==
  ASSUME TypeInv, NEW e \in Entities, NEW d, NEW out, Send(e, d, out), view' = view, failed' = failed
  PROVE  Becomes(e, d, pipe[e] \o out, pipe[Peer(e)], view[e], failed[e])
<1>1. view' = [view EXCEPT ![e] = view[e]] /\ failed' = [failed EXCEPT ![e] = failed[e]]
  BY DEF TypeInv
<1> QED
  BY <1>1, SentBecomes

(* What is known of the two ends when an entity does something. *)
LEMMA EndParts ==
  ASSUME TypeInv, OpenInv, LinkInv
  PROVE  /\ dl["ms"] \in Datalinks /\ dl["bts"] \in Datalinks
         /\ pipe["ms"] \in Seq(Frames) /\ pipe["bts"] \in Seq(Frames)
         /\ Alone(dl["ms"], dl["bts"], pipe["ms"], pipe["bts"])
         /\ dl["bts"].state # "SABM_SENT"
         /\ AtMostOne(pipe["ms"], IFrames) /\ AtMostOne(pipe["bts"], IFrames)
         /\ "ms" \in Entities /\ "bts" \in Entities /\ Peer("ms") = "bts" /\ Peer("bts") = "ms"
<1>1. AtMostOne(pipe["ms"], IFrames) /\ AtMostOne(pipe["bts"], IFrames)
  BY DEF LinkInv, Linked, Side
<1>2. /\ dl["bts"].state # "SABM_SENT"
      /\ "ms" \in Entities /\ "bts" \in Entities /\ Peer("ms") = "bts" /\ Peer("bts") = "ms"
  BY DEF OpenInv, Entities, Peer
<1> QED
  BY <1>1, <1>2, LinkEnds

LEMMA ServesDataReq ==
  ASSUME TypeInv, OpenInv, LinkInv, HandedInv, NEW e \in Entities, NEW k \in Msgs, DataReq(e, k)
  PROVE  HandedInv' /\ Service!Next
<1> DEFINE b == [dl[e] EXCEPT !.queue = Append(@, k)]
           m == dl["ms"]
           n == dl["bts"]
           s == pipe["ms"]
           a == pipe["bts"]
           x == SendI(b).d
           out == SendI(b).out
<1>1. dl[e] \in Datalinks /\ dl[e].state \in Established
  BY DEF TypeInv, DataReq, Established
<1>2. /\ b \in Datalinks /\ SameSender(dl[e], b) /\ SameReceiver(dl[e], b)
      /\ b.queue = Append(dl[e].queue, k)
  <2>1. Append(dl[e].queue, k) \in Seq(Msgs)
    BY <1>1 DEF Datalinks
  <2> QED
    BY <1>1, <2>1 DEF Datalinks, SameSender, SameReceiver
<1>3. Send(e, x, out) /\ view' = view /\ failed' = failed /\ got' = got /\ Attended /\ view[e] = "up"
  BY DEF DataReq
<1> HIDE DEF b
<1>4. /\ failed["ms"] = FALSE /\ failed["bts"] = FALSE
      /\ Linked(m, n, s, a, FALSE, FALSE)
  BY <1>3, LinkAttended
<1>5. Side(m, n, s, a, FALSE) /\ Side(n, m, a, s, FALSE)
  BY <1>4 DEF Linked
<1>6. Handed(m, n, s, a, view["ms"], view["bts"], FALSE, FALSE)
  BY <1>4 DEF HandedInv
<1>7. dl'[e] = x /\ dl'[Peer(e)] = dl[Peer(e)] /\ pipe'[e] = pipe[e] \o out /\ pipe'[Peer(e)] = pipe[Peer(e)]
  <2>1. Send(e, x, out)
    BY <1>3
  <2> HIDE DEF x, out, m, n, s, a
  <2> QED
    BY <2>1, LinkSent
<1>8. CASE e = "ms"
  <2>7. /\ m.state \in Established /\ SameSender(m, b) /\ SameReceiver(m, b)
        /\ b.queue = Append(m.queue, k)
    BY <1>1, <1>2, <1>8
  <2>8. Queued(m, n, s, x, out, s \o out, k)
    BY <1>2, <1>5, <2>7, EndParts, WaitQueued
  <2>1. /\ Wait(x, n, s \o out) = Append(Wait(m, n, s), Whole(k))
        /\ x.state \in Established /\ SameReceiver(m, x) /\ out \in Seq(Frames)
    BY <2>8 DEF Queued
  <2> HIDE DEF x, out
  <2>9. MsCarried(m, n, s, a, view["ms"], view["bts"], x, out, FALSE)
    BY <1>6, <2>1, <2>7, EndParts, MsCarries
  <2>2. Handed(x, n, s \o out, a, view["ms"], view["bts"], FALSE, FALSE) /\ Wait(n, x, a) = Wait(n, m, a)
    BY <2>9 DEF MsCarried
  <2>3. dl'["ms"] = x /\ dl'["bts"] = n /\ pipe'["ms"] = s \o out /\ pipe'["bts"] = a
    BY <1>7, <1>8, EndParts
  <2>4. HandedInv'
    BY <1>3, <1>4, <2>2, <2>3 DEF HandedInv
  <2>5. Waiting("ms")' = Append(Waiting("ms"), Whole(k)) /\ Waiting("bts")' = Waiting("bts")
    BY <2>1, <2>2, <2>3, BothEnds
  <2>6. Service!Next
    BY <1>3, <1>4, <1>8, <2>5, EndParts, ServiceAccepts
  <2> QED
    BY <2>4, <2>6
<1>9. CASE e = "bts"
  <2>7. /\ n.state \in Established /\ SameSender(n, b) /\ SameReceiver(n, b)
        /\ b.queue = Append(n.queue, k)
    BY <1>1, <1>2, <1>9
  <2>8. Queued(n, m, a, x, out, a \o out, k)
    BY <1>2, <1>5, <2>7, EndParts, WaitQueued
  <2>1. /\ Wait(x, m, a \o out) = Append(Wait(n, m, a), Whole(k))
        /\ x.state \in Established /\ SameReceiver(n, x) /\ out \in Seq(Frames)
    BY <2>8 DEF Queued
  <2> HIDE DEF x, out
  <2>9. BtsCarried(m, n, s, a, view["ms"], view["bts"], x, out, FALSE)
    BY <1>6, <2>1, <2>7, EndParts, BtsCarries
  <2>2. Handed(m, x, s, a \o out, view["ms"], view["bts"], FALSE, FALSE) /\ Wait(m, x, s) = Wait(m, n, s)
    BY <2>9 DEF BtsCarried
  <2>3. dl'["bts"] = x /\ dl'["ms"] = m /\ pipe'["bts"] = a \o out /\ pipe'["ms"] = s
    BY <1>7, <1>9, EndParts
  <2>4. HandedInv'
    BY <1>3, <1>4, <2>2, <2>3 DEF HandedInv
  <2>5. Waiting("bts")' = Append(Waiting("bts"), Whole(k)) /\ Waiting("ms")' = Waiting("ms")
    BY <2>1, <2>2, <2>3, BothEnds
  <2>6. Service!Next
    BY <1>3, <1>4, <1>9, <2>5, EndParts, ServiceAccepts
  <2> QED
    BY <2>4, <2>6
<1> QED
  BY <1>8, <1>9 DEF Entities

LEMMA ServesRelReq ==
  ASSUME TypeInv, OpenInv, LinkInv, HandedInv, OneLink, NEW e \in Entities, RelReq(e)
  PROVE  HandedInv' /\ Service!Next
<1> DEFINE x == FlushHist(dl[e])
           y == NewState(x, "DISC_SENT")
           d == [y EXCEPT !.vs = 0, !.ctr = 0, !.t200 = TRUE]
           out == <<U("DISC", TRUE, "none")>>
           m == dl["ms"]
           n == dl["bts"]
           s == pipe["ms"]
           a == pipe["bts"]
<1>1. dl[e] \in Datalinks
  BY DEF TypeInv
<1>2. Send(e, d, out) /\ failed' = failed /\ Attended /\ got' = got /\ view' = [view EXCEPT ![e] = "asked"]
  BY DEF RelReq
<1>3. x \in Datalinks /\ SameReceiver(dl[e], x)
  BY <1>1, FlushType DEF FlushHist, Datalinks, SameReceiver
<1> HIDE DEF x
<1>4. y \in Datalinks /\ y.state = "DISC_SENT" /\ SameReceiver(dl[e], y)
  BY <1>3, NewStateKeeps DEF States, SameReceiver
<1> HIDE DEF y
<1>5. d.state = "DISC_SENT" /\ SameReceiver(dl[e], d)
  BY <1>4 DEF Datalinks, SameReceiver
<1> HIDE DEF d
<1>6. out \in Seq(Frames) /\ Lacks(out, {"I"})
  <2>1. U("DISC", TRUE, "none") \in Frames /\ U("DISC", TRUE, "none").k = "DISC"
    BY <1>1, FramesMade DEF U
  <2>2. One(out, "DISC")
    BY <2>1 DEF One
  <2> HIDE DEF out
  <2>3. out \in Seq(Frames) /\ \A g \in Within(out) : g.k = "DISC"
    BY <2>2, OneParts
  <2> QED
    BY <2>3 DEF Lacks
<1> HIDE DEF out
<1>7. e = "bts"
  <2>1. asked["ms"] # 0
    <3>1. CASE e = "ms"
      BY <3>1 DEF RelReq, OpenInv, Untouched
    <3>2. CASE e = "bts"
      BY <3>2 DEF RelReq, OpenInv, Untouched, Datalink
    <3> QED
      BY <3>1, <3>2 DEF Entities
  <2>2. asked["ms"] \in 0..1
    BY DEF OneLink, TypeInv, Entities
  <2> QED
    BY <2>1, <2>2 DEF RelReq, OneLink, Entities
<1>8. failed["ms"] = FALSE /\ failed["bts"] = FALSE /\ Linked(m, n, s, a, FALSE, FALSE)
  BY <1>2, LinkAttended
<1>9. Handed(m, n, s, a, view["ms"], view["bts"], FALSE, FALSE)
  BY <1>8 DEF HandedInv
<1>10. Becomes("bts", d, a \o out, s, "asked", FALSE)
  <2>1. failed' = [failed EXCEPT ![e] = FALSE]
    BY <1>2, <1>7, <1>8 DEF TypeInv
  <2>2. Becomes(e, d, pipe[e] \o out, pipe[Peer(e)], "asked", FALSE)
    BY <1>2, <2>1, SentBecomes
  <2> QED
    BY <1>7, <2>2, EndParts
<1>11. SameReceiver(n, d) /\ d.state \notin Established /\ d.state # "SABM_SENT"
  BY <1>5, <1>7 DEF Established
<1>12. BtsTurns(m, n, s, a, view["ms"], view["bts"], d, s, a \o out, "asked", FALSE)
  BY <1>6, <1>8, <1>9, <1>11, EndParts, BtsStays
<1>13. /\ Handed(m, d, s, a \o out, view["ms"], "asked", failed["ms"], FALSE)
       /\ Changed(Wait(n, m, a), Wait(d, m, a \o out), "asked" = "up" /\ ~FALSE)
       /\ Changed(Wait(m, n, s), Wait(m, d, s), view["ms"] = "up")
  BY <1>8, <1>12 DEF BtsTurns
<1> QED
  BY <1>2, <1>10, <1>13, BtsReported

LEMMA ServesLocalRelease ==
  ASSUME TypeInv, OpenInv, LinkInv, HandedInv, NEW e \in Entities, LocalRelease(e)
  PROVE  HandedInv' /\ Service!Next
<1> DEFINE d == IF dl[e].state = "IDLE" THEN dl[e] ELSE ToIdle(dl[e])
           m == dl["ms"]
           n == dl["bts"]
           s == pipe["ms"]
           a == pipe["bts"]
<1>1. dl[e] \in Datalinks
  BY DEF TypeInv
<1>2. SameReceiver(dl[e], d) /\ d.state = "IDLE"
  BY <1>1, HandlerStates DEF Closed, SameReceiver
<1>3. /\ Send(e, d, <<>>) /\ failed[e] /\ got' = got
      /\ view' = [view EXCEPT ![e] = "down"] /\ failed' = [failed EXCEPT ![e] = FALSE]
  BY DEF LocalRelease
<1> HIDE DEF d
<1>4. Becomes(e, d, pipe[e] \o <<>>, pipe[Peer(e)], "down", FALSE)
  BY <1>3, SentBecomes
<1>5. failed[e] = TRUE
  BY <1>3 DEF TypeInv
<1>6. <<>> \in Seq(Frames) /\ Lacks(<<>>, {"I"}) /\ d.state \notin Established
  BY <1>2, NoFrame DEF Lacks, Established
<1>7. CASE e = "ms"
  <2>1. Handed(m, n, s, a, view["ms"], view["bts"], TRUE, failed["bts"])
    BY <1>5, <1>7 DEF HandedInv
  <2>2. d.vr = m.vr /\ d.rcv = m.rcv
    BY <1>2, <1>7 DEF SameReceiver
  <2>3. MsTurns(m, n, s, a, view["ms"], view["bts"], d, s \o <<>>, a, "down", FALSE, failed["bts"])
    BY <1>2, <1>6, <2>1, <2>2, EndParts, MsOff
  <2>4. Becomes("ms", d, s \o <<>>, a, "down", FALSE)
    BY <1>4, <1>7, EndParts
  <2> QED
    BY <1>3, <2>3, <2>4, MsReported
<1>8. CASE e = "bts"
  <2>1. Handed(m, n, s, a, view["ms"], view["bts"], failed["ms"], TRUE)
    BY <1>5, <1>8 DEF HandedInv
  <2>2. SameReceiver(n, d)
    BY <1>2, <1>8
  <2>7. BtsQuits(m, n, s, a, view["ms"], failed["ms"], d, "down")
    BY <1>2, <2>1, <2>2, EndParts, BtsOff
  <2>3. /\ Handed(m, d, s, a \o <<>>, view["ms"], "down", failed["ms"], FALSE)
        /\ Changed(Wait(n, m, a), Wait(d, m, a), "down" = "up")
        /\ Changed(Wait(m, n, s), Wait(m, d, s), view["ms"] = "up")
    BY <2>7 DEF BtsQuits
  <2>4. Becomes("bts", d, a \o <<>>, s, "down", FALSE)
    BY <1>4, <1>8, EndParts
  <2>5. a \o <<>> = a
    BY EndParts
  <2>6. Changed(Wait(n, m, a), Wait(d, m, a \o <<>>), "down" = "up" /\ ~FALSE)
    BY <2>3, <2>5, ChangedWeaker
  <2> QED
    BY <1>3, <2>3, <2>4, <2>6, BtsReported
<1> QED
  BY <1>7, <1>8 DEF Entities

LEMMA ServesLose ==
  ASSUME TypeInv, OpenInv, LinkInv, HandedInv, NEW e \in Entities, Lose(e)
  PROVE  HandedInv' /\ Service!Next
<1> DEFINE m == dl["ms"]
           n == dl["bts"]
           s == pipe["ms"]
           a == pipe["bts"]
<1>1. failed["ms"] = FALSE /\ failed["bts"] = FALSE /\ Linked(m, n, s, a, FALSE, FALSE)
  BY LinkAttended DEF Lose
<1>2. Handed(m, n, s, a, view["ms"], view["bts"], FALSE, FALSE)
  BY <1>1 DEF HandedInv
<1>3. /\ pipe[e] # <<>> /\ dl' = dl /\ view' = view /\ failed' = failed /\ got' = got
      /\ pipe'[e] = Tail(pipe[e]) /\ pipe'[Peer(e)] = pipe[Peer(e)]
  BY Peers DEF Lose, TypeInv
<1>4. <<>> \in Seq(Frames) /\ Lacks(<<>>, {"I"}) /\ s \o <<>> = s /\ a \o <<>> = a
  BY EndParts, NoFrame DEF Lacks
<1>5. CASE e = "ms"
  <2>1. Tail(s) \in Seq(Frames) /\ Within(Tail(s)) \subseteq Within(s) /\ AtMostOne(Tail(s), IFrames) /\ s # <<>>
    BY <1>3, <1>5, EndParts, TailParts
  <2>2. SameReceiver(n, n) /\ n.state # "SABM_SENT" /\ Own(n, m) = Own(n, m)
    BY EndParts DEF SameReceiver
  <2>3. view["bts"] = "up" /\ n.state \notin Established => m.state \notin Established /\ Lacks(a \o <<>>, {"UA"})
    BY <1>2, <1>4 DEF Handed
  <2>4. BtsTurns(m, n, s, a, view["ms"], view["bts"], n, Tail(s), a \o <<>>, view["bts"], FALSE)
    BY <1>1, <1>2, <1>4, <2>1, <2>2, <2>3, EndParts, BtsStays
  <2>5. Becomes("bts", n, a \o <<>>, Tail(s), view["bts"], FALSE)
    BY <1>1, <1>3, <1>4, <1>5, EndParts DEF Becomes
  <2>6. /\ Handed(m, n, Tail(s), a \o <<>>, view["ms"], view["bts"], failed["ms"], FALSE)
        /\ Changed(Wait(n, m, a), Wait(n, m, a \o <<>>), view["bts"] = "up" /\ ~FALSE)
        /\ Changed(Wait(m, n, s), Wait(m, n, Tail(s)), view["ms"] = "up")
    BY <1>1, <2>4 DEF BtsTurns
  <2> QED
    BY <1>3, <2>5, <2>6, BtsReported
<1>6. CASE e = "bts"
  <2> DEFINE none == {}
  <2>1. "MDL_ERROR" \notin none /\ Told(view["ms"], none) = view["ms"]
    BY DEF Told
  <2>2. pipe'["bts"] = Tail(a) /\ pipe'["ms"] = s /\ a # <<>> /\ Kept(m, m)
    BY <1>3, <1>6, EndParts DEF Kept, SameData, SameReceiver
  <2>3. Linked(m, n, s \o <<>>, Tail(a), FALSE, FALSE)
    <3>1. LinkInv'
      BY LinkLose
    <3> QED
      BY <1>1, <1>3, <1>4, <2>2, <3>1 DEF LinkInv
  <2> DEFINE c == "MDL_ERROR" \in none
  <2>4. c = FALSE
    BY <2>1
  <2> HIDE DEF none, c
  <2>5. Linked(m, n, s \o <<>>, Tail(a), c, FALSE)
    BY <2>3, <2>4
  <2>8. view["ms"] = "up" => m.state \in Established
    BY <1>2 DEF Handed
  <2>9. MsGoes(m, n, s, a, view["ms"], view["bts"], m, <<>>, none)
    <3>1. Linked(m, n, s \o <<>>, Tail(a), "MDL_ERROR" \in none, FALSE)
      BY <2>5 DEF c
    <3>2. ~(m.state \in Established /\ (m.state \notin Established \/ "MDL_ERROR" \in none))
      BY <2>1
    <3>3. Told(view["ms"], none) = "up" => m.state \in Established
      BY <2>1, <2>8
    <3> QED
      BY <1>1, <1>2, <1>4, <2>2, <3>1, <3>2, <3>3, EndParts, MsStays
  <2>10. /\ Handed(m, n, s \o <<>>, Tail(a), view["ms"], view["bts"], c, FALSE)
         /\ Changed(Wait(n, m, a), Wait(n, m, Tail(a)), view["bts"] = "up")
    BY <2>1, <2>9 DEF MsGoes, c
  <2>11. Handed(m, n, s \o <<>>, Tail(a), view["ms"], view["bts"], FALSE, failed["bts"])
    BY <1>1, <2>4, <2>10
  <2>12. Changed(Wait(m, n, s), Wait(m, n, s \o <<>>), view["ms"] = "up" /\ ~FALSE)
    BY <1>4 DEF Changed
  <2>6. MsTurns(m, n, s, a, view["ms"], view["bts"], m, s \o <<>>, Tail(a), view["ms"], FALSE, failed["bts"])
    BY <2>10, <2>11, <2>12 DEF MsTurns
  <2>7. Becomes("ms", m, s \o <<>>, Tail(a), view["ms"], FALSE)
    BY <1>1, <1>3, <1>4, <2>2, EndParts DEF Becomes
  <2> QED
    BY <1>3, <2>6, <2>7, MsReported
<1> QED
  BY <1>5, <1>6 DEF Entities

(* Another mobile's SABM takes the place of the first frame of this one. *)
LEMMA ServesCollide ==
  ASSUME TypeInv, OpenInv, LinkInv, HandedInv, Collide
  PROVE  HandedInv' /\ Service!Next
<1> DEFINE m == dl["ms"]
           n == dl["bts"]
           s == pipe["ms"]
           a == pipe["bts"]
           h == U("SABM", TRUE, "other")
           t == <<h>> \o Tail(s)
<1>1. failed["ms"] = FALSE /\ failed["bts"] = FALSE /\ Linked(m, n, s, a, FALSE, FALSE)
  BY LinkAttended DEF Collide
<1>2. Handed(m, n, s, a, view["ms"], view["bts"], FALSE, FALSE)
  BY <1>1 DEF HandedInv
<1>3. /\ s # <<>> /\ Head(s).k = "SABM" /\ dl' = dl /\ view' = view /\ failed' = failed /\ got' = got
      /\ pipe' = [pipe EXCEPT !["ms"] = t]
  BY DEF Collide
<1>4. h \in Frames /\ h.k = "SABM"
  BY DEF U, Frames
<1> HIDE DEF h
<1>5. Tail(s) \in Seq(Frames) /\ Within(Tail(s)) \subseteq Within(s) /\ Head(s) \in Within(s)
  BY <1>3, EndParts, TailParts
<1>6. t \in Seq(Frames) /\ Within(t) = {h} \cup Within(Tail(s))
  <2>1. One(<<h>>, "SABM")
    BY <1>4 DEF One
  <2>2. <<h>> \in Seq(Frames)
    BY <1>4
  <2>3. Within(<<h>>) = {h}
    BY DEF Within
  <2> QED
    BY <1>5, <2>2, <2>3, JoinParts
<1> HIDE DEF t
<1>7. m.state \notin Established
  BY <1>1, <1>3, <1>5 DEF Linked, Control, MsOpen, Numbered
<1>8. pipe'["ms"] = t /\ pipe'["bts"] = a
  BY <1>3 DEF TypeInv, Entities
<1>9. Handed(m, n, t, a, view["ms"], view["bts"], FALSE, FALSE)
  <2>1. n.state \in Established => Lacks(t, {"I"})
    BY <1>2, <1>4, <1>5, <1>6, <1>7 DEF Handed, Lacks
  <2> QED
    BY <1>2, <2>1 DEF Handed
<1>10. AtMostOne(t, IFrames)
  <2>1. LinkInv'
    BY LinkCollide
  <2> QED
    BY <1>8, <2>1 DEF LinkInv, Linked, Side
<1>11. Wait(m, n, s) = <<>> /\ Wait(m, n, t) = <<>>
  BY <1>2, <1>6, <1>7, <1>9, <1>10, EndParts, MsWait
<1>12. MsTurns(m, n, s, a, view["ms"], view["bts"], m, t, a, view["ms"], FALSE, failed["bts"])
  BY <1>1, <1>9, <1>11 DEF MsTurns, Changed
<1>13. Becomes("ms", m, t, a, view["ms"], FALSE)
  BY <1>1, <1>3, <1>8, EndParts DEF Becomes
<1> QED
  BY <1>3, <1>12, <1>13, MsReported

LEMMA ServesEstReq ==
  ASSUME TypeInv, OpenInv, LinkInv, HandedInv, OneLink, NEW e \in Entities, EstReq(e)
  PROVE  HandedInv' /\ Service!Next
<1>1. e = "ms" /\ asked["ms"] = 0 /\ Untouched
  BY DEF EstReq, OneLink, OpenInv, TypeInv
<1>2. PICK c \in Contents :
        /\ LET d == [FlushHist(FlushSend(dl[e])) EXCEPT !.rcv = <<>>, !.vs = 0, !.ctr = 0] IN
           Send(e, [NewState(d, "SABM_SENT") EXCEPT !.content = c, !.t200 = TRUE], <<U("SABM", TRUE, c)>>)
        /\ Attended /\ failed' = [failed EXCEPT ![e] = FALSE] /\ view' = [view EXCEPT ![e] = "asked"]
        /\ got' = got
  BY DEF EstReq
<1> DEFINE x == FlushHist(FlushSend(dl["ms"]))
           d == Opened(x, c)
           out == <<U("SABM", TRUE, c)>>
           m == dl["ms"]
           n == dl["bts"]
           s == pipe["ms"]
           a == pipe["bts"]
<1>3. Send("ms", d, out) /\ failed' = [failed EXCEPT !["ms"] = FALSE] /\ view' = [view EXCEPT !["ms"] = "asked"]
  BY <1>1, <1>2 DEF Opened
<1>4. m = Datalink /\ s = <<>> /\ a = <<>>
  BY <1>1 DEF Untouched, Entities
<1>5. x \in Datalinks /\ x.vr = 0
  <2>1. x \in Datalinks
    BY FlushType DEF TypeInv, Entities
  <2> QED
    BY <1>4, <2>1 DEF FlushHist, FlushSend, Datalink
<1> HIDE DEF x
<1>6. d.state = "SABM_SENT" /\ d.vr = 0
  <2>1. PICK k \in {"none", x.contres} :
          d = [x EXCEPT !.rcv = <<>>, !.vs = 0, !.ctr = 0, !.state = "SABM_SENT",
                        !.contres = k, !.content = c, !.t200 = TRUE]
    BY <1>5, OpenedFields, ZenonT(60)
  <2> HIDE DEF d
  <2> QED
    BY <1>5, <2>1 DEF Datalinks
<1> HIDE DEF d
<1>7. out \in Seq(Frames) /\ Lacks(out, {"I"})
  <2>1. U("SABM", TRUE, c) \in Frames /\ U("SABM", TRUE, c).k = "SABM"
    BY DEF U, Frames
  <2>2. One(out, "SABM")
    BY <2>1 DEF One
  <2> HIDE DEF out
  <2>3. out \in Seq(Frames) /\ \A g \in Within(out) : g.k = "SABM"
    BY <2>2, OneParts
  <2> QED
    BY <2>3 DEF Lacks
<1> HIDE DEF out
<1>8. failed["ms"] = FALSE /\ failed["bts"] = FALSE
  BY <1>2, LinkAttended
<1>9. Handed(m, n, s, a, view["ms"], view["bts"], FALSE, FALSE)
  BY <1>8 DEF HandedInv
<1>10. d.vr = m.vr /\ d.state \notin Established
  BY <1>4, <1>6 DEF Datalink, Established
<1>11. MsTurns(m, n, s, a, view["ms"], view["bts"], d, s \o out, a, "asked", FALSE, failed["bts"])
  BY <1>4, <1>7, <1>8, <1>9, <1>10, EndParts, MsOff
<1>12. Becomes("ms", d, s \o out, a, "asked", FALSE)
  BY <1>3, SentBecomes, EndParts
<1> QED
  BY <1>2, <1>11, <1>12, MsReported

(* T200, with nothing under way. *)
LEMMA ServesT200EstRel ==
  ASSUME TypeInv, OpenInv, LinkInv, HandedInv, NEW e \in Entities, T200EstRel(e), NoneUnderWay
  PROVE  HandedInv' /\ Service!Next
<1> DEFINE d == Stop(dl[e])
           again == [d EXCEPT !.ctr = @ + 1, !.t200 = TRUE]
           u == U(IF d.state = "SABM_SENT" THEN "SABM" ELSE "DISC", TRUE, d.content)
           out == <<u>>
           end == {"MDL_ERROR", IF d.state = "SABM_SENT" THEN "REL_IND" ELSE "REL_CONF"}
           gone == ToIdle(d)
           m == dl["ms"]
           n == dl["bts"]
           s == pipe["ms"]
           a == pipe["bts"]
<1>1. dl[e] \in Datalinks
  BY DEF TypeInv
<1>2. d \in Datalinks /\ Kept(dl[e], d)
  BY <1>1, HandlerStates
<1>3. /\ MayExpire(e) /\ d.state \in {"SABM_SENT", "DISC_SENT"} /\ got' = got
      /\ \/ Send(e, gone, <<>>) /\ Tell(e, end)
         \/ Send(e, again, out) /\ failed' = failed /\ view' = view
  BY DEF T200EstRel
<1>4. (view' = [view EXCEPT ![e] = "down"] /\ failed' = [failed EXCEPT ![e] = TRUE])
      \/ ~Tell(e, end)
  <2>1. end \cap {"EST_IND", "EST_CONF"} = {} /\ end \cap {"REL_IND", "REL_CONF"} # {} /\ "MDL_ERROR" \in end
    OBVIOUS
  <2> HIDE DEF end
  <2>2. ASSUME Tell(e, end) PROVE view' = [view EXCEPT ![e] = "down"] /\ failed' = [failed EXCEPT ![e] = TRUE]
    BY <2>1, <2>2 DEF Tell, TypeInv
  <2> QED
    BY <2>2
<1>5. /\ failed["ms"] = FALSE /\ failed["bts"] = FALSE /\ s = <<>> /\ a = <<>>
      /\ Linked(m, n, s, a, FALSE, FALSE)
  BY <1>3, LinkExpires
<1>6. Handed(m, n, s, a, view["ms"], view["bts"], FALSE, FALSE)
  BY <1>5 DEF HandedInv
<1> HIDE DEF d, end
<1>7. SameReceiver(dl[e], gone) /\ gone.state = "IDLE"
  BY <1>2, HandlerStates DEF Closed, Kept, SameData, SameReceiver
<1>8. again.state = dl[e].state /\ SameReceiver(dl[e], again)
  BY <1>2 DEF Datalinks, Kept, SameData, SameReceiver
<1> HIDE DEF gone, again
<1>9. out \in Seq(Frames) /\ Lacks(out, {"I"}) /\ Lacks(out, {"UA"})
  <2> DEFINE k == IF d.state = "SABM_SENT" THEN "SABM" ELSE "DISC"
  <2>1. u \in Frames /\ u.k = k
    <3>1. d.content \in Contents \cup {"none"}
      BY <1>2 DEF Datalinks
    <3> QED
      BY <1>2, <3>1, FramesMade DEF U
  <2>2. k \notin {"I", "UA"}
    OBVIOUS
  <2> HIDE DEF k, u
  <2>3. One(out, k)
    BY <2>1 DEF One
  <2> HIDE DEF out
  <2>4. out \in Seq(Frames) /\ \A g \in Within(out) : g.k = k
    BY <2>3, OneParts
  <2> QED
    BY <2>2, <2>4 DEF Lacks
<1> HIDE DEF out, u
<1>10. <<>> \in Seq(Frames) /\ Lacks(<<>>, {"I"}) /\ Lacks(<<>>, {"UA"}) /\ Within(<<>>) = {}
  BY NoFrame DEF Lacks
<1>11. d.state = dl[e].state /\ dl[e].state \notin Established /\ gone.state \notin Established
  BY <1>2, <1>3, <1>7 DEF Kept, Established
<1>12. ASSUME Send(e, gone, <<>>), Tell(e, end)
       PROVE  Becomes(e, gone, pipe[e] \o <<>>, pipe[Peer(e)], "down", TRUE)
  BY <1>4, <1>12, SentBecomes
<1>13. ASSUME Send(e, again, out), failed' = failed, view' = view
       PROVE  Becomes(e, again, pipe[e] \o out, pipe[Peer(e)], view[e], failed[e])
  BY <1>13, SentQuietly
<1>14. CASE e = "ms"
  <2>1. gone.vr = m.vr /\ again.vr = m.vr /\ again.state \notin Established
    BY <1>7, <1>8, <1>11, <1>14 DEF SameReceiver
  <2>2. view["ms"] # "up" /\ m.state \notin Established
    BY <1>6, <1>11, <1>14 DEF Handed
  <2>3. ASSUME Send(e, gone, <<>>), Tell(e, end)
        PROVE  HandedInv' /\ Service!Next
    <3>1. MsTurns(m, n, s, a, view["ms"], view["bts"], gone, s \o <<>>, a, "down", TRUE, failed["bts"])
      BY <1>5, <1>6, <1>10, <1>11, <2>1, <2>2, EndParts, MsOff
    <3>2. Becomes("ms", gone, s \o <<>>, a, "down", TRUE)
      BY <1>12, <1>14, <2>3, EndParts
    <3> QED
      BY <1>3, <3>1, <3>2, MsReported
  <2>4. ASSUME Send(e, again, out), failed' = failed, view' = view
        PROVE  HandedInv' /\ Service!Next
    <3>1. MsTurns(m, n, s, a, view["ms"], view["bts"], again, s \o out, a, view["ms"], FALSE, failed["bts"])
      BY <1>5, <1>6, <1>9, <2>1, <2>2, EndParts, MsOff
    <3>2. Becomes("ms", again, s \o out, a, view["ms"], FALSE)
      BY <1>5, <1>13, <1>14, <2>4, EndParts
    <3> QED
      BY <1>3, <3>1, <3>2, MsReported
  <2> QED
    BY <1>3, <2>3, <2>4
<1>15. CASE e = "bts"
  <2>1. /\ SameReceiver(n, gone) /\ SameReceiver(n, again) /\ again.state \notin Established
        /\ gone.state # "SABM_SENT" /\ again.state # "SABM_SENT" /\ n.state \notin Established
    BY <1>7, <1>8, <1>11, <1>15, EndParts
  <2>2. view["bts"] = "up" => m.state \notin Established /\ Lacks(a \o out, {"UA"})
    <3>1. a \o out = out
      BY <1>5, <1>9
    <3> QED
      BY <1>6, <1>9, <2>1, <3>1 DEF Handed
  <2>3. ASSUME Send(e, gone, <<>>), Tell(e, end)
        PROVE  HandedInv' /\ Service!Next
    <3>1. BtsTurns(m, n, s, a, view["ms"], view["bts"], gone, s, a \o <<>>, "down", TRUE)
      BY <1>5, <1>6, <1>10, <1>11, <2>1, EndParts, BtsStays
    <3>2. Becomes("bts", gone, a \o <<>>, s, "down", TRUE)
      BY <1>12, <1>15, <2>3, EndParts
    <3>3. /\ Handed(m, gone, s, a \o <<>>, view["ms"], "down", failed["ms"], TRUE)
          /\ Changed(Wait(n, m, a), Wait(gone, m, a \o <<>>), "down" = "up" /\ ~TRUE)
          /\ Changed(Wait(m, n, s), Wait(m, gone, s), view["ms"] = "up")
      BY <1>5, <3>1 DEF BtsTurns
    <3> QED
      BY <1>3, <3>2, <3>3, BtsReported
  <2>4. ASSUME Send(e, again, out), failed' = failed, view' = view
        PROVE  HandedInv' /\ Service!Next
    <3>1. BtsTurns(m, n, s, a, view["ms"], view["bts"], again, s, a \o out, view["bts"], FALSE)
      BY <1>5, <1>6, <1>9, <2>1, <2>2, EndParts, BtsStays
    <3>2. Becomes("bts", again, a \o out, s, view["bts"], FALSE)
      BY <1>5, <1>13, <1>15, <2>4, EndParts
    <3>3. /\ Handed(m, again, s, a \o out, view["ms"], view["bts"], failed["ms"], FALSE)
          /\ Changed(Wait(n, m, a), Wait(again, m, a \o out), view["bts"] = "up" /\ ~FALSE)
          /\ Changed(Wait(m, n, s), Wait(m, again, s), view["ms"] = "up")
      BY <1>5, <3>1 DEF BtsTurns
    <3> QED
      BY <1>3, <3>2, <3>3, BtsReported
  <2> QED
    BY <1>3, <2>3, <2>4
<1> QED
  BY <1>14, <1>15 DEF Entities

(* An established entity polls, or gives up: it keeps what it has to send. *)
LEMMA MsRecovers ==
  ASSUME NEW m \in Datalinks, NEW n \in Datalinks, NEW s \in Seq(Frames), NEW a \in Seq(Frames),
         AtMostOne(a, IFrames), m.state \in Established,
         NEW vm, NEW vn, Handed(m, n, s, a, vm, vn, FALSE, FALSE),
         NEW x, x.state \in Established, SameReceiver(m, x), Own(x, n) = Own(m, n),
         NEW out \in Seq(Frames), NEW cm, cm => s = <<>> /\ out = <<>>
  PROVE  MsTurns(m, n, s, a, vm, vn, x, s \o out, a, vm, cm, FALSE)
<1>1. MsCarried(m, n, s, a, vm, vn, x, out, cm)
  BY MsCarries
<1>2. Wait(x, n, s \o out) = Wait(m, n, s)
  BY DEF Wait
<1> QED
  BY <1>1, <1>2 DEF MsTurns, MsCarried, Changed

LEMMA BtsRecovers ==
  ASSUME NEW m \in Datalinks, NEW n \in Datalinks, NEW s \in Seq(Frames), NEW a \in Seq(Frames),
         AtMostOne(s, IFrames), n.state \in Established,
         NEW vm, NEW vn, Handed(m, n, s, a, vm, vn, FALSE, FALSE),
         NEW x, x.state \in Established, SameReceiver(n, x), Own(x, m) = Own(n, m),
         NEW out \in Seq(Frames), NEW cn, cn => a = <<>> /\ out = <<>>
  PROVE  BtsTurns(m, n, s, a, vm, vn, x, s, a \o out, vn, cn)
<1>1. BtsCarried(m, n, s, a, vm, vn, x, out, cn)
  BY BtsCarries
<1>2. Wait(x, m, a \o out) = Wait(n, m, a)
  BY DEF Wait
<1> QED
  BY <1>1, <1>2 DEF BtsTurns, BtsCarried, Changed

LEMMA ServesT200Recovery ==
  ASSUME TypeInv, OpenInv, LinkInv, HandedInv, NEW e \in Entities, T200Recovery(e), NoneUnderWay
  PROVE  HandedInv' /\ Service!Next
<1> DEFINE d == InRecovery(dl[e])
           again == [d EXCEPT !.t200 = TRUE]
           out == Poll(d)
           end == {"MDL_ERROR"}
           m == dl["ms"]
           n == dl["bts"]
           s == pipe["ms"]
           a == pipe["bts"]
<1>1. dl[e] \in Datalinks /\ dl[e].state \in Established
  BY RecoveryCases DEF TypeInv
<1>2. /\ d \in Datalinks /\ d.state = "TIMER_RECOV" /\ SameReceiver(dl[e], d)
      /\ d.vs = dl[e].vs /\ d.va = dl[e].va /\ d.hist = dl[e].hist
      /\ d.buf = dl[e].buf /\ d.out = dl[e].out /\ d.queue = dl[e].queue
  BY <1>1, InRecoveryFields DEF SameReceiver
<1>3. /\ MayExpire(e) /\ got' = got
      /\ \/ Send(e, d, <<>>) /\ Tell(e, end)
         \/ Send(e, again, out) /\ failed' = failed /\ view' = view
  BY RecoveryCases
<1>4. ASSUME Tell(e, end)
      PROVE  view' = [view EXCEPT ![e] = view[e]] /\ failed' = [failed EXCEPT ![e] = TRUE]
  <2>1. end \cap {"EST_IND", "EST_CONF"} = {} /\ end \cap {"REL_IND", "REL_CONF"} = {} /\ "MDL_ERROR" \in end
    OBVIOUS
  <2> HIDE DEF end
  <2> QED
    BY <1>4, <2>1 DEF Tell, TypeInv
<1>5. /\ failed["ms"] = FALSE /\ failed["bts"] = FALSE /\ s = <<>> /\ a = <<>>
      /\ Linked(m, n, <<>>, <<>>, FALSE, FALSE)
  BY <1>3, LinkExpires
<1>6. Handed(m, n, s, a, view["ms"], view["bts"], FALSE, FALSE)
  BY <1>5 DEF HandedInv
<1> HIDE DEF d, end
<1>7. SameSender(d, again) /\ SameReceiver(d, again) /\ again.queue = d.queue /\ again.state = d.state
  BY <1>2 DEF Datalinks, SameSender, SameReceiver
<1> HIDE DEF again
<1>8. SameReceiver(dl[e], again) /\ \A q : Own(d, q) = Own(dl[e], q) /\ Own(again, q) = Own(dl[e], q)
  BY <1>2, <1>7 DEF SameReceiver, SameSender, Own, Has
<1>9. d.state \in Established /\ again.state \in Established
  BY <1>2, <1>7 DEF Established
<1>10. out \in Seq(Frames)
  <2>1. /\ Side(m, n, <<>>, <<>>, FALSE) /\ Side(n, m, <<>>, <<>>, FALSE)
    BY <1>5 DEF Linked
  <2>2. CASE e = "ms"
    BY <1>1, <1>2, <1>7, <2>1, <2>2, EndParts, PollSides
  <2>3. CASE e = "bts"
    BY <1>1, <1>2, <1>7, <2>1, <2>3, EndParts, PollSides
  <2> QED
    BY <2>2, <2>3 DEF Entities
<1> HIDE DEF out
<1>11. ASSUME Send(e, d, <<>>), Tell(e, end)
       PROVE  Becomes(e, d, pipe[e] \o <<>>, pipe[Peer(e)], view[e], TRUE)
  BY <1>4, <1>11, SentBecomes
<1>12. ASSUME Send(e, again, out), failed' = failed, view' = view
       PROVE  Becomes(e, again, pipe[e] \o out, pipe[Peer(e)], view[e], failed[e])
  BY <1>12, SentQuietly
<1>13. <<>> \in Seq(Frames)
  BY NoFrame
<1>14. CASE e = "ms"
  <2>1. ASSUME Send(e, d, <<>>), Tell(e, end)
        PROVE  HandedInv' /\ Service!Next
    <3>1. MsTurns(m, n, s, a, view["ms"], view["bts"], d, s \o <<>>, a, view["ms"], TRUE, FALSE)
      BY <1>1, <1>2, <1>5, <1>6, <1>8, <1>9, <1>13, <1>14, EndParts, MsRecovers
    <3>2. Becomes("ms", d, s \o <<>>, a, view["ms"], TRUE)
      BY <1>11, <1>14, <2>1, EndParts
    <3>3. MsTurns(m, n, s, a, view["ms"], view["bts"], d, s \o <<>>, a, view["ms"], TRUE, failed["bts"])
      BY <1>5, <3>1
    <3> QED
      BY <1>3, <3>2, <3>3, MsReported
  <2>2. ASSUME Send(e, again, out), failed' = failed, view' = view
        PROVE  HandedInv' /\ Service!Next
    <3>1. MsTurns(m, n, s, a, view["ms"], view["bts"], again, s \o out, a, view["ms"], FALSE, FALSE)
      BY <1>1, <1>6, <1>8, <1>9, <1>10, <1>14, EndParts, MsRecovers
    <3>2. Becomes("ms", again, s \o out, a, view["ms"], FALSE)
      BY <1>5, <1>12, <1>14, <2>2, EndParts
    <3>3. MsTurns(m, n, s, a, view["ms"], view["bts"], again, s \o out, a, view["ms"], FALSE, failed["bts"])
      BY <1>5, <3>1
    <3> QED
      BY <1>3, <3>2, <3>3, MsReported
  <2> QED
    BY <1>3, <2>1, <2>2
<1>15. CASE e = "bts"
  <2>1. ASSUME Send(e, d, <<>>), Tell(e, end)
        PROVE  HandedInv' /\ Service!Next
    <3>1. BtsTurns(m, n, s, a, view["ms"], view["bts"], d, s, a \o <<>>, view["bts"], TRUE)
      BY <1>1, <1>2, <1>5, <1>6, <1>8, <1>9, <1>13, <1>15, EndParts, BtsRecovers
    <3>2. Becomes("bts", d, a \o <<>>, s, view["bts"], TRUE)
      BY <1>11, <1>15, <2>1, EndParts
    <3>3. /\ Handed(m, d, s, a \o <<>>, view["ms"], view["bts"], failed["ms"], TRUE)
          /\ Changed(Wait(n, m, a), Wait(d, m, a \o <<>>), view["bts"] = "up" /\ ~TRUE)
          /\ Changed(Wait(m, n, s), Wait(m, d, s), view["ms"] = "up")
      BY <1>5, <3>1 DEF BtsTurns
    <3> QED
      BY <1>3, <3>2, <3>3, BtsReported
  <2>2. ASSUME Send(e, again, out), failed' = failed, view' = view
        PROVE  HandedInv' /\ Service!Next
    <3>1. BtsTurns(m, n, s, a, view["ms"], view["bts"], again, s, a \o out, view["bts"], FALSE)
      BY <1>1, <1>6, <1>8, <1>9, <1>10, <1>15, EndParts, BtsRecovers
    <3>2. Becomes("bts", again, a \o out, s, view["bts"], FALSE)
      BY <1>5, <1>12, <1>15, <2>2, EndParts
    <3>3. /\ Handed(m, again, s, a \o out, view["ms"], view["bts"], failed["ms"], FALSE)
          /\ Changed(Wait(n, m, a), Wait(again, m, a \o out), view["bts"] = "up" /\ ~FALSE)
          /\ Changed(Wait(m, n, s), Wait(m, again, s), view["ms"] = "up")
      BY <1>5, <3>1 DEF BtsTurns
    <3> QED
      BY <1>3, <3>2, <3>3, BtsReported
  <2> QED
    BY <1>3, <2>1, <2>2
<1> QED
  BY <1>14, <1>15 DEF Entities

-----------------------------------------------------------------------------
LEMMA HandedInit == LapdInit => HandedInv /\ Service!Init
<1> SUFFICES ASSUME LapdInit PROVE HandedInv /\ Service!Init
  OBVIOUS
<1>1. /\ dl["ms"] = Datalink /\ dl["bts"] = Datalink /\ pipe["ms"] = <<>> /\ pipe["bts"] = <<>>
      /\ view["ms"] = "down" /\ view["bts"] = "down"
  BY DEF LapdInit, Entities
<1>2. Datalink.state \notin Established /\ Datalink.state # "SABM_SENT"
  BY DEF Datalink, Established
<1>3. Lacks(<<>>, {"I"}) /\ Continues(Datalink, <<>>) /\ <<>> \in Seq(Frames)
  BY NoFrame DEF Lacks, Continues
<1>4. HandedInv
  BY <1>1, <1>2, <1>3 DEF HandedInv, Handed
<1>5. Wait(Datalink, Datalink, <<>>) = <<>>
  <2>1. Lasts(Datalink, <<>>) = {} /\ Strays(Datalink, <<>>) = {}
    BY <1>2, <1>3, LastsParts
  <2> QED
    BY <1>2, <2>1 DEF Wait
<1>6. \A e \in Entities : Waiting(e) = <<>>
  BY <1>1, <1>5, BothEnds DEF Entities
<1>7. Service!Init
  BY <1>6 DEF Service!Init, LapdInit
<1> QED
  BY <1>4, <1>7

LEMMA ServesStep ==
  ASSUME TypeInv, LateInv, OpenInv, LinkInv, HandedInv, OneLink, [LapdNext]_vars, late' = 0
  PROVE  HandedInv' /\ [Service!Next]_(Service!svars)
<1>1. ASSUME NEW e \in Entities, T200(e) PROVE HandedInv' /\ Service!Next
  <2>1. NoneUnderWay
    BY <1>1, InTimeExpiry DEF T200, T200EstRel, T200Recovery
  <2> QED
    BY <1>1, <2>1, ServesT200EstRel, ServesT200Recovery DEF T200
<1>2. ASSUME UNCHANGED vars PROVE HandedInv' /\ UNCHANGED Service!svars
  <2>1. HandedInv'
    BY <1>2 DEF vars, HandedInv
  <2>2. Waiting("ms")' = Waiting("ms") /\ Waiting("bts")' = Waiting("bts")
    BY <1>2, BothEnds DEF vars
  <2>3. \A e \in Entities : Waiting(e)' = Waiting(e)
    BY <2>2 DEF Entities
  <2> DEFINE w == [e \in Entities |-> Waiting(e)]
  <2>4. w' = w
    BY <2>3
  <2> QED
    BY <1>2, <2>1, <2>4 DEF vars, Service!svars
<1>3. ASSUME NEW e \in Entities, NEW m \in Msgs, DataReq(e, m) PROVE HandedInv' /\ Service!Next
  BY <1>3, ServesDataReq
<1>4. ASSUME NEW e \in Entities, EstReq(e) \/ RelReq(e) \/ LocalRelease(e) PROVE HandedInv' /\ Service!Next
  BY <1>4, ServesEstReq, ServesRelReq, ServesLocalRelease
<1>5. ASSUME NEW e \in Entities, Receive(e) \/ Lose(e) PROVE HandedInv' /\ Service!Next
  BY <1>5, ServesReceive, ServesLose
<1>6. ASSUME Collide PROVE HandedInv' /\ Service!Next
  BY <1>6, ServesCollide
<1>7. CASE LapdNext
  BY <1>1, <1>3, <1>4, <1>5, <1>6, <1>7 DEF LapdNext, InTime
<1> QED
  BY <1>2, <1>7

(* The data link implements LinkService: a message that layer 3 hands over
   reaches the peer whole, in order and once, and is given up only when the
   layer 3 that sent it has no sound link (lapd_send_i, lapd_acknowledge,
   lapd_rx_i, lapd_rx_s, lapd_t200_cb), for all messages and numbers of their
   segments, every range of the sequence numbers, every limit of repetitions
   and any number of losses, when the mobile establishes the link once and as
   long as T200 has not expired with a frame still under way. *)
THEOREM LinkServes ==
  OneLink => (Spec => Implements)
<1> SUFFICES ASSUME OneLink PROVE Spec => Implements
  OBVIOUS
<1>1. TypeInv /\ LateInv /\ (late = 0 => OpenInv) /\ [LapdNext]_vars => (late = 0 => OpenInv)'
  BY OpenStep, LateStep
<1>2. TypeInv /\ LateInv /\ (late = 0 => OpenInv /\ LinkInv) /\ [LapdNext]_vars => (late = 0 => LinkInv)'
  BY LinkInvStep, LateStep
<1>3. TypeInv /\ LateInv /\ (late = 0 => OpenInv /\ LinkInv /\ HandedInv) /\ [LapdNext]_vars =>
        /\ (late = 0 => HandedInv)'
        /\ [late' = 0 => Service!Next]_(Service!svars)
  BY ServesStep, LateStep
<1>4. LapdInit => OpenInv /\ LinkInv /\ HandedInv /\ Service!Init
  BY OpenInit, LinkInit, HandedInit
<1> QED
  BY <1>1, <1>2, <1>3, <1>4, TypesHold, PTL DEF Spec, Implements
=============================================================================
