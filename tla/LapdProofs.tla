----------------------------- MODULE LapdProofs -----------------------------
(***************************************************************************)
(* Proofs about the acknowledged data link, for any messages, range of the *)
(* sequence numbers and retry limits: the types; the frames that can be    *)
(* under way at each state of the entities; contention resolution; and,    *)
(* for one link that the mobile establishes, the data it carries: whatever *)
(* is lost or given up, its two ends agree on what was sent and received,  *)
(* and as long as nothing is lost layer 3 is told of no error.             *)
(***************************************************************************)
EXTENDS Lapd, SequenceTheorems, TLAPS

-----------------------------------------------------------------------------
(* Sequence numbers. *)

LEMMA NumbersWrap ==
  ASSUME NEW v \in Numbers
  PROVE  /\ Inc(v) \in Numbers /\ Dec(v) \in Numbers
         /\ Inc(v) # v /\ Inc(Inc(v)) # v
         /\ Dec(Inc(v)) = v /\ Inc(Dec(v)) = v
         /\ H(v) \in 1..2 /\ H(Inc(v)) = 3 - H(v)
<1>1. VRange \in Nat /\ VRange >= 4 /\ VRange % 2 = 0
  BY LapdAssumption
<1>2. PICK n \in Nat : VRange = n
  BY <1>1
<1>3. v \in Int /\ 0 <= v /\ v < n
  BY <1>2 DEF Numbers
<1>4. Inc(v) = IF v + 1 = n THEN 0 ELSE v + 1
  BY <1>1, <1>2, <1>3 DEF Inc
<1>5. Dec(v) = IF v = 0 THEN n - 1 ELSE v - 1
  BY <1>1, <1>2, <1>3 DEF Dec
<1>6. Inc(v) \in Numbers /\ Dec(v) \in Numbers
  BY <1>1, <1>2, <1>3, <1>4, <1>5 DEF Numbers
<1>7. Inc(Inc(v)) = IF Inc(v) + 1 = n THEN 0 ELSE Inc(v) + 1
  BY <1>1, <1>2, <1>3, <1>4 DEF Inc
<1>8. Inc(Dec(v)) = IF Dec(v) + 1 = n THEN 0 ELSE Dec(v) + 1
  BY <1>1, <1>2, <1>3, <1>5 DEF Inc
<1>9. Dec(Inc(v)) = IF Inc(v) = 0 THEN n - 1 ELSE Inc(v) - 1
  BY <1>1, <1>2, <1>3, <1>4 DEF Dec
<1>10. H(v) \in 1..2
  BY <1>3 DEF H
<1>11. H(Inc(v)) = 3 - H(v)
  <2>1. (v + 1) % 2 = 1 - (v % 2)
    BY <1>3
  <2>2. v + 1 = n => v % 2 = 1
    BY <1>1, <1>2, <1>3, <2>1
  <2> QED
    BY <1>1, <1>2, <1>3, <1>4, <2>1, <2>2 DEF H
<1> QED
  BY <1>1, <1>2, <1>3, <1>4, <1>5, <1>6, <1>7, <1>8, <1>9, <1>10, <1>11

-----------------------------------------------------------------------------
(* Types. *)

LEMMA ShortSequences ==
  ASSUME NEW S
  PROVE  /\ <<>> \in Seq(S)
         /\ \A x \in S : <<x>> \in Seq(S)
         /\ \A x, y \in S : <<x, y>> \in Seq(S)
         /\ \A s, t \in Seq(S) : s \o t \in Seq(S)
         /\ \A s \in Seq(S) : s # <<>> => Head(s) \in S /\ Tail(s) \in Seq(S)
  OBVIOUS

UFrames == [k : {"SABM", "DISC", "UA", "DM"}, f : BOOLEAN, info : Contents \cup {"none", "other"}]
IFrames == [k : {"I"}, f : BOOLEAN, ns : Numbers, nr : Numbers, seg : Segment]
SFrames == [k : {"RR", "REJ"}, f : BOOLEAN, nr : Numbers, cmd : BOOLEAN]

LEMMA FrameKinds ==
  ASSUME NEW f \in Frames
  PROVE  /\ f.k \in {"SABM", "DISC", "UA", "DM"} => f \in UFrames
         /\ f.k = "I" => f \in IFrames
         /\ f.k \in {"RR", "REJ"} => f \in SFrames
         /\ f.k \in {"SABM", "DISC", "UA", "DM", "I", "RR", "REJ"}
         /\ f.f \in BOOLEAN
  BY DEF Frames, UFrames, IFrames, SFrames

LEMMA FramesMade ==
  ASSUME NEW d \in Datalinks, NEW f \in BOOLEAN
  PROVE  /\ \A k \in {"SABM", "DISC", "UA", "DM"}, info \in Contents \cup {"none", "other"} :
              U(k, f, info) \in Frames
         /\ \A ns \in Numbers, seg \in Segment : I(d, ns, f, seg) \in Frames
         /\ \A cmd \in BOOLEAN : RR(d, f, cmd) \in Frames
         /\ REJ(d, f) \in Frames
  BY DEF Datalinks, Frames, U, I, RR, REJ

LEMMA NewStateType ==
  ASSUME NEW d \in Datalinks, NEW s \in States
  PROVE  NewState(d, s) \in Datalinks
  BY DEF NewState, Datalinks

LEMMA NewStateFields ==
  ASSUME NEW d \in Datalinks, NEW s \in States
  PROVE  /\ NewState(d, s).state = s
         /\ \E c \in {"none", d.contres} :
              NewState(d, s) = [d EXCEPT !.state = s, !.contres = c]
<1> DEFINE c == IF d.state = "MF_EST" /\ s # "MF_EST" THEN "none" ELSE d.contres
<1>1. NewState(d, s) = [d EXCEPT !.state = s, !.contres = c]
  BY DEF NewState, Datalinks
<1>2. c \in {"none", d.contres}
  OBVIOUS
<1> HIDE DEF c
<1> QED
  BY <1>1, <1>2 DEF Datalinks

LEMMA SomeFieldsType ==
  ASSUME NEW d \in Datalinks
  PROVE  /\ [d EXCEPT !.rcv = <<>>, !.vs = 0, !.ctr = 0] \in Datalinks
         /\ [d EXCEPT !.rcv = <<>>, !.vs = 0, !.ctr = 0].ctr = 0
         /\ [d EXCEPT !.vs = 0, !.ctr = 0, !.t200 = TRUE] \in Datalinks
         /\ [d EXCEPT !.vs = 0, !.ctr = 0, !.t200 = TRUE].ctr = 0
         /\ \A c \in Contents : [d EXCEPT !.content = c, !.t200 = TRUE] \in Datalinks
         /\ \A c \in Contents : [d EXCEPT !.content = c, !.t200 = TRUE].ctr = d.ctr
<1>1. 0 \in Numbers
  BY LapdAssumption DEF Numbers
<1>2. <<>> \in Seq(Segment) /\ 0 \in Nat
  OBVIOUS
<1>3. /\ [d EXCEPT !.rcv = <<>>, !.vs = 0, !.ctr = 0] \in Datalinks
      /\ [d EXCEPT !.vs = 0, !.ctr = 0, !.t200 = TRUE] \in Datalinks
      /\ \A c \in Contents : [d EXCEPT !.content = c, !.t200 = TRUE] \in Datalinks
  BY <1>1, <1>2 DEF Datalinks
<1>4. /\ [d EXCEPT !.rcv = <<>>, !.vs = 0, !.ctr = 0].ctr = 0
      /\ [d EXCEPT !.vs = 0, !.ctr = 0, !.t200 = TRUE].ctr = 0
      /\ \A c \in Contents : [d EXCEPT !.content = c, !.t200 = TRUE].ctr = d.ctr
  BY DEF Datalinks
<1> QED
  BY <1>3, <1>4

LEMMA FlushType ==
  ASSUME NEW d \in Datalinks
  PROVE  /\ FlushHist(d) \in Datalinks
         /\ FlushSend(d) \in Datalinks
         /\ Stop(d) \in Datalinks
         /\ ToIdle(d) \in Datalinks
<1>0. /\ <<None, None>> \in [1..2 -> Segment \cup {None}]
      /\ <<>> \in Seq(Msgs)
  OBVIOUS
<1>1. ASSUME NEW e \in Datalinks
      PROVE  FlushHist(e) \in Datalinks /\ FlushSend(e) \in Datalinks /\ Stop(e) \in Datalinks
  <2>1. FlushHist(e) \in Datalinks
    BY <1>0 DEF FlushHist, Datalinks
  <2>2. FlushSend(e) \in Datalinks
    BY <1>0 DEF FlushSend, Datalinks
  <2>3. Stop(e) \in Datalinks
    BY DEF Stop, Datalinks
  <2> QED
    BY <2>1, <2>2, <2>3
<1>2. "IDLE" \in States
  BY DEF States
<1> QED
  BY <1>1, <1>2, NewStateType DEF ToIdle

LEMMA ConnectedType ==
  ASSUME NEW d \in Datalinks
  PROVE  Connected(d) \in Datalinks
<1>1. 0 \in Numbers
  BY LapdAssumption DEF Numbers
<1>2. [d EXCEPT !.vs = 0, !.vr = 0, !.va = 0] \in Datalinks
  BY <1>1 DEF Datalinks
<1>3. FlushHist([d EXCEPT !.vs = 0, !.vr = 0, !.va = 0]) \in Datalinks
  BY <1>2, FlushType
<1> QED
  BY <1>3, NewStateType DEF Connected, States

LEMMA LoadedType ==
  ASSUME NEW d \in Datalinks
  PROVE  Loaded(d) \in Datalinks
<1>1. ASSUME d.queue # <<>>
      PROVE  [d EXCEPT !.buf = Head(d.queue), !.queue = Tail(@), !.out = 0] \in Datalinks
  <2>1. d.queue \in Seq(Msgs)
    BY DEF Datalinks
  <2>2. Head(d.queue) \in Msgs /\ Tail(d.queue) \in Seq(Msgs)
    BY <1>1, <2>1
  <2> QED
    BY <2>2 DEF Datalinks
<1>2. [d EXCEPT !.buf = "none", !.out = 0] \in Datalinks
  BY DEF Datalinks
<1> QED
  BY <1>1, <1>2 DEF Loaded

(* What a step of lapd_send_i changes of a data link it has loaded. *)
LEMMA FrameSentFields ==
  ASSUME NEW d \in Datalinks
  PROVE  FrameSent(d) =
           [d EXCEPT !.vs = Inc(d.vs), !.hist = [d.hist EXCEPT ![H(d.vs)] = NextSegment(d)],
                     !.t200 = TRUE, !.out = IF d.hist[H(d.vs)] = None THEN d.out + 1 ELSE d.out]
  BY DEF FrameSent, Datalinks

LEMMA NextSegmentType ==
  ASSUME NEW d \in Datalinks, HasNext(d)
  PROVE  NextSegment(d) \in Segment
<1>1. d.hist[H(d.vs)] \in Segment \cup {None}
  <2>1. d.hist \in [1..2 -> Segment \cup {None}] /\ d.vs \in Numbers
    BY DEF Datalinks
  <2> QED
    BY <2>1, NumbersWrap
<1>2. d.buf \in Msgs \cup {"none"} /\ d.out \in Nat
  BY DEF Datalinks
<1> QED
  BY <1>1, <1>2 DEF HasNext, NextSegment, Segment

LEMMA FrameSentType ==
  ASSUME NEW d \in Datalinks, HasNext(d)
  PROVE  FrameSent(d) \in Datalinks
<1>1. NextSegment(d) \in Segment
  BY NextSegmentType
<1>2. d.vs \in Numbers /\ d.out \in Nat /\ d.hist \in [1..2 -> Segment \cup {None}]
  BY DEF Datalinks
<1>3. [d.hist EXCEPT ![H(d.vs)] = NextSegment(d)] \in [1..2 -> Segment \cup {None}]
  BY <1>1, <1>2
<1>4. Inc(d.vs) \in Numbers
  BY <1>2, NumbersWrap
<1> DEFINE h == [d.hist EXCEPT ![H(d.vs)] = NextSegment(d)]
           o == IF d.hist[H(d.vs)] = None THEN d.out + 1 ELSE d.out
           v == Inc(d.vs)
<1>5. o \in Nat
  BY <1>2
<1>6. FrameSent(d) = [d EXCEPT !.vs = v, !.hist = h, !.t200 = TRUE, !.out = o]
  BY FrameSentFields
<1> HIDE DEF h, o, v
<1>7. h \in [1..2 -> Segment \cup {None}] /\ v \in Numbers
  BY <1>3, <1>4 DEF h, v
<1> QED
  BY <1>5, <1>6, <1>7 DEF Datalinks

LEMMA SendIType ==
  ASSUME NEW d \in Datalinks
  PROVE  /\ SendI(d).d \in Datalinks
         /\ SendI(d).out \in Seq(Frames)
<1> DEFINE l == Loaded(d)
<1>1. l \in Datalinks
  BY LoadedType
<1> HIDE DEF l
<1>2. ASSUME HasNext(l)
      PROVE  FrameSent(l) \in Datalinks /\ <<I(l, l.vs, FALSE, NextSegment(l))>> \in Seq(Frames)
  <2>1. l.vs \in Numbers
    BY <1>1 DEF Datalinks
  <2>2. I(l, l.vs, FALSE, NextSegment(l)) \in Frames
    BY <1>1, <1>2, <2>1, FramesMade, NextSegmentType
  <2>3. <<I(l, l.vs, FALSE, NextSegment(l))>> \in Seq(Frames)
    BY <2>2, ShortSequences
  <2>4. FrameSent(l) \in Datalinks
    BY <1>1, <1>2, FrameSentType
  <2> QED
    BY <2>3, <2>4
<1>3. <<>> \in Seq(Frames)
  OBVIOUS
<1> QED
  BY <1>1, <1>2, <1>3 DEF SendI, l

LEMMA AckedFields ==
  ASSUME NEW d \in Datalinks, NEW nr \in Numbers
  PROVE  /\ Acked(d, nr).hist \in [1..2 -> Segment \cup {None}]
         /\ Acked(d, nr) = [d EXCEPT !.hist = Acked(d, nr).hist]
         /\ \A h \in 1..2 : Acked(d, nr).hist[h] \in {None, d.hist[h]}
  BY DEF Acked, Datalinks

LEMMA AckedSame ==
  ASSUME NEW d \in Datalinks, NEW x \in Datalinks, x.hist = d.hist, x.va = d.va, NEW nr
  PROVE  Acked(x, nr).hist = Acked(d, nr).hist
  BY DEF Acked, Datalinks

LEMMA AcknowledgeFields ==
  ASSUME NEW d \in Datalinks, NEW f, f.nr \in Numbers
  PROVE  \E t \in BOOLEAN :
           Acknowledge(d, f) = [d EXCEPT !.hist = Acked(d, f.nr).hist, !.va = f.nr, !.t200 = t]
<1> DEFINE h == Acked(d, f.nr).hist
<1>1. Acked(d, f.nr) = [d EXCEPT !.hist = h]
  BY AckedFields
<1> DEFINE a == [Acked(d, f.nr) EXCEPT !.va = f.nr]
           reset == d.state # "TIMER_RECOV" /\ (f.k # "REJ" <=> f.nr # d.va)
           t == IF reset THEN f.k # "REJ" /\ a.hist[H(Dec(d.vs))] # None ELSE a.t200
<1>2. Acknowledge(d, f) = [a EXCEPT !.t200 = t]
  BY DEF Acknowledge
<1>3. a = [d EXCEPT !.hist = h, !.va = f.nr]
  BY <1>1 DEF Datalinks
<1>4. a.t200 = d.t200 /\ d.t200 \in BOOLEAN
  BY <1>3 DEF Datalinks
<1>5. t \in BOOLEAN
  BY <1>4
<1> HIDE DEF t, h
<1>6. [a EXCEPT !.t200 = t] = [d EXCEPT !.hist = h, !.va = f.nr, !.t200 = t]
  BY <1>3 DEF Datalinks
<1> QED
  BY <1>2, <1>5, <1>6 DEF h

LEMMA AcknowledgeType ==
  ASSUME NEW d \in Datalinks, NEW f, f.nr \in Numbers
  PROVE  Acknowledge(d, f) \in Datalinks
<1>1. PICK t \in BOOLEAN : Acknowledge(d, f) = [d EXCEPT !.hist = Acked(d, f.nr).hist, !.va = f.nr, !.t200 = t]
  BY AcknowledgeFields
<1>2. Acked(d, f.nr).hist \in [1..2 -> Segment \cup {None}]
  BY AckedFields
<1> QED
  BY <1>1, <1>2 DEF Datalinks

Fit(d) == d \in Datalinks /\ (d.state \in {"SABM_SENT", "DISC_SENT"} => d.ctr <= N200EstRel)

TypeInv ==
  /\ \A e \in Entities : Fit(dl[e])
  /\ dl \in [Entities -> Datalinks]
  /\ pipe \in [Entities -> Seq(Frames)]
  /\ lost \in 0..MaxLost
  /\ view \in [Entities -> {"down", "asked", "up"}]
  /\ failed \in [Entities -> BOOLEAN]
  /\ asked \in [Entities -> 0..MaxEst]
  /\ sent \in [Entities -> Seq(Msgs)]
  /\ got \in [Entities -> Seq(Seq(Segment))]

LEMMA Peers ==
  ASSUME NEW e \in Entities
  PROVE  Peer(e) \in Entities /\ Peer(Peer(e)) = e /\ Peer(e) # e /\ Entities = {e, Peer(e)}
  BY DEF Entities, Peer

LEMMA HeadType ==
  ASSUME TypeInv, NEW e \in Entities, pipe[Peer(e)] # <<>>
  PROVE  /\ Head(pipe[Peer(e)]) \in Frames
         /\ Tail(pipe[Peer(e)]) \in Seq(Frames)
<1>1. pipe[Peer(e)] \in Seq(Frames)
  BY Peers DEF TypeInv
<1> QED
  BY <1>1, ShortSequences

LEMMA ReplyType ==
  ASSUME TypeInv, NEW e \in Entities, pipe[Peer(e)] # <<>>,
         NEW d, Fit(d), NEW out \in Seq(Frames), NEW prims, Reply(e, d, out, prims),
         got' \in [Entities -> Seq(Seq(Segment))]
  PROVE  TypeInv'
<1>1. Tail(pipe[Peer(e)]) \in Seq(Frames) /\ pipe[e] \o out \in Seq(Frames)
  BY HeadType, ShortSequences DEF TypeInv
<1>2. pipe' \in [Entities -> Seq(Frames)]
  BY <1>1, Peers DEF TypeInv, Reply
<1>3. dl' \in [Entities -> Datalinks] /\ \A g \in Entities : Fit(dl'[g])
  BY DEF TypeInv, Reply, Fit
<1>4. view' \in [Entities -> {"down", "asked", "up"}]
  BY DEF TypeInv, Reply, Tell
<1>5. failed' \in [Entities -> BOOLEAN]
  BY DEF TypeInv, Reply, Tell
<1> QED
  BY <1>2, <1>3, <1>4, <1>5 DEF TypeInv, Reply, Fit

LEMMA SendType ==
  ASSUME TypeInv, NEW e \in Entities, NEW d, Fit(d), NEW out \in Seq(Frames), Send(e, d, out)
  PROVE  /\ dl' \in [Entities -> Datalinks]
         /\ \A g \in Entities : Fit(dl'[g])
         /\ pipe' \in [Entities -> Seq(Frames)]
         /\ lost' = lost
<1>1. pipe[e] \o out \in Seq(Frames)
  BY ShortSequences DEF TypeInv
<1> QED
  BY <1>1 DEF TypeInv, Send, Fit

(* Types of the data links that handlers leave. *)
LEMMA FitHelpers ==
  ASSUME NEW d \in Datalinks
  PROVE  /\ Fit(ToIdle(d)) /\ Fit(NewState(d, "IDLE")) /\ Fit(NewState(d, "MF_EST"))
         /\ Fit(NewState(d, "TIMER_RECOV")) /\ Fit(Connected(d))
<1>1. \A s \in States : NewState(d, s) \in Datalinks /\ NewState(d, s).state = s
  BY NewStateType, NewStateFields
<1>2. ToIdle(d) \in Datalinks /\ ToIdle(d).state = "IDLE"
  <2>1. FlushSend(FlushHist(Stop(d))) \in Datalinks
    BY FlushType
  <2> QED
    BY <2>1, FlushType, NewStateFields DEF ToIdle, States
<1>3. Connected(d) \in Datalinks /\ Connected(d).state = "MF_EST"
  <2>1. 0 \in Numbers
    BY LapdAssumption DEF Numbers
  <2>2. [d EXCEPT !.vs = 0, !.vr = 0, !.va = 0] \in Datalinks
    BY <2>1 DEF Datalinks
  <2>3. FlushHist([d EXCEPT !.vs = 0, !.vr = 0, !.va = 0]) \in Datalinks
    BY <2>2, FlushType
  <2> QED
    BY <2>3, ConnectedType, NewStateFields DEF Connected, States
<1> QED
  BY <1>1, <1>2, <1>3 DEF Fit, States

LEMMA ConnectedState ==
  ASSUME NEW d \in Datalinks
  PROVE  Connected(d).state = "MF_EST"
<1>1. 0 \in Numbers
  BY LapdAssumption DEF Numbers
<1>2. [d EXCEPT !.vs = 0, !.vr = 0, !.va = 0] \in Datalinks
  BY <1>1 DEF Datalinks
<1>3. FlushHist([d EXCEPT !.vs = 0, !.vr = 0, !.va = 0]) \in Datalinks
  BY <1>2, FlushType
<1> QED
  BY <1>3, NewStateFields DEF Connected, States

LEMMA SendIState ==
  ASSUME NEW d \in Datalinks
  PROVE  SendI(d).d.state = d.state
<1>1. Loaded(d).state = d.state /\ Loaded(d) \in Datalinks
  BY LoadedType DEF Loaded, Datalinks
<1>2. FrameSent(Loaded(d)).state = Loaded(d).state
  BY <1>1, FrameSentFields DEF Datalinks
<1> QED
  BY <1>1, <1>2 DEF SendI

LEMMA FitSendI ==
  ASSUME NEW d \in Datalinks, d.state \in {"MF_EST", "TIMER_RECOV"}
  PROVE  Fit(SendI(d).d) /\ SendI(d).out \in Seq(Frames)
  BY SendIType, SendIState DEF Fit

LEMMA ErrType ==
  ASSUME NEW d \in Datalinks, NEW n \in 0..2
  PROVE  /\ [d EXCEPT !.err = n] \in Datalinks
         /\ [d EXCEPT !.err = n].state = d.state
         /\ [d EXCEPT !.err = n].ctr = d.ctr
         /\ Fit(d) => Fit([d EXCEPT !.err = n])
<1>1. /\ [d EXCEPT !.err = n] \in Datalinks
      /\ [d EXCEPT !.err = n].state = d.state
      /\ [d EXCEPT !.err = n].ctr = d.ctr
  BY DEF Datalinks
<1> QED
  BY <1>1 DEF Fit

LEMMA TypeInit == LapdInit => TypeInv
<1>1. 0 \in Numbers /\ <<None, None>> \in [1..2 -> Segment \cup {None}]
  BY LapdAssumption DEF Numbers
<1>2. Datalink \in Datalinks /\ Fit(Datalink)
  BY <1>1 DEF Datalink, Datalinks, States, Fit
<1> QED
  BY <1>2, LapdAssumption DEF LapdInit, TypeInv

(* The data link of an entity that has just sent its first SABM. *)
Opened(x, c) ==
  [NewState([x EXCEPT !.rcv = <<>>, !.vs = 0, !.ctr = 0], "SABM_SENT") EXCEPT !.content = c, !.t200 = TRUE]

LEMMA OpenedFields ==
  ASSUME NEW x \in Datalinks, NEW c \in Contents
  PROVE  /\ \E k \in {"none", x.contres} :
              Opened(x, c) = [x EXCEPT !.rcv = <<>>, !.vs = 0, !.ctr = 0, !.state = "SABM_SENT",
                                       !.contres = k, !.content = c, !.t200 = TRUE]
         /\ Fit(Opened(x, c))
<1> DEFINE a == [x EXCEPT !.rcv = <<>>, !.vs = 0, !.ctr = 0]
<1>1. a \in Datalinks /\ a.contres = x.contres
  <2>1. a.contres = x.contres
    BY DEF Datalinks
  <2> QED
    BY <2>1, SomeFieldsType
<1>2. PICK k \in {"none", a.contres} :
        NewState(a, "SABM_SENT") = [a EXCEPT !.state = "SABM_SENT", !.contres = k]
  <2> HIDE DEF a
  <2> QED
    BY <1>1, NewStateFields DEF States
<1> DEFINE n == [a EXCEPT !.state = "SABM_SENT", !.contres = k]
           o == [x EXCEPT !.rcv = <<>>, !.vs = 0, !.ctr = 0, !.state = "SABM_SENT",
                          !.contres = k, !.content = c, !.t200 = TRUE]
<1>3. Opened(x, c) = [n EXCEPT !.content = c, !.t200 = TRUE]
  BY <1>2 DEF Opened
<1>4. [n EXCEPT !.content = c, !.t200 = TRUE] = o
  BY DEF Datalinks
<1>5. o \in Datalinks
  <2>1. 0 \in Numbers /\ <<>> \in Seq(Segment)
    BY LapdAssumption DEF Numbers
  <2>2. k \in Contents \cup {"none", "other"}
    BY <1>1, <1>2 DEF Datalinks
  <2> QED
    BY <2>1, <2>2 DEF Datalinks, States
<1>6. o.ctr = 0
  BY DEF Datalinks
<1>7. Opened(x, c) = o
  BY <1>3, <1>4
<1>8. k \in {"none", x.contres}
  BY <1>1, <1>2
<1>9. Fit(Opened(x, c))
  <2> HIDE DEF o
  <2> QED
    BY <1>5, <1>6, <1>7, LapdAssumption DEF Fit
<1> QED
  BY <1>7, <1>8, <1>9

LEMMA TypeEstReq ==
  ASSUME TypeInv, NEW e \in Entities, EstReq(e)
  PROVE  TypeInv'
<1>1. PICK c \in Contents :
        /\ asked[e] < MaxEst
        /\ LET d == [FlushHist(FlushSend(dl[e])) EXCEPT !.rcv = <<>>, !.vs = 0, !.ctr = 0] IN
           Send(e, [NewState(d, "SABM_SENT") EXCEPT !.content = c, !.t200 = TRUE], <<U("SABM", TRUE, c)>>)
        /\ view' = [view EXCEPT ![e] = "asked"]
        /\ failed' = [failed EXCEPT ![e] = FALSE]
        /\ asked' = [asked EXCEPT ![e] = @ + 1]
        /\ UNCHANGED <<sent, got>>
  BY DEF EstReq
<1> DEFINE x == FlushHist(FlushSend(dl[e]))
           d == Opened(x, c)
<1>2. dl[e] \in Datalinks
  BY DEF TypeInv
<1>3. x \in Datalinks
  BY <1>2, FlushType
<1>6. Fit(d)
  <2> HIDE DEF x
  <2> QED
    BY <1>3, OpenedFields
<1>7. <<U("SABM", TRUE, c)>> \in Seq(Frames)
  BY <1>2, FramesMade, ShortSequences
<1>8. Send(e, d, <<U("SABM", TRUE, c)>>)
  BY <1>1 DEF Opened
<1> HIDE DEF d
<1>9. /\ dl' \in [Entities -> Datalinks]
      /\ \A g \in Entities : Fit(dl'[g])
      /\ pipe' \in [Entities -> Seq(Frames)]
      /\ lost' = lost
  BY <1>6, <1>7, <1>8, SendType
<1>10. asked' \in [Entities -> 0..MaxEst]
  BY <1>1, LapdAssumption DEF TypeInv
<1>11. view' \in [Entities -> {"down", "asked", "up"}] /\ failed' \in [Entities -> BOOLEAN]
  BY <1>1 DEF TypeInv
<1> QED
  BY <1>1, <1>9, <1>10, <1>11 DEF TypeInv, Fit

LEMMA TypeDataReq ==
  ASSUME TypeInv, NEW e \in Entities, NEW m \in Msgs, DataReq(e, m)
  PROVE  TypeInv'
<1> DEFINE b == [dl[e] EXCEPT !.queue = Append(@, m)]
<1>1. dl[e] \in Datalinks /\ dl[e].state \in {"MF_EST", "TIMER_RECOV"}
  BY DEF TypeInv, DataReq
<1>2. b \in Datalinks /\ b.state = dl[e].state
  <2>1. Append(dl[e].queue, m) \in Seq(Msgs)
    BY <1>1 DEF Datalinks
  <2> QED
    BY <1>1, <2>1 DEF Datalinks
<1>3. Send(e, SendI(b).d, SendI(b).out)
  BY DEF DataReq
<1> HIDE DEF b
<1>4. /\ dl' \in [Entities -> Datalinks]
      /\ \A g \in Entities : Fit(dl'[g])
      /\ pipe' \in [Entities -> Seq(Frames)]
      /\ lost' = lost
  BY <1>1, <1>2, <1>3, FitSendI, SendType
<1>5. sent' \in [Entities -> Seq(Msgs)]
  <2>1. Append(sent[e], m) \in Seq(Msgs)
    BY DEF TypeInv
  <2> QED
    BY <2>1 DEF TypeInv, DataReq
<1> QED
  BY <1>4, <1>5 DEF TypeInv, DataReq, Fit

LEMMA TypeRelReq ==
  ASSUME TypeInv, NEW e \in Entities, RelReq(e)
  PROVE  TypeInv'
<1> DEFINE a == NewState(FlushHist(dl[e]), "DISC_SENT")
           d == [a EXCEPT !.vs = 0, !.ctr = 0, !.t200 = TRUE]
<1>1. dl[e] \in Datalinks
  BY DEF TypeInv
<1>2. a \in Datalinks
  BY <1>1, FlushType, NewStateType DEF States
<1>3. Send(e, d, <<U("DISC", TRUE, "none")>>)
  BY DEF RelReq
<1> HIDE DEF a
<1>4. Fit(d)
  <2>1. d \in Datalinks /\ d.ctr = 0
    BY <1>2, SomeFieldsType
  <2> HIDE DEF d
  <2> QED
    BY <2>1, LapdAssumption DEF Fit
<1>5. <<U("DISC", TRUE, "none")>> \in Seq(Frames)
  BY <1>1, FramesMade, ShortSequences
<1> HIDE DEF d
<1>6. /\ dl' \in [Entities -> Datalinks]
      /\ \A g \in Entities : Fit(dl'[g])
      /\ pipe' \in [Entities -> Seq(Frames)]
      /\ lost' = lost
  BY <1>3, <1>4, <1>5, SendType
<1>7. asked' \in [Entities -> 0..MaxEst]
  <2>1. /\ asked \in [Entities -> 0..MaxEst] /\ asked[e] < MaxEst
        /\ asked' = [asked EXCEPT ![e] = asked[e] + 1]
    BY DEF TypeInv, RelReq
  <2>2. asked[e] + 1 \in 0..MaxEst
    BY <2>1, LapdAssumption
  <2> QED
    BY <2>1, <2>2
<1>8. view' \in [Entities -> {"down", "asked", "up"}]
  BY DEF TypeInv, RelReq
<1> QED
  BY <1>6, <1>7, <1>8 DEF TypeInv, RelReq, Fit

LEMMA TypeLocalRelease ==
  ASSUME TypeInv, NEW e \in Entities, LocalRelease(e)
  PROVE  TypeInv'
<1> DEFINE d == IF dl[e].state = "IDLE" THEN dl[e] ELSE ToIdle(dl[e])
<1>1. dl[e] \in Datalinks
  BY DEF TypeInv
<1>2. Fit(d)
  BY <1>1, FitHelpers DEF TypeInv
<1>3. Send(e, d, <<>>)
  BY DEF LocalRelease
<1> HIDE DEF d
<1>4. /\ dl' \in [Entities -> Datalinks]
      /\ \A g \in Entities : Fit(dl'[g])
      /\ pipe' \in [Entities -> Seq(Frames)]
      /\ lost' = lost
  BY <1>2, <1>3, ShortSequences, SendType
<1> QED
  BY <1>4 DEF TypeInv, LocalRelease, Fit

LEMMA TypeSabm ==
  ASSUME TypeInv, NEW e \in Entities, pipe[Peer(e)] # <<>>, Sabm(e)
  PROVE  TypeInv'
<1> DEFINE f == Head(pipe[Peer(e)])
           d == [dl[e] EXCEPT !.err = 0]
           c == Connected(d)
           cr == [c EXCEPT !.contres = IF e = "bts" /\ f.info # "none" THEN f.info ELSE @]
           ua == <<U("UA", f.f, f.info)>>
           dm == <<U("DM", f.f, "none")>>
<1>1. f.k = "SABM" /\ got' = got
  BY DEF Sabm, Quiet
<1>2. f \in UFrames
  BY <1>1, HeadType, FrameKinds
<1>3. f.f \in BOOLEAN /\ f.info \in Contents \cup {"none", "other"}
  BY <1>2 DEF UFrames
<1>4. Fit(d) /\ d \in Datalinks
  <2>1. dl[e] \in Datalinks /\ Fit(dl[e])
    BY DEF TypeInv
  <2>2. 0 \in 0..2
    OBVIOUS
  <2> QED
    BY <2>1, <2>2, ErrType
<1>5. Fit(cr)
  <2>1. c \in Datalinks /\ c.state = "MF_EST"
    <3>1. c \in Datalinks /\ c.state = "MF_EST"
      BY <1>4, ConnectedType, ConnectedState
    <3> QED
      BY <3>1
  <2> HIDE DEF c, f
  <2> QED
    BY <1>3, <2>1 DEF Datalinks, Fit
<1>6. ua \in Seq(Frames) /\ dm \in Seq(Frames) /\ <<>> \in Seq(Frames)
  BY <1>3, <1>4, FramesMade, ShortSequences
<1>7. Fit(Stop(d))
  <2> HIDE DEF d
  <2> QED
    BY <1>4, FlushType DEF Fit, Stop, Datalinks
<1>8. \/ \E prims : Reply(e, cr, ua, prims)
      \/ \E prims : Reply(e, d, <<>>, prims)
      \/ \E prims : Reply(e, d, ua, prims)
      \/ \E prims : Reply(e, Stop(d), dm, prims)
  BY DEF Sabm
<1>9. got' \in [Entities -> Seq(Seq(Segment))]
  BY <1>1 DEF TypeInv
<1> HIDE DEF f, d, cr, ua, dm
<1> QED
  BY <1>4, <1>5, <1>6, <1>7, <1>8, <1>9, ReplyType

LEMMA TypeDm ==
  ASSUME TypeInv, NEW e \in Entities, pipe[Peer(e)] # <<>>, Dm(e)
  PROVE  TypeInv'
<1>1. Fit(dl[e]) /\ dl[e] \in Datalinks
  BY DEF TypeInv
<1>2. Stop(dl[e]) \in Datalinks
  BY <1>1, FlushType
<1>3. Fit(ToIdle(dl[e])) /\ Fit(NewState(Stop(dl[e]), "IDLE"))
  BY <1>1, <1>2, FitHelpers
<1>4. \E d \in {dl[e], ToIdle(dl[e]), NewState(Stop(dl[e]), "IDLE")} : \E prims : Reply(e, d, <<>>, prims)
  BY DEF Dm
<1>5. got' \in [Entities -> Seq(Seq(Segment))]
  BY DEF TypeInv, Dm, Quiet
<1> QED
  BY <1>1, <1>3, <1>4, <1>5, ReplyType, ShortSequences

LEMMA TypeDisc ==
  ASSUME TypeInv, NEW e \in Entities, pipe[Peer(e)] # <<>>, Disc(e)
  PROVE  TypeInv'
<1> DEFINE f == Head(pipe[Peer(e)])
           d == [FlushSend(FlushHist(dl[e])) EXCEPT !.err = 0]
<1>1. f.f \in BOOLEAN
  BY HeadType, FrameKinds
<1>2. d \in Datalinks /\ d.state = dl[e].state /\ d.ctr = dl[e].ctr
  <2>1. dl[e] \in Datalinks
    BY DEF TypeInv
  <2>2. FlushSend(FlushHist(dl[e])) \in Datalinks
    BY <2>1, FlushType
  <2>3. d \in Datalinks
    <3> DEFINE y == FlushSend(FlushHist(dl[e]))
    <3>1. y \in Datalinks /\ d = [y EXCEPT !.err = 0] /\ 0 \in 0..2
      BY <2>2
    <3> HIDE DEF y, d
    <3> QED
      BY <3>1, ZenonT(60) DEF Datalinks
  <2>4. d.state = FlushSend(FlushHist(dl[e])).state /\ d.ctr = FlushSend(FlushHist(dl[e])).ctr
    BY <2>2 DEF Datalinks
  <2>5. /\ FlushSend(FlushHist(dl[e])).state = dl[e].state
        /\ FlushSend(FlushHist(dl[e])).ctr = dl[e].ctr
    BY <2>1 DEF FlushSend, FlushHist, Datalinks
  <2> QED
    BY <2>3, <2>4, <2>5
<1>3. Fit(d)
  <2> HIDE DEF d
  <2> QED
    BY <1>2 DEF TypeInv, Fit
<1>4. Fit(NewState(Stop(d), "IDLE"))
  <2> HIDE DEF d
  <2> QED
    BY <1>2, FlushType, FitHelpers
<1>5. /\ <<U("DM", f.f, "none")>> \in Seq(Frames)
      /\ <<U("UA", f.f, "none")>> \in Seq(Frames)
  BY <1>1, <1>2, FramesMade, ShortSequences
<1>6. \/ \E prims : Reply(e, d, <<U("DM", f.f, "none")>>, prims)
      \/ \E prims : Reply(e, NewState(Stop(d), "IDLE"), <<U("DM", f.f, "none")>>, prims)
      \/ \E prims : Reply(e, NewState(Stop(d), "IDLE"), <<U("UA", f.f, "none")>>, prims)
  BY DEF Disc
<1>7. got' \in [Entities -> Seq(Seq(Segment))]
  BY DEF TypeInv, Disc, Quiet
<1> HIDE DEF f, d
<1> QED
  BY <1>3, <1>4, <1>5, <1>6, <1>7, ReplyType

LEMMA TypeUa ==
  ASSUME TypeInv, NEW e \in Entities, pipe[Peer(e)] # <<>>, Ua(e)
  PROVE  TypeInv'
<1> DEFINE c == Connected(Stop(dl[e]))
<1>1. Fit(dl[e]) /\ dl[e] \in Datalinks
  BY DEF TypeInv
<1>2. Stop(dl[e]) \in Datalinks
  BY <1>1, FlushType
<1>3. Fit(ToIdle(dl[e]))
  BY <1>1, FitHelpers
<1>4. Fit(SendI(c).d) /\ SendI(c).out \in Seq(Frames)
  <2>1. c \in Datalinks /\ c.state = "MF_EST"
    BY <1>2, ConnectedType, ConnectedState
  <2> QED
    BY <2>1, FitSendI
<1>5. \/ \E d \in {dl[e], ToIdle(dl[e])} : \E prims : Reply(e, d, <<>>, prims)
      \/ \E prims : Reply(e, SendI(c).d, SendI(c).out, prims)
  BY DEF Ua
<1>6. got' \in [Entities -> Seq(Seq(Segment))]
  BY DEF TypeInv, Ua, Quiet
<1> QED
  BY <1>1, <1>3, <1>4, <1>5, <1>6, ReplyType, ShortSequences

LEMMA PolledType ==
  ASSUME NEW d \in Datalinks, NEW f, f.f \in BOOLEAN
  PROVE  DmIfPolled(d, f) \in Seq(Frames)
<1>1. U("DM", f.f, "none") \in Frames
  BY FramesMade
<1>2. <<U("DM", f.f, "none")>> \in Seq(Frames) /\ <<>> \in Seq(Frames)
  BY <1>1, ShortSequences
<1> QED
  BY <1>2 DEF DmIfPolled

LEMMA RRType ==
  ASSUME NEW d \in Datalinks, NEW f \in BOOLEAN, NEW cmd \in BOOLEAN
  PROVE  <<RR(d, f, cmd)>> \in Seq(Frames)
<1>1. RR(d, f, cmd) \in Frames
  BY FramesMade
<1> QED
  BY <1>1, ShortSequences

LEMMA REJType ==
  ASSUME NEW d \in Datalinks, NEW f \in BOOLEAN
  PROVE  <<REJ(d, f)>> \in Seq(Frames)
<1>1. REJ(d, f) \in Frames
  BY FramesMade
<1> QED
  BY <1>1, ShortSequences

(* What the handlers of supervisory and I frames make of a data link that is
   established, before they go on sending. *)
AfterRR(d, f) ==
  IF ~f.cmd /\ f.f /\ d.state = "TIMER_RECOV"
  THEN NewState(Stop([Acknowledge(d, f) EXCEPT !.vs = f.nr]), "MF_EST") ELSE Acknowledge(d, f)
AnswerRR(d, f) == IF f.cmd /\ f.f /\ d.err = 0 THEN <<RR(Acknowledge(d, f), TRUE, FALSE)>> ELSE <<>>

Rejected(d, f) == [Acknowledge(d, f) EXCEPT !.vs = f.nr, !.va = f.nr]
AfterREJ(d, f) ==
  IF d.state # "TIMER_RECOV" THEN Stop(Rejected(d, f))
  ELSE IF f.f THEN NewState(Stop(Rejected(d, f)), "MF_EST") ELSE Rejected(d, f)

AfterOdd(d, f) == Acknowledge([d EXCEPT !.err = IF @ = 1 THEN 2 ELSE 1], f)
AnswerOdd(d, f) == IF d.err = 1 THEN <<>> ELSE <<REJ(d, f.f)>>

AfterNext(d, f) ==
  [Acknowledge([d EXCEPT !.err = 0, !.vr = Inc(@)], f) EXCEPT
     !.rcv = IF More(f.seg) THEN Append(@, f.seg) ELSE <<>>]
AnswerNext(d, f, out) ==
  IF f.f THEN <<RR(AfterNext(d, f), TRUE, FALSE)>>
  ELSE IF out = <<>> THEN <<RR(AfterNext(d, f), FALSE, FALSE)>> ELSE <<>>

Alarm(c) == IF c THEN {"MDL_ERROR"} ELSE {}
Unexpected(d, f) == ~f.cmd /\ f.f /\ d.state # "TIMER_RECOV"

LEMMA SupervisoryCases ==
  ASSUME NEW e, Supervisory(e)
  PROVE  LET f == Head(pipe[Peer(e)])
             d == dl[e]
         IN /\ f.k \in {"RR", "REJ"} /\ got' = got
            /\ \/ /\ d.state \in Inactive
                  /\ Reply(e, d, DmIfPolled(d, f), Alarm(Unexpected(d, f)))
               \/ /\ d.state \notin Inactive /\ f.k = "RR"
                  /\ Reply(e, SendI(AfterRR(d, f)).d, AnswerRR(d, f) \o SendI(AfterRR(d, f)).out,
                           Alarm(Unexpected(d, f) \/ SeqError(d, f.nr)))
               \/ /\ d.state \notin Inactive /\ f.k = "REJ"
                  /\ Reply(e, SendI(AfterREJ(d, f)).d, SendI(AfterREJ(d, f)).out,
                           Alarm(Unexpected(d, f) \/ SeqError(d, f.nr)))
<1>1. \E f \in {Head(pipe[Peer(e)])} :
        /\ f.k \in {"RR", "REJ"}
        /\ \/ /\ dl[e].state \in Inactive
              /\ Reply(e, dl[e], DmIfPolled(dl[e], f), Alarm(Unexpected(dl[e], f)))
           \/ /\ dl[e].state \notin Inactive /\ f.k = "RR"
              /\ Reply(e, SendI(AfterRR(dl[e], f)).d, AnswerRR(dl[e], f) \o SendI(AfterRR(dl[e], f)).out,
                       Alarm(Unexpected(dl[e], f) \/ SeqError(dl[e], f.nr)))
           \/ /\ dl[e].state \notin Inactive /\ f.k = "REJ"
              /\ Reply(e, SendI(AfterREJ(dl[e], f)).d, SendI(AfterREJ(dl[e], f)).out,
                       Alarm(Unexpected(dl[e], f) \/ SeqError(dl[e], f.nr)))
        /\ Quiet
  BY DEF Supervisory, AfterRR, AnswerRR, Rejected, AfterREJ, Alarm, Unexpected
<1> QED
  BY <1>1 DEF Quiet

LEMMA InformationCases ==
  ASSUME NEW e, Information(e)
  PROVE  LET f == Head(pipe[Peer(e)])
             d == dl[e]
         IN /\ f.k = "I"
            /\ \/ /\ d.state \in Inactive
                  /\ Reply(e, d, DmIfPolled(d, f), {})
                  /\ got' = got
               \/ /\ d.state \notin Inactive /\ ~Expected(d, f)
                  /\ Reply(e, SendI(AfterOdd(d, f)).d, AnswerOdd(d, f) \o SendI(AfterOdd(d, f)).out,
                           Alarm(SeqError(d, f.nr)))
                  /\ got' = got
               \/ /\ d.state \notin Inactive /\ Expected(d, f)
                  /\ Reply(e, SendI(AfterNext(d, f)).d,
                           AnswerNext(d, f, SendI(AfterNext(d, f)).out) \o SendI(AfterNext(d, f)).out,
                           Alarm(SeqError(d, f.nr)))
                  /\ got' = IF More(f.seg) THEN got
                            ELSE [got EXCEPT ![e] = Append(@, Append(d.rcv, f.seg))]
<1>1. \E f \in {Head(pipe[Peer(e)])} :
        /\ f.k = "I"
        /\ \/ /\ dl[e].state \in Inactive
              /\ Reply(e, dl[e], DmIfPolled(dl[e], f), {})
              /\ Quiet
           \/ /\ dl[e].state \notin Inactive /\ ~Expected(dl[e], f)
              /\ Reply(e, SendI(AfterOdd(dl[e], f)).d, AnswerOdd(dl[e], f) \o SendI(AfterOdd(dl[e], f)).out,
                       Alarm(SeqError(dl[e], f.nr)))
              /\ Quiet
           \/ /\ dl[e].state \notin Inactive /\ Expected(dl[e], f)
              /\ Reply(e, SendI(AfterNext(dl[e], f)).d,
                       AnswerNext(dl[e], f, SendI(AfterNext(dl[e], f)).out) \o SendI(AfterNext(dl[e], f)).out,
                       Alarm(SeqError(dl[e], f.nr)))
              /\ got' = IF More(f.seg) THEN got
                        ELSE [got EXCEPT ![e] = Append(@, Append(dl[e].rcv, f.seg))]
  BY DEF Information, AfterOdd, AnswerOdd, AfterNext, AnswerNext, Alarm
<1> QED
  BY <1>1 DEF Quiet


Established == {"MF_EST", "TIMER_RECOV"}

(* Fields that no handler but those of establishment and release changes. *)
SameLink(a, d) ==
  /\ a.content = d.content /\ a.contres = d.contres /\ a.ctr = d.ctr
  /\ a.queue = d.queue /\ a.buf = d.buf /\ a.out = d.out

LEMMA ActiveStates ==
  ASSUME NEW d \in Datalinks
  PROVE  d.state \notin Inactive <=> d.state \in Established
  BY DEF Datalinks, States, Inactive, Established

LEMMA AcknowledgeKeeps ==
  ASSUME NEW d \in Datalinks, NEW f, f.nr \in Numbers
  PROVE  /\ Acknowledge(d, f) \in Datalinks
         /\ Acknowledge(d, f).state = d.state
         /\ Acknowledge(d, f).vs = d.vs
         /\ Acknowledge(d, f).vr = d.vr
         /\ Acknowledge(d, f).va = f.nr
         /\ Acknowledge(d, f).hist = Acked(d, f.nr).hist
         /\ Acknowledge(d, f).rcv = d.rcv
         /\ Acknowledge(d, f).err = d.err
         /\ SameLink(Acknowledge(d, f), d)
<1> DEFINE h == Acked(d, f.nr).hist
           n == f.nr
           a == Acknowledge(d, f)
<1>1. PICK t \in BOOLEAN : a = [d EXCEPT !.hist = h, !.va = n, !.t200 = t]
  BY AcknowledgeFields
<1>2. a \in Datalinks
  BY AcknowledgeType
<1> HIDE DEF h, n, a
<1>3. /\ a.state = d.state /\ a.vs = d.vs /\ a.vr = d.vr /\ a.va = n /\ a.hist = h
      /\ a.rcv = d.rcv /\ a.err = d.err /\ SameLink(a, d)
  BY <1>1, <1>2 DEF Datalinks, SameLink
<1> QED
  BY <1>2, <1>3 DEF h, n, a

LEMMA StopKeeps ==
  ASSUME NEW d \in Datalinks
  PROVE  /\ Stop(d) \in Datalinks
         /\ Stop(d).state = d.state /\ Stop(d).vs = d.vs /\ Stop(d).vr = d.vr /\ Stop(d).va = d.va
         /\ Stop(d).hist = d.hist /\ Stop(d).rcv = d.rcv /\ Stop(d).err = d.err
         /\ SameLink(Stop(d), d)
         /\ Stop(d).t200 = FALSE
  BY DEF Stop, Datalinks, SameLink

LEMMA NewStateKeeps ==
  ASSUME NEW d \in Datalinks, NEW s \in States
  PROVE  /\ NewState(d, s) \in Datalinks
         /\ NewState(d, s).state = s
         /\ NewState(d, s).vs = d.vs /\ NewState(d, s).vr = d.vr /\ NewState(d, s).va = d.va
         /\ NewState(d, s).hist = d.hist /\ NewState(d, s).rcv = d.rcv /\ NewState(d, s).err = d.err
         /\ NewState(d, s).queue = d.queue /\ NewState(d, s).buf = d.buf /\ NewState(d, s).out = d.out
         /\ NewState(d, s).content = d.content /\ NewState(d, s).ctr = d.ctr
         /\ NewState(d, s).t200 = d.t200
         /\ NewState(d, s).contres = IF d.state = "MF_EST" /\ s # "MF_EST" THEN "none" ELSE d.contres
<1> DEFINE c == IF d.state = "MF_EST" /\ s # "MF_EST" THEN "none" ELSE d.contres
           n == NewState(d, s)
<1>1. n = [d EXCEPT !.state = s, !.contres = c]
  BY DEF NewState, Datalinks
<1>2. n \in Datalinks
  BY NewStateType
<1> HIDE DEF c, n
<1>3. /\ n.state = s /\ n.vs = d.vs /\ n.vr = d.vr /\ n.va = d.va /\ n.hist = d.hist /\ n.rcv = d.rcv
      /\ n.err = d.err /\ n.queue = d.queue /\ n.buf = d.buf /\ n.out = d.out
      /\ n.content = d.content /\ n.ctr = d.ctr /\ n.t200 = d.t200 /\ n.contres = c
  BY <1>1 DEF Datalinks
<1> QED
  BY <1>2, <1>3 DEF n, c

(* A response with the F bit ends the recovery. *)
Ends(d, f) == ~f.cmd /\ f.f /\ d.state = "TIMER_RECOV"

LEMMA AfterRRFields ==
  ASSUME NEW d \in Datalinks, NEW f, f.nr \in Numbers
  PROVE  /\ AfterRR(d, f) \in Datalinks
         /\ AfterRR(d, f).state = IF Ends(d, f) THEN "MF_EST" ELSE d.state
         /\ AfterRR(d, f).vs = IF Ends(d, f) THEN f.nr ELSE d.vs
         /\ AfterRR(d, f).vr = d.vr
         /\ AfterRR(d, f).va = f.nr
         /\ AfterRR(d, f).hist = Acked(d, f.nr).hist
         /\ AfterRR(d, f).rcv = d.rcv
         /\ AfterRR(d, f).err = d.err
         /\ SameLink(AfterRR(d, f), d)
<1> DEFINE a == Acknowledge(d, f)
           v == [a EXCEPT !.vs = f.nr]
           b == NewState(Stop(v), "MF_EST")
<1>1. /\ a \in Datalinks /\ a.state = d.state /\ a.vs = d.vs /\ a.vr = d.vr /\ a.va = f.nr
      /\ a.hist = Acked(d, f.nr).hist /\ a.rcv = d.rcv /\ a.err = d.err /\ SameLink(a, d)
  BY AcknowledgeKeeps
<1> HIDE DEF a
<1>2. /\ v \in Datalinks /\ v.state = a.state /\ v.vs = f.nr /\ v.vr = a.vr /\ v.va = a.va
      /\ v.hist = a.hist /\ v.rcv = a.rcv /\ v.err = a.err /\ SameLink(v, a)
  BY <1>1 DEF Datalinks, SameLink
<1> HIDE DEF v
<1>3. Ends(d, f) => /\ b \in Datalinks /\ b.state = "MF_EST" /\ b.vs = v.vs /\ b.vr = v.vr /\ b.va = v.va
                    /\ b.hist = v.hist /\ b.rcv = v.rcv /\ b.err = v.err /\ SameLink(b, v)
  <2> DEFINE w == Stop(v)
  <2>1. /\ w \in Datalinks /\ w.state = v.state /\ w.vs = v.vs /\ w.vr = v.vr /\ w.va = v.va
        /\ w.hist = v.hist /\ w.rcv = v.rcv /\ w.err = v.err /\ SameLink(w, v)
    BY <1>2, StopKeeps
  <2> HIDE DEF w
  <2>2. b = NewState(w, "MF_EST")
    BY DEF w
  <2> HIDE DEF b
  <2> QED
    BY <1>1, <1>2, <2>1, <2>2, NewStateKeeps DEF States, SameLink, Ends
<1>4. AfterRR(d, f) = IF Ends(d, f) THEN b ELSE a
  BY DEF AfterRR, Ends, a, v
<1> HIDE DEF b
<1> QED
  BY <1>1, <1>2, <1>3, <1>4 DEF SameLink

LEMMA AfterREJFields ==
  ASSUME NEW d \in Datalinks, NEW f, f.nr \in Numbers
  PROVE  /\ AfterREJ(d, f) \in Datalinks
         /\ AfterREJ(d, f).state = IF f.f THEN IF d.state = "TIMER_RECOV" THEN "MF_EST" ELSE d.state ELSE d.state
         /\ AfterREJ(d, f).vs = f.nr
         /\ AfterREJ(d, f).vr = d.vr
         /\ AfterREJ(d, f).va = f.nr
         /\ AfterREJ(d, f).hist = Acked(d, f.nr).hist
         /\ AfterREJ(d, f).rcv = d.rcv
         /\ AfterREJ(d, f).err = d.err
         /\ SameLink(AfterREJ(d, f), d)
<1> DEFINE a == Acknowledge(d, f)
           v == Rejected(d, f)
           w == Stop(v)
           b == NewState(w, "MF_EST")
<1>1. /\ a \in Datalinks /\ a.state = d.state /\ a.vs = d.vs /\ a.vr = d.vr /\ a.va = f.nr
      /\ a.hist = Acked(d, f.nr).hist /\ a.rcv = d.rcv /\ a.err = d.err /\ SameLink(a, d)
  BY AcknowledgeKeeps
<1> HIDE DEF a
<1>2. /\ v \in Datalinks /\ v.state = a.state /\ v.vs = f.nr /\ v.vr = a.vr /\ v.va = f.nr
      /\ v.hist = a.hist /\ v.rcv = a.rcv /\ v.err = a.err /\ SameLink(v, a)
  <2>1. v = [a EXCEPT !.vs = f.nr, !.va = f.nr]
    BY DEF Rejected, a
  <2> HIDE DEF v
  <2> QED
    BY <1>1, <2>1 DEF Datalinks, SameLink
<1> HIDE DEF v
<1>3. /\ w \in Datalinks /\ w.state = v.state /\ w.vs = v.vs /\ w.vr = v.vr /\ w.va = v.va
      /\ w.hist = v.hist /\ w.rcv = v.rcv /\ w.err = v.err /\ SameLink(w, v)
  BY <1>2, StopKeeps
<1> HIDE DEF w
<1>4. d.state = "TIMER_RECOV" =>
        /\ b \in Datalinks /\ b.state = "MF_EST" /\ b.vs = v.vs /\ b.vr = v.vr /\ b.va = v.va
        /\ b.hist = v.hist /\ b.rcv = v.rcv /\ b.err = v.err /\ SameLink(b, v)
  BY <1>1, <1>2, <1>3, NewStateKeeps DEF States, SameLink
<1>5. AfterREJ(d, f) = IF d.state # "TIMER_RECOV" THEN w ELSE IF f.f THEN b ELSE v
  BY DEF AfterREJ, v, w
<1> HIDE DEF b
<1> QED
  BY <1>1, <1>2, <1>3, <1>4, <1>5 DEF SameLink

LEMMA AfterOddFields ==
  ASSUME NEW d \in Datalinks, NEW f, f.nr \in Numbers
  PROVE  /\ AfterOdd(d, f) \in Datalinks
         /\ AfterOdd(d, f).state = d.state
         /\ AfterOdd(d, f).vs = d.vs
         /\ AfterOdd(d, f).vr = d.vr
         /\ AfterOdd(d, f).va = f.nr
         /\ AfterOdd(d, f).hist = Acked(d, f.nr).hist
         /\ AfterOdd(d, f).rcv = d.rcv
         /\ SameLink(AfterOdd(d, f), d)
<1> DEFINE n == IF d.err = 1 THEN 2 ELSE 1
           x == [d EXCEPT !.err = n]
<1>1. n \in 0..2
  OBVIOUS
<1> HIDE DEF n
<1>2. /\ x \in Datalinks /\ x.state = d.state /\ x.vs = d.vs /\ x.vr = d.vr /\ x.va = d.va
      /\ x.hist = d.hist /\ x.rcv = d.rcv /\ SameLink(x, d)
  BY <1>1 DEF Datalinks, SameLink
<1>3. AfterOdd(d, f) = Acknowledge(x, f)
  BY DEF AfterOdd, n
<1>4. Acked(x, f.nr).hist = Acked(d, f.nr).hist
  BY AckedSame, <1>2
<1> HIDE DEF x
<1> QED
  BY <1>2, <1>3, <1>4, AcknowledgeKeeps DEF SameLink

LEMMA AfterNextFields ==
  ASSUME NEW d \in Datalinks, NEW f, f.nr \in Numbers, f.seg \in Segment
  PROVE  /\ AfterNext(d, f) \in Datalinks
         /\ AfterNext(d, f).state = d.state
         /\ AfterNext(d, f).vs = d.vs
         /\ AfterNext(d, f).vr = Inc(d.vr)
         /\ AfterNext(d, f).va = f.nr
         /\ AfterNext(d, f).hist = Acked(d, f.nr).hist
         /\ AfterNext(d, f).rcv = IF More(f.seg) THEN Append(d.rcv, f.seg) ELSE <<>>
         /\ AfterNext(d, f).err = 0
         /\ SameLink(AfterNext(d, f), d)
<1> DEFINE n == Inc(d.vr)
           x == [d EXCEPT !.err = 0, !.vr = n]
           a == Acknowledge(x, f)
           r == IF More(f.seg) THEN Append(a.rcv, f.seg) ELSE <<>>
           b == [a EXCEPT !.rcv = r]
<1>1. n \in Numbers
  BY NumbersWrap DEF Datalinks
<1> HIDE DEF n
<1>2. /\ x \in Datalinks /\ x.state = d.state /\ x.vs = d.vs /\ x.vr = n /\ x.va = d.va
      /\ x.hist = d.hist /\ x.rcv = d.rcv /\ x.err = 0 /\ SameLink(x, d)
  <2>1. 0 \in 0..2
    OBVIOUS
  <2>2. x \in Datalinks
    BY <1>1, <2>1 DEF Datalinks
  <2> QED
    BY <2>2 DEF Datalinks, SameLink
<1>3. Acked(x, f.nr).hist = Acked(d, f.nr).hist
  BY AckedSame, <1>2
<1> HIDE DEF x
<1>4. /\ a \in Datalinks /\ a.state = x.state /\ a.vs = x.vs /\ a.vr = x.vr /\ a.va = f.nr
      /\ a.hist = Acked(x, f.nr).hist /\ a.rcv = x.rcv /\ a.err = x.err /\ SameLink(a, x)
  BY <1>2, AcknowledgeKeeps
<1> HIDE DEF a
<1>5. r \in Seq(Segment)
  <2>1. a.rcv \in Seq(Segment)
    BY <1>4 DEF Datalinks
  <2> QED
    BY <2>1
<1>6. r = IF More(f.seg) THEN Append(d.rcv, f.seg) ELSE <<>>
  BY <1>2, <1>4
<1> HIDE DEF r
<1>7. /\ b \in Datalinks /\ b.state = a.state /\ b.vs = a.vs /\ b.vr = a.vr /\ b.va = a.va
      /\ b.hist = a.hist /\ b.rcv = r /\ b.err = a.err /\ SameLink(b, a)
  BY <1>4, <1>5 DEF Datalinks, SameLink
<1>8. AfterNext(d, f) = b
  BY DEF AfterNext, a, x, n, r
<1> HIDE DEF b
<1>9. n = Inc(d.vr)
  BY DEF n
<1>10. /\ b \in Datalinks /\ b.state = d.state /\ b.vs = d.vs /\ b.vr = n /\ b.va = f.nr
       /\ b.hist = Acked(d, f.nr).hist /\ b.rcv = r /\ b.err = 0
  BY <1>2, <1>3, <1>4, <1>7
<1>11. SameLink(b, d)
  BY <1>2, <1>4, <1>7 DEF SameLink
<1> QED
  BY <1>6, <1>8, <1>9, <1>10, <1>11

LEMMA TypeSupervisory ==
  ASSUME TypeInv, NEW e \in Entities, pipe[Peer(e)] # <<>>, Supervisory(e)
  PROVE  TypeInv'
<1> DEFINE f == Head(pipe[Peer(e)])
           d == dl[e]
           alarm == Alarm(Unexpected(d, f) \/ SeqError(d, f.nr))
<1>1. f.k \in {"RR", "REJ"} /\ got' = got
  BY SupervisoryCases
<1>2. f.f \in BOOLEAN /\ f.nr \in Numbers
  <2>1. f \in SFrames
    BY <1>1, HeadType, FrameKinds
  <2> QED
    BY <2>1 DEF SFrames
<1>3. Fit(d) /\ d \in Datalinks /\ got' \in [Entities -> Seq(Seq(Segment))]
  BY <1>1 DEF TypeInv
<1>4. \/ Reply(e, d, DmIfPolled(d, f), Alarm(Unexpected(d, f)))
      \/ /\ d.state \notin Inactive
         /\ Reply(e, SendI(AfterRR(d, f)).d, AnswerRR(d, f) \o SendI(AfterRR(d, f)).out, alarm)
      \/ /\ d.state \notin Inactive
         /\ Reply(e, SendI(AfterREJ(d, f)).d, SendI(AfterREJ(d, f)).out, alarm)
  BY SupervisoryCases
<1> HIDE DEF f, d, alarm
<1>5. CASE Reply(e, d, DmIfPolled(d, f), Alarm(Unexpected(d, f)))
  <2>1. DmIfPolled(d, f) \in Seq(Frames)
    BY <1>2, <1>3, PolledType
  <2> QED
    BY <1>3, <1>5, <2>1, ReplyType
<1>6. CASE /\ d.state \notin Inactive
           /\ Reply(e, SendI(AfterRR(d, f)).d, AnswerRR(d, f) \o SendI(AfterRR(d, f)).out, alarm)
  <2> DEFINE b == AfterRR(d, f)
  <2>1. b \in Datalinks /\ b.state \in {"MF_EST", "TIMER_RECOV"}
    BY <1>2, <1>3, <1>6, ActiveStates, AfterRRFields DEF Established
  <2>2. AnswerRR(d, f) \in Seq(Frames)
    <3>1. <<RR(Acknowledge(d, f), TRUE, FALSE)>> \in Seq(Frames)
      BY <1>2, <1>3, AcknowledgeType, RRType
    <3> QED
      BY <3>1, ShortSequences DEF AnswerRR
  <2>3. Fit(SendI(b).d) /\ SendI(b).out \in Seq(Frames)
    BY <2>1, FitSendI
  <2>4. AnswerRR(d, f) \o SendI(b).out \in Seq(Frames)
    BY <2>2, <2>3, ShortSequences
  <2> QED
    BY <1>3, <1>6, <2>3, <2>4, ReplyType
<1>7. CASE /\ d.state \notin Inactive
           /\ Reply(e, SendI(AfterREJ(d, f)).d, SendI(AfterREJ(d, f)).out, alarm)
  <2> DEFINE b == AfterREJ(d, f)
  <2>1. b \in Datalinks /\ b.state \in {"MF_EST", "TIMER_RECOV"}
    BY <1>2, <1>3, <1>7, ActiveStates, AfterREJFields DEF Established
  <2>2. Fit(SendI(b).d) /\ SendI(b).out \in Seq(Frames)
    BY <2>1, FitSendI
  <2> QED
    BY <1>3, <1>7, <2>2, ReplyType
<1> QED
  BY <1>4, <1>5, <1>6, <1>7

LEMMA TypeInformation ==
  ASSUME TypeInv, NEW e \in Entities, pipe[Peer(e)] # <<>>, Information(e)
  PROVE  TypeInv'
<1> DEFINE f == Head(pipe[Peer(e)])
           d == dl[e]
           odd == SendI(AfterOdd(d, f))
           next == SendI(AfterNext(d, f))
<1>1. f.k = "I"
  BY InformationCases
<1>2. f.f \in BOOLEAN /\ f.nr \in Numbers /\ f.seg \in Segment
  <2>1. f \in IFrames
    BY <1>1, HeadType, FrameKinds
  <2> QED
    BY <2>1 DEF IFrames
<1>3. Fit(d) /\ d \in Datalinks
  BY DEF TypeInv
<1>4. \/ Reply(e, d, DmIfPolled(d, f), {})
      \/ /\ d.state \notin Inactive
         /\ Reply(e, odd.d, AnswerOdd(d, f) \o odd.out, Alarm(SeqError(d, f.nr)))
      \/ /\ d.state \notin Inactive
         /\ Reply(e, next.d, AnswerNext(d, f, next.out) \o next.out, Alarm(SeqError(d, f.nr)))
  BY InformationCases
<1>5. got' \in [Entities -> Seq(Seq(Segment))]
  <2>1. got' \in {got, [got EXCEPT ![e] = Append(@, Append(d.rcv, f.seg))]}
    BY InformationCases
  <2> HIDE DEF f
  <2>2. Append(d.rcv, f.seg) \in Seq(Segment)
    <3>1. d.rcv \in Seq(Segment)
      BY <1>3 DEF Datalinks
    <3> QED
      BY <1>2, <3>1
  <2>3. Append(got[e], Append(d.rcv, f.seg)) \in Seq(Seq(Segment))
    <3>1. got[e] \in Seq(Seq(Segment))
      BY DEF TypeInv
    <3> QED
      BY <2>2, <3>1
  <2> QED
    BY <2>1, <2>3 DEF TypeInv
<1> HIDE DEF f, d
<1>6. CASE Reply(e, d, DmIfPolled(d, f), {})
  <2>1. DmIfPolled(d, f) \in Seq(Frames)
    BY <1>2, <1>3, PolledType
  <2> QED
    BY <1>3, <1>5, <1>6, <2>1, ReplyType
<1>7. CASE /\ d.state \notin Inactive
           /\ Reply(e, odd.d, AnswerOdd(d, f) \o odd.out, Alarm(SeqError(d, f.nr)))
  <2>1. AfterOdd(d, f) \in Datalinks /\ AfterOdd(d, f).state \in {"MF_EST", "TIMER_RECOV"}
    BY <1>2, <1>3, <1>7, ActiveStates, AfterOddFields DEF Established
  <2>2. AnswerOdd(d, f) \in Seq(Frames)
    <3>1. <<REJ(d, f.f)>> \in Seq(Frames)
      BY <1>2, <1>3, REJType
    <3> QED
      BY <3>1, ShortSequences DEF AnswerOdd
  <2>3. Fit(odd.d) /\ odd.out \in Seq(Frames)
    BY <2>1, FitSendI
  <2>4. AnswerOdd(d, f) \o odd.out \in Seq(Frames)
    BY <2>2, <2>3, ShortSequences
  <2> QED
    BY <1>5, <1>7, <2>3, <2>4, ReplyType
<1>8. CASE /\ d.state \notin Inactive
           /\ Reply(e, next.d, AnswerNext(d, f, next.out) \o next.out, Alarm(SeqError(d, f.nr)))
  <2>1. AfterNext(d, f) \in Datalinks /\ AfterNext(d, f).state \in {"MF_EST", "TIMER_RECOV"}
    BY <1>2, <1>3, <1>8, ActiveStates, AfterNextFields DEF Established
  <2>2. Fit(next.d) /\ next.out \in Seq(Frames)
    BY <2>1, FitSendI
  <2>3. AnswerNext(d, f, next.out) \in Seq(Frames)
    <3>1. /\ <<RR(AfterNext(d, f), TRUE, FALSE)>> \in Seq(Frames)
          /\ <<RR(AfterNext(d, f), FALSE, FALSE)>> \in Seq(Frames)
      BY <2>1, RRType
    <3> HIDE DEF next
    <3> QED
      BY <3>1, ShortSequences DEF AnswerNext
  <2>4. AnswerNext(d, f, next.out) \o next.out \in Seq(Frames)
    BY <2>2, <2>3, ShortSequences
  <2> QED
    BY <1>5, <1>8, <2>2, <2>4, ReplyType
<1> QED
  BY <1>4, <1>6, <1>7, <1>8

LEMMA TypeReceive ==
  ASSUME TypeInv, NEW e \in Entities, Receive(e)
  PROVE  TypeInv'
  BY TypeSabm, TypeDm, TypeDisc, TypeUa, TypeSupervisory, TypeInformation DEF Receive

LEMMA TypeT200EstRel ==
  ASSUME TypeInv, NEW e \in Entities, T200EstRel(e)
  PROVE  TypeInv'
<1> DEFINE d == Stop(dl[e])
           again == [d EXCEPT !.ctr = @ + 1, !.t200 = TRUE]
           out == <<U(IF d.state = "SABM_SENT" THEN "SABM" ELSE "DISC", TRUE, d.content)>>
<1>1. dl[e] \in Datalinks
  BY DEF TypeInv
<1>2. d \in Datalinks
  BY <1>1, FlushType
<1>3. /\ d.state \in {"SABM_SENT", "DISC_SENT"}
      /\ IF d.ctr >= N200EstRel
         THEN /\ Send(e, ToIdle(d), <<>>)
              /\ Tell(e, {"MDL_ERROR", IF d.state = "SABM_SENT" THEN "REL_IND" ELSE "REL_CONF"})
         ELSE Send(e, again, out) /\ view' = view /\ failed' = failed
      /\ UNCHANGED <<asked, sent, got>>
  BY DEF T200EstRel
<1> HIDE DEF d
<1>4. d.ctr \in Nat /\ d.content \in Contents \cup {"none"}
  BY <1>2 DEF Datalinks
<1>5. d.ctr < N200EstRel => Fit(again)
  <2> DEFINE c == d.ctr + 1
  <2>1. c \in Nat /\ (d.ctr < N200EstRel => c <= N200EstRel)
    BY <1>4, LapdAssumption
  <2>2. again = [d EXCEPT !.ctr = c, !.t200 = TRUE]
    OBVIOUS
  <2> HIDE DEF c, again
  <2>3. again \in Datalinks /\ again.ctr = c
    BY <1>2, <2>1, <2>2 DEF Datalinks
  <2> QED
    BY <2>1, <2>3 DEF Fit
<1>6. out \in Seq(Frames)
  BY <1>2, <1>4, FramesMade, ShortSequences
<1> HIDE DEF out, again
<1>7. Fit(ToIdle(d))
  BY <1>2, FitHelpers
<1>8. /\ dl' \in [Entities -> Datalinks]
      /\ \A g \in Entities : Fit(dl'[g])
      /\ pipe' \in [Entities -> Seq(Frames)]
      /\ lost' = lost
  <2>1. CASE d.ctr >= N200EstRel
    BY <1>3, <1>7, <2>1, SendType, ShortSequences
  <2>2. CASE d.ctr < N200EstRel
    <3>1. Send(e, again, out)
      BY <1>3, <1>4, <2>2, LapdAssumption
    <3> QED
      BY <1>5, <1>6, <2>2, <3>1, SendType
  <2> QED
    BY <1>4, <2>1, <2>2, LapdAssumption
<1>9. view' \in [Entities -> {"down", "asked", "up"}] /\ failed' \in [Entities -> BOOLEAN]
  BY <1>3 DEF TypeInv, Tell
<1> QED
  BY <1>3, <1>8, <1>9 DEF TypeInv, Fit

(* lapd_t200_cb starts or goes on with the recovery. *)
InRecovery(x) ==
  [NewState(Stop(x), "TIMER_RECOV") EXCEPT !.ctr = IF x.state = "MF_EST" THEN 1 ELSE @ + 1]

LEMMA InRecoveryFields ==
  ASSUME NEW x \in Datalinks, x.state \in Established
  PROVE  /\ InRecovery(x) \in Datalinks
         /\ InRecovery(x).state = "TIMER_RECOV"
         /\ InRecovery(x).vs = x.vs /\ InRecovery(x).vr = x.vr /\ InRecovery(x).va = x.va
         /\ InRecovery(x).hist = x.hist /\ InRecovery(x).rcv = x.rcv /\ InRecovery(x).err = x.err
         /\ InRecovery(x).queue = x.queue /\ InRecovery(x).buf = x.buf /\ InRecovery(x).out = x.out
         /\ InRecovery(x).content = x.content
         /\ InRecovery(x).contres = IF x.state = "MF_EST" THEN "none" ELSE x.contres
<1> DEFINE w == Stop(x)
           n == NewState(w, "TIMER_RECOV")
           c == IF x.state = "MF_EST" THEN 1 ELSE n.ctr + 1
           i == [n EXCEPT !.ctr = c]
<1>1. /\ w \in Datalinks /\ w.state = x.state /\ w.vs = x.vs /\ w.vr = x.vr /\ w.va = x.va
      /\ w.hist = x.hist /\ w.rcv = x.rcv /\ w.err = x.err /\ SameLink(w, x)
  BY StopKeeps
<1> HIDE DEF w
<1>2. /\ n \in Datalinks /\ n.state = "TIMER_RECOV"
      /\ n.vs = w.vs /\ n.vr = w.vr /\ n.va = w.va
      /\ n.hist = w.hist /\ n.rcv = w.rcv /\ n.err = w.err
      /\ n.queue = w.queue /\ n.buf = w.buf /\ n.out = w.out /\ n.content = w.content
      /\ n.contres = IF w.state = "MF_EST" THEN "none" ELSE w.contres
  BY <1>1, NewStateKeeps DEF States
<1> HIDE DEF n
<1>3. c \in Nat
  BY <1>2 DEF Datalinks
<1> HIDE DEF c
<1>4. /\ i \in Datalinks /\ i.state = n.state /\ i.vs = n.vs /\ i.vr = n.vr /\ i.va = n.va
      /\ i.hist = n.hist /\ i.rcv = n.rcv /\ i.err = n.err
      /\ i.queue = n.queue /\ i.buf = n.buf /\ i.out = n.out /\ i.content = n.content
      /\ i.contres = n.contres
  BY <1>2, <1>3 DEF Datalinks
<1>5. InRecovery(x) = i
  BY DEF InRecovery, c, n, w
<1> HIDE DEF i
<1> QED
  BY <1>1, <1>2, <1>4, <1>5 DEF SameLink

Poll(d) ==
  LET last == Dec(d.vs) IN
  IF d.hist[H(last)] # None THEN <<I(d, last, TRUE, d.hist[H(last)])>>
  ELSE IF d.err = 0 THEN <<RR(d, TRUE, TRUE)>> ELSE <<>>

LEMMA RecoveryCases ==
  ASSUME NEW e, T200Recovery(e)
  PROVE  LET d == InRecovery(dl[e])
         IN /\ MayExpire(e)
            /\ dl[e].state \in Established
            /\ \/ d.ctr >= N200 /\ Send(e, d, <<>>) /\ Tell(e, {"MDL_ERROR"})
               \/ /\ ~(d.ctr >= N200)
                  /\ Send(e, [d EXCEPT !.t200 = TRUE], Poll(d))
                  /\ UNCHANGED <<view, failed>>
            /\ UNCHANGED <<asked, sent, got>>
<1>1. /\ MayExpire(e)
      /\ dl[e].state \in {"MF_EST", "TIMER_RECOV"}
      /\ IF InRecovery(dl[e]).ctr >= N200
         THEN Send(e, InRecovery(dl[e]), <<>>) /\ Tell(e, {"MDL_ERROR"})
         ELSE /\ Send(e, [InRecovery(dl[e]) EXCEPT !.t200 = TRUE], Poll(InRecovery(dl[e])))
              /\ UNCHANGED <<view, failed>>
      /\ UNCHANGED <<asked, sent, got>>
  BY DEF T200Recovery, InRecovery, Poll
<1> QED
  BY <1>1 DEF Established

LEMMA TypeT200Recovery ==
  ASSUME TypeInv, NEW e \in Entities, T200Recovery(e)
  PROVE  TypeInv'
<1> DEFINE d == InRecovery(dl[e])
           again == [d EXCEPT !.t200 = TRUE]
<1>1. dl[e] \in Datalinks /\ dl[e].state \in Established
  BY RecoveryCases DEF TypeInv
<1>2. d \in Datalinks /\ d.state = "TIMER_RECOV"
  BY <1>1, InRecoveryFields
<1>3. /\ \/ Send(e, d, <<>>) /\ Tell(e, {"MDL_ERROR"})
         \/ Send(e, again, Poll(d)) /\ UNCHANGED <<view, failed>>
      /\ UNCHANGED <<asked, sent, got>>
  BY RecoveryCases
<1> HIDE DEF d
<1>4. Fit(again)
  BY <1>2 DEF Datalinks, Fit
<1>5. Poll(d) \in Seq(Frames)
  <2> DEFINE last == Dec(d.vs)
  <2>1. last \in Numbers /\ H(last) \in 1..2
    <3>1. d.vs \in Numbers
      BY <1>2 DEF Datalinks
    <3>2. last \in Numbers
      BY <3>1, NumbersWrap
    <3> QED
      BY <3>2, NumbersWrap
  <2> HIDE DEF last
  <2>2. d.hist[H(last)] \in Segment \cup {None}
    BY <1>2, <2>1 DEF Datalinks
  <2>3. d.hist[H(last)] # None => <<I(d, last, TRUE, d.hist[H(last)])>> \in Seq(Frames)
    <3>1. d.hist[H(last)] # None => I(d, last, TRUE, d.hist[H(last)]) \in Frames
      BY <1>2, <2>1, <2>2, FramesMade
    <3> QED
      BY <3>1, ShortSequences
  <2>4. <<RR(d, TRUE, TRUE)>> \in Seq(Frames)
    BY <1>2, FramesMade, ShortSequences
  <2> QED
    BY <2>3, <2>4, ShortSequences DEF Poll, last
<1> HIDE DEF again
<1>6. Fit(d) /\ <<>> \in Seq(Frames)
  BY <1>2, ShortSequences DEF Fit
<1>7. /\ dl' \in [Entities -> Datalinks]
      /\ \A g \in Entities : Fit(dl'[g])
      /\ pipe' \in [Entities -> Seq(Frames)]
      /\ lost' = lost
  BY <1>3, <1>4, <1>5, <1>6, SendType
<1>8. view' \in [Entities -> {"down", "asked", "up"}] /\ failed' \in [Entities -> BOOLEAN]
  BY <1>3 DEF TypeInv, Tell
<1> QED
  BY <1>3, <1>7, <1>8 DEF TypeInv, Fit

LEMMA TypeLose ==
  ASSUME TypeInv, NEW e \in Entities, Lose(e)
  PROVE  TypeInv'
<1>1. pipe[e] \in Seq(Frames) /\ pipe[e] # <<>>
  BY DEF TypeInv, Lose
<1>2. Tail(pipe[e]) \in Seq(Frames)
  BY <1>1, ShortSequences
<1>3. pipe' \in [Entities -> Seq(Frames)] /\ lost' \in 0..MaxLost
  BY <1>2, LapdAssumption DEF TypeInv, Lose
<1> QED
  BY <1>3 DEF TypeInv, Lose, Fit

LEMMA TypeCollide ==
  ASSUME TypeInv, Collide
  PROVE  TypeInv'
<1>1. pipe["ms"] \in Seq(Frames) /\ pipe["ms"] # <<>>
  BY DEF TypeInv, Collide, Entities
<1>2. U("SABM", TRUE, "other") \in Frames
  BY DEF U, Frames
<1>3. <<U("SABM", TRUE, "other")>> \o Tail(pipe["ms"]) \in Seq(Frames)
  BY <1>1, <1>2, ShortSequences
<1>4. pipe' \in [Entities -> Seq(Frames)]
  <2> DEFINE s == <<U("SABM", TRUE, "other")>> \o Tail(pipe["ms"])
  <2>1. pipe' = [pipe EXCEPT !["ms"] = s]
    BY DEF Collide
  <2> HIDE DEF s
  <2>2. s \in Seq(Frames)
    BY <1>3 DEF s
  <2> QED
    BY <2>1, <2>2 DEF TypeInv
<1>5. lost' \in 0..MaxLost
  BY LapdAssumption DEF TypeInv, Collide
<1> QED
  BY <1>4, <1>5 DEF TypeInv, Collide, Fit

(* Nothing is under way. *)
NoneUnderWay == \A x \in Entities : pipe[x] = <<>>

LateInv == late \in 0..MaxLate

(* T200 that does not expire too early. *)
LEMMA InTimeExpiry ==
  ASSUME LateInv, late' = 0, NEW e, MayExpire(e)
  PROVE  NoneUnderWay
  BY LapdAssumption DEF LateInv, MayExpire, NoneUnderWay

LEMMA LateStep ==
  ASSUME LateInv, [LapdNext]_vars
  PROVE  LateInv' /\ (late' = 0 => late = 0)
<1>1. ASSUME NEW e \in Entities, T200(e) PROVE LateInv' /\ (late' = 0 => late = 0)
  BY <1>1, LapdAssumption DEF T200, T200EstRel, T200Recovery, MayExpire, LateInv
<1> QED
  BY <1>1 DEF LapdNext, vars, LateInv

LEMMA TypeStep ==
  ASSUME TypeInv, [LapdNext]_vars
  PROVE  TypeInv'
<1>1. ASSUME NEW e \in Entities, T200(e) PROVE TypeInv'
  BY <1>1, TypeT200EstRel, TypeT200Recovery DEF T200
<1>2. CASE UNCHANGED vars
  BY <1>2 DEF vars, TypeInv, Fit
<1>3. ASSUME NEW e \in Entities, NEW m \in Msgs, DataReq(e, m) PROVE TypeInv'
  BY <1>3, TypeDataReq
<1>4. ASSUME NEW e \in Entities, EstReq(e) \/ RelReq(e) \/ LocalRelease(e) PROVE TypeInv'
  BY <1>4, TypeEstReq, TypeRelReq, TypeLocalRelease
<1>5. ASSUME NEW e \in Entities, Receive(e) \/ Lose(e) PROVE TypeInv'
  BY <1>5, TypeReceive, TypeLose
<1>6. CASE Collide
  BY <1>6, TypeCollide
<1> QED
  BY <1>1, <1>2, <1>3, <1>4, <1>5, <1>6 DEF LapdNext, InTime

(* Types: whatever is sent, lost and retransmitted, sequence numbers stay in
   range, no retry counter of an establishment or release passes its limit
   (lapd_t200_cb compares it before it counts), and only frames of the kinds
   above are sent (lapd_rx_u, lapd_rx_s, lapd_rx_i, lapd_send_i). *)
THEOREM TypesHold == Spec => [](TypeInv /\ LateInv)
<1>1. TypeInv /\ LateInv /\ [LapdNext]_vars => (TypeInv /\ LateInv)'
  BY TypeStep, LateStep
<1>2. LapdInit => LateInv
  BY LapdAssumption DEF LapdInit, LateInv
<1> QED
  BY TypeInit, <1>1, <1>2, PTL DEF Spec

-----------------------------------------------------------------------------
(* Frames under way. *)

Within(s) == {s[i] : i \in 1..Len(s)}
Flying(e) == Within(pipe[e])

LEMMA WithinParts ==
  ASSUME NEW S
  PROVE  /\ Within(<<>>) = {}
         /\ \A x \in S : Within(<<x>>) = {x}
         /\ \A s, t \in Seq(S) : Within(s \o t) = Within(s) \cup Within(t)
         /\ \A s \in Seq(S) : s # <<>> => Head(s) \in Within(s) /\ Within(Tail(s)) \subseteq Within(s)
         /\ \A s \in Seq(S) : Within(s) \subseteq S
<1>1. Within(<<>>) = {}
  BY DEF Within
<1>2. ASSUME NEW x \in S PROVE Within(<<x>>) = {x}
  BY DEF Within
<1>3. ASSUME NEW s \in Seq(S), NEW t \in Seq(S) PROVE Within(s \o t) = Within(s) \cup Within(t)
  <2>1. /\ Len(s) \in Nat /\ Len(t) \in Nat /\ Len(s \o t) = Len(s) + Len(t)
        /\ \A i \in 1..Len(s) : (s \o t)[i] = s[i]
        /\ \A i \in 1..Len(t) : (s \o t)[Len(s) + i] = t[i]
    OBVIOUS
  <2>2. Within(s) \cup Within(t) \subseteq Within(s \o t)
    <3>1. \A i \in 1..Len(s) : i \in 1..Len(s \o t)
      BY <2>1
    <3>2. \A i \in 1..Len(t) : Len(s) + i \in 1..Len(s \o t)
      BY <2>1
    <3> QED
      BY <2>1, <3>1, <3>2 DEF Within
  <2>3. ASSUME NEW i \in 1..Len(s \o t) PROVE (s \o t)[i] \in Within(s) \cup Within(t)
    <3>1. CASE i \in 1..Len(s)
      BY <2>1, <3>1 DEF Within
    <3>2. CASE i \notin 1..Len(s)
      <4>1. i - Len(s) \in 1..Len(t) /\ i = Len(s) + (i - Len(s))
        BY <2>1, <3>2
      <4> QED
        BY <2>1, <4>1 DEF Within
    <3> QED
      BY <3>1, <3>2
  <2> QED
    BY <2>2, <2>3 DEF Within
<1>4. ASSUME NEW s \in Seq(S), s # <<>>
      PROVE  Head(s) \in Within(s) /\ Within(Tail(s)) \subseteq Within(s)
  <2>1. /\ Len(s) \in Nat \ {0} /\ Head(s) = s[1] /\ Len(Tail(s)) = Len(s) - 1
        /\ \A i \in 1..Len(Tail(s)) : Tail(s)[i] = s[i + 1]
    BY <1>4
  <2>2. \A i \in 1..Len(Tail(s)) : i + 1 \in 1..Len(s)
    BY <2>1
  <2> QED
    BY <2>1, <2>2 DEF Within
<1>5. ASSUME NEW s \in Seq(S) PROVE Within(s) \subseteq S
  BY DEF Within
<1> QED
  BY <1>1, <1>2, <1>3, <1>4, <1>5

LEMMA OneFrame ==
  ASSUME NEW f \in Frames
  PROVE  <<f>> \in Seq(Frames) /\ Within(<<f>>) = {f}
  BY ShortSequences, WithinParts

LEMMA NoFrame == <<>> \in Seq(Frames) /\ Within(<<>>) = {}
  BY ShortSequences, WithinParts

(* What a handler that receives a frame makes of the frames under way. *)
LEMMA ReplyFlying ==
  ASSUME TypeInv, NEW e \in Entities, pipe[Peer(e)] # <<>>,
         NEW d, NEW out \in Seq(Frames), NEW prims, Reply(e, d, out, prims)
  PROVE  /\ Flying(e)' = Flying(e) \cup Within(out)
         /\ Flying(Peer(e))' \subseteq Flying(Peer(e))
<1>1. pipe[e] \in Seq(Frames) /\ pipe[Peer(e)] \in Seq(Frames)
  BY Peers DEF TypeInv
<1>2. pipe'[e] = pipe[e] \o out /\ pipe'[Peer(e)] = Tail(pipe[Peer(e)])
  BY Peers DEF Reply, TypeInv
<1>3. Within(pipe[e] \o out) = Within(pipe[e]) \cup Within(out)
  BY <1>1, WithinParts
<1>4. Within(Tail(pipe[Peer(e)])) \subseteq Within(pipe[Peer(e)])
  BY <1>1, WithinParts
<1>5. Flying(e)' = Within(pipe'[e]) /\ Flying(Peer(e))' = Within(pipe'[Peer(e)])
  BY DEF Flying, Within
<1> QED
  BY <1>2, <1>3, <1>4, <1>5 DEF Flying

LEMMA SendFlying ==
  ASSUME TypeInv, NEW e \in Entities, NEW d, NEW out \in Seq(Frames), Send(e, d, out)
  PROVE  /\ Flying(e)' = Flying(e) \cup Within(out)
         /\ Flying(Peer(e))' = Flying(Peer(e))
         /\ pipe'[Peer(e)] = pipe[Peer(e)]
<1>1. pipe[e] \in Seq(Frames) /\ pipe[Peer(e)] \in Seq(Frames)
  BY Peers DEF TypeInv
<1>2. pipe'[e] = pipe[e] \o out /\ pipe'[Peer(e)] = pipe[Peer(e)]
  BY Peers DEF Send, TypeInv
<1>3. Within(pipe[e] \o out) = Within(pipe[e]) \cup Within(out)
  BY <1>1, WithinParts
<1>5. Flying(e)' = Within(pipe'[e]) /\ Flying(Peer(e))' = Within(pipe'[Peer(e)])
  BY DEF Flying, Within
<1> QED
  BY <1>2, <1>3, <1>5 DEF Flying

(* What lapd_send_i leaves alone, and what it sends. *)
LEMMA SendIKeeps ==
  ASSUME NEW d \in Datalinks
  PROVE  /\ SendI(d).d \in Datalinks
         /\ SendI(d).d.state = d.state /\ SendI(d).d.vr = d.vr /\ SendI(d).d.va = d.va
         /\ SendI(d).d.rcv = d.rcv /\ SendI(d).d.err = d.err /\ SendI(d).d.ctr = d.ctr
         /\ SendI(d).d.content = d.content /\ SendI(d).d.contres = d.contres
         /\ \A f \in Within(SendI(d).out) : f.k = "I"
<1> DEFINE l == Loaded(d)
           s == FrameSent(l)
           i == I(l, l.vs, FALSE, NextSegment(l))
<1>1. /\ l \in Datalinks /\ l.state = d.state /\ l.vr = d.vr /\ l.va = d.va /\ l.rcv = d.rcv
      /\ l.err = d.err /\ l.ctr = d.ctr /\ l.content = d.content /\ l.contres = d.contres
  <2>1. l \in Datalinks
    BY LoadedType
  <2> QED
    BY <2>1 DEF Loaded, Datalinks
<1> HIDE DEF l
<1>2. /\ s.state = l.state /\ s.vr = l.vr /\ s.va = l.va /\ s.rcv = l.rcv
      /\ s.err = l.err /\ s.ctr = l.ctr /\ s.content = l.content /\ s.contres = l.contres
  <2> DEFINE v == Inc(l.vs)
             h == [l.hist EXCEPT ![H(l.vs)] = NextSegment(l)]
             o == IF l.hist[H(l.vs)] = None THEN l.out + 1 ELSE l.out
  <2>1. s = [l EXCEPT !.vs = v, !.hist = h, !.t200 = TRUE, !.out = o]
    BY <1>1, FrameSentFields
  <2> HIDE DEF v, h, o, s
  <2> QED
    BY <1>1, <2>1 DEF Datalinks
<1>3. Within(<<>>) = {} /\ Within(<<i>>) = {i}
  BY WithinParts
<1>4. i.k = "I"
  BY DEF I
<1>5. SendI(d).d \in {d, l, s} /\ SendI(d).out \in {<<>>, <<i>>}
  BY DEF SendI, l
<1>6. SendI(d).d \in Datalinks
  BY SendIType
<1> HIDE DEF s, i
<1>7. \A f \in Within(SendI(d).out) : f.k = "I"
  BY <1>3, <1>4, <1>5
<1> QED
  BY <1>1, <1>2, <1>5, <1>6, <1>7

(* Handlers of received frames send no commands of establishment and release;
   and an entity that waits for its UA answers an SABM only. *)
ReplyShape(e, d, out) ==
  /\ out \in Seq(Frames)
  /\ \A f \in Within(out) : f.k \notin {"SABM", "DISC"}
  /\ d.state = "SABM_SENT" => /\ dl[e].state = "SABM_SENT" /\ d.content = dl[e].content
                              /\ Head(pipe[Peer(e)]).k # "SABM" => out = <<>>

LEMMA PolledShape ==
  ASSUME TypeInv, NEW e \in Entities, NEW f, f.f \in BOOLEAN
  PROVE  ReplyShape(e, dl[e], DmIfPolled(dl[e], f))
<1>1. dl[e] \in Datalinks
  BY DEF TypeInv
<1>2. U("DM", f.f, "none") \in Frames /\ U("DM", f.f, "none").k = "DM"
  BY <1>1, FramesMade DEF U
<1>3. Within(<<U("DM", f.f, "none")>>) = {U("DM", f.f, "none")} /\ Within(<<>>) = {}
  BY <1>2, WithinParts
<1>4. \A g \in Within(DmIfPolled(dl[e], f)) : g.k = "DM"
  BY <1>2, <1>3 DEF DmIfPolled
<1>5. dl[e].state = "SABM_SENT" => DmIfPolled(dl[e], f) = <<>>
  BY DEF DmIfPolled
<1> QED
  BY <1>1, <1>4, <1>5, PolledType DEF ReplyShape

LEMMA AnswerRRShape ==
  ASSUME NEW d \in Datalinks, NEW f, f.nr \in Numbers
  PROVE  /\ AnswerRR(d, f) \in Seq(Frames)
         /\ \A g \in Within(AnswerRR(d, f)) : g.k = "RR"
<1> DEFINE r == RR(Acknowledge(d, f), TRUE, FALSE)
<1>1. Acknowledge(d, f) \in Datalinks
  BY AcknowledgeType
<1>2. r \in Frames /\ r.k = "RR" /\ <<r>> \in Seq(Frames) /\ <<>> \in Seq(Frames)
  <2>1. r \in Frames /\ r.k = "RR"
    BY <1>1, FramesMade DEF RR
  <2> QED
    BY <2>1, ShortSequences
<1>3. AnswerRR(d, f) \in {<<r>>, <<>>}
  BY DEF AnswerRR
<1> HIDE DEF r
<1>4. Within(<<r>>) = {r} /\ Within(<<>>) = {}
  BY <1>2, WithinParts
<1> QED
  BY <1>2, <1>3, <1>4

LEMMA AnswerOddShape ==
  ASSUME NEW d \in Datalinks, NEW f, f.f \in BOOLEAN
  PROVE  /\ AnswerOdd(d, f) \in Seq(Frames)
         /\ \A g \in Within(AnswerOdd(d, f)) : g.k \in {"RR", "REJ"}
<1> DEFINE r == REJ(d, f.f)
<1>2. r \in Frames /\ r.k = "REJ" /\ <<r>> \in Seq(Frames) /\ <<>> \in Seq(Frames)
  <2>1. r \in Frames /\ r.k = "REJ"
    BY FramesMade DEF REJ
  <2> QED
    BY <2>1, ShortSequences
<1>3. AnswerOdd(d, f) \in {<<r>>, <<>>}
  BY DEF AnswerOdd
<1> HIDE DEF r
<1>4. Within(<<r>>) = {r} /\ Within(<<>>) = {}
  BY <1>2, WithinParts
<1> QED
  BY <1>2, <1>3, <1>4

LEMMA AnswerNextShape ==
  ASSUME NEW d, NEW f, AfterNext(d, f) \in Datalinks, NEW s
  PROVE  /\ AnswerNext(d, f, s) \in Seq(Frames)
         /\ \A g \in Within(AnswerNext(d, f, s)) : g.k \in {"RR", "REJ"}
<1> DEFINE r == RR(AfterNext(d, f), TRUE, FALSE)
           q == RR(AfterNext(d, f), FALSE, FALSE)
<1>2. /\ r \in Frames /\ r.k = "RR" /\ <<r>> \in Seq(Frames)
      /\ q \in Frames /\ q.k = "RR" /\ <<q>> \in Seq(Frames)
      /\ <<>> \in Seq(Frames)
  <2>1. r \in Frames /\ r.k = "RR" /\ q \in Frames /\ q.k = "RR"
    BY FramesMade DEF RR
  <2> QED
    BY <2>1, ShortSequences
<1>3. AnswerNext(d, f, s) \in {<<r>>, <<q>>, <<>>}
  BY DEF AnswerNext
<1> HIDE DEF r, q
<1>4. Within(<<r>>) = {r} /\ Within(<<q>>) = {q} /\ Within(<<>>) = {}
  BY <1>2, WithinParts
<1> QED
  BY <1>2, <1>3, <1>4

(* What an established entity sends. *)
LEMMA ActiveShape ==
  ASSUME NEW e, NEW b \in Datalinks, b.state \in Established
  PROVE  /\ ReplyShape(e, SendI(b).d, SendI(b).out)
         /\ \A answer \in Seq(Frames) : (\A g \in Within(answer) : g.k \in {"RR", "REJ"})
              => ReplyShape(e, SendI(b).d, answer \o SendI(b).out)
<1>1. /\ SendI(b).d.state # "SABM_SENT" /\ SendI(b).out \in Seq(Frames)
      /\ \A f \in Within(SendI(b).out) : f.k = "I"
  BY SendIKeeps, SendIType DEF Established
<1>2. \A answer \in Seq(Frames) : /\ answer \o SendI(b).out \in Seq(Frames)
                                  /\ Within(answer \o SendI(b).out) = Within(answer) \cup Within(SendI(b).out)
  BY <1>1, WithinParts, ShortSequences
<1> QED
  BY <1>1, <1>2 DEF ReplyShape

LEMMA ToIdleState ==
  ASSUME NEW d \in Datalinks
  PROVE  ToIdle(d) \in Datalinks /\ ToIdle(d).state = "IDLE"
<1>1. FlushSend(FlushHist(Stop(d))) \in Datalinks
  BY FlushType
<1> QED
  BY <1>1, FlushType, NewStateKeeps DEF ToIdle, States

LEMMA ShapeSupervisory ==
  ASSUME TypeInv, NEW e \in Entities, pipe[Peer(e)] # <<>>, Supervisory(e)
  PROVE  \E d, out, prims : Reply(e, d, out, prims) /\ ReplyShape(e, d, out)
<1> DEFINE f == Head(pipe[Peer(e)])
           d == dl[e]
           alarm == Alarm(Unexpected(d, f) \/ SeqError(d, f.nr))
<1>1. f.k \in {"RR", "REJ"}
  BY SupervisoryCases
<1>2. f.f \in BOOLEAN /\ f.nr \in Numbers /\ d \in Datalinks
  <2>1. f \in SFrames
    BY <1>1, HeadType, FrameKinds
  <2> QED
    BY <2>1 DEF SFrames, TypeInv
<1>4. \/ /\ d.state \in Inactive
         /\ Reply(e, d, DmIfPolled(d, f), Alarm(Unexpected(d, f)))
      \/ /\ d.state \notin Inactive
         /\ Reply(e, SendI(AfterRR(d, f)).d, AnswerRR(d, f) \o SendI(AfterRR(d, f)).out, alarm)
      \/ /\ d.state \notin Inactive
         /\ Reply(e, SendI(AfterREJ(d, f)).d, SendI(AfterREJ(d, f)).out, alarm)
  BY SupervisoryCases
<1> HIDE DEF alarm
<1>5. CASE /\ d.state \in Inactive
           /\ Reply(e, d, DmIfPolled(d, f), Alarm(Unexpected(d, f)))
  <2>1. ReplyShape(e, d, DmIfPolled(d, f))
    BY <1>2, PolledShape
  <2> QED
    BY <1>5, <2>1
<1>6. CASE /\ d.state \notin Inactive
           /\ Reply(e, SendI(AfterRR(d, f)).d, AnswerRR(d, f) \o SendI(AfterRR(d, f)).out, alarm)
  <2> DEFINE b == AfterRR(d, f)
  <2>1. b \in Datalinks /\ b.state \in Established
    BY <1>2, <1>6, ActiveStates, AfterRRFields DEF Established
  <2>2. AnswerRR(d, f) \in Seq(Frames) /\ \A g \in Within(AnswerRR(d, f)) : g.k = "RR"
    BY <1>2, AnswerRRShape
  <2>3. ReplyShape(e, SendI(b).d, AnswerRR(d, f) \o SendI(b).out)
    BY <2>1, <2>2, ActiveShape
  <2> QED
    BY <1>6, <2>3
<1>7. CASE /\ d.state \notin Inactive
           /\ Reply(e, SendI(AfterREJ(d, f)).d, SendI(AfterREJ(d, f)).out, alarm)
  <2> DEFINE b == AfterREJ(d, f)
  <2>1. b \in Datalinks /\ b.state \in Established
    BY <1>2, <1>7, ActiveStates, AfterREJFields DEF Established
  <2>3. ReplyShape(e, SendI(b).d, SendI(b).out)
    BY <2>1, ActiveShape
  <2> QED
    BY <1>7, <2>3
<1> QED
  BY <1>4, <1>5, <1>6, <1>7

LEMMA ShapeInformation ==
  ASSUME TypeInv, NEW e \in Entities, pipe[Peer(e)] # <<>>, Information(e)
  PROVE  \E d, out, prims : Reply(e, d, out, prims) /\ ReplyShape(e, d, out)
<1> DEFINE f == Head(pipe[Peer(e)])
           d == dl[e]
           odd == SendI(AfterOdd(d, f))
           next == SendI(AfterNext(d, f))
<1>1. f.k = "I"
  BY InformationCases
<1>2. f.f \in BOOLEAN /\ f.nr \in Numbers /\ f.seg \in Segment /\ d \in Datalinks
  <2>1. f \in IFrames
    BY <1>1, HeadType, FrameKinds
  <2> QED
    BY <2>1 DEF IFrames, TypeInv
<1>4. \/ d.state \in Inactive /\ Reply(e, d, DmIfPolled(d, f), {})
      \/ /\ d.state \notin Inactive
         /\ Reply(e, odd.d, AnswerOdd(d, f) \o odd.out, Alarm(SeqError(d, f.nr)))
      \/ /\ d.state \notin Inactive
         /\ Reply(e, next.d, AnswerNext(d, f, next.out) \o next.out, Alarm(SeqError(d, f.nr)))
  BY InformationCases
<1>5. CASE d.state \in Inactive /\ Reply(e, d, DmIfPolled(d, f), {})
  <2>1. ReplyShape(e, d, DmIfPolled(d, f))
    BY <1>2, PolledShape
  <2> QED
    BY <1>5, <2>1
<1>6. CASE /\ d.state \notin Inactive
           /\ Reply(e, odd.d, AnswerOdd(d, f) \o odd.out, Alarm(SeqError(d, f.nr)))
  <2>1. AfterOdd(d, f) \in Datalinks /\ AfterOdd(d, f).state \in Established
    BY <1>2, <1>6, ActiveStates, AfterOddFields
  <2>2. AnswerOdd(d, f) \in Seq(Frames) /\ \A g \in Within(AnswerOdd(d, f)) : g.k \in {"RR", "REJ"}
    BY <1>2, AnswerOddShape
  <2>3. ReplyShape(e, odd.d, AnswerOdd(d, f) \o odd.out)
    BY <2>1, <2>2, ActiveShape
  <2> QED
    BY <1>6, <2>3
<1>7. CASE /\ d.state \notin Inactive
           /\ Reply(e, next.d, AnswerNext(d, f, next.out) \o next.out, Alarm(SeqError(d, f.nr)))
  <2>1. AfterNext(d, f) \in Datalinks /\ AfterNext(d, f).state \in Established
    BY <1>2, <1>7, ActiveStates, AfterNextFields
  <2>2. /\ AnswerNext(d, f, next.out) \in Seq(Frames)
        /\ \A g \in Within(AnswerNext(d, f, next.out)) : g.k \in {"RR", "REJ"}
    <3> HIDE DEF next
    <3> QED
      BY <2>1, AnswerNextShape
  <2>3. ReplyShape(e, next.d, AnswerNext(d, f, next.out) \o next.out)
    BY <2>1, <2>2, ActiveShape
  <2> QED
    BY <1>7, <2>3
<1> QED
  BY <1>4, <1>5, <1>6, <1>7

LEMMA ShapeUFrames ==
  ASSUME TypeInv, NEW e \in Entities, pipe[Peer(e)] # <<>>, Sabm(e) \/ Dm(e) \/ Disc(e) \/ Ua(e)
  PROVE  \E d, out, prims : Reply(e, d, out, prims) /\ ReplyShape(e, d, out)
<1> DEFINE f == Head(pipe[Peer(e)])
           x == dl[e]
           ua(i) == <<U("UA", f.f, i)>>
           dm == <<U("DM", f.f, "none")>>
<1>1. x \in Datalinks /\ f \in Frames /\ f.f \in BOOLEAN
  BY HeadType, FrameKinds DEF TypeInv
<1>2. /\ dm \in Seq(Frames) /\ \A g \in Within(dm) : g.k = "DM"
      /\ <<>> \in Seq(Frames) /\ Within(<<>>) = {}
      /\ \A i \in Contents \cup {"none", "other"} : ua(i) \in Seq(Frames) /\ \A g \in Within(ua(i)) : g.k = "UA"
  <2>1. U("DM", f.f, "none") \in Frames /\ \A i \in Contents \cup {"none", "other"} : U("UA", f.f, i) \in Frames
    BY <1>1, FramesMade
  <2>2. U("DM", f.f, "none").k = "DM" /\ \A i : U("UA", f.f, i).k = "UA"
    BY DEF U
  <2>3. ASSUME NEW x1 \in Frames PROVE <<x1>> \in Seq(Frames) /\ Within(<<x1>>) = {x1}
    BY ShortSequences, WithinParts
  <2>4. dm \in Seq(Frames) /\ \A g \in Within(dm) : g.k = "DM"
    BY <2>1, <2>2, <2>3
  <2>5. ASSUME NEW i \in Contents \cup {"none", "other"}
        PROVE  ua(i) \in Seq(Frames) /\ \A g \in Within(ua(i)) : g.k = "UA"
    BY <2>1, <2>2, <2>3
  <2>6. <<>> \in Seq(Frames) /\ Within(<<>>) = {}
    BY ShortSequences, WithinParts
  <2> QED
    BY <2>4, <2>5, <2>6
<1> HIDE DEF ua, dm
<1>3. ASSUME NEW d \in Datalinks, d.state # "SABM_SENT"
      PROVE  /\ ReplyShape(e, d, dm) /\ ReplyShape(e, d, <<>>)
             /\ \A i \in Contents \cup {"none", "other"} : ReplyShape(e, d, ua(i))
  BY <1>2, <1>3 DEF ReplyShape
<1>4. ReplyShape(e, x, <<>>)
  BY <1>2 DEF ReplyShape
<1>5. /\ ToIdle(x) \in Datalinks /\ ToIdle(x).state = "IDLE"
      /\ Stop(x) \in Datalinks
      /\ NewState(Stop(x), "IDLE") \in Datalinks /\ NewState(Stop(x), "IDLE").state = "IDLE"
  <2>1. ToIdle(x) \in Datalinks /\ ToIdle(x).state = "IDLE" /\ Stop(x) \in Datalinks
    BY <1>1, ToIdleState, StopKeeps
  <2> QED
    BY <2>1, NewStateKeeps DEF States
<1>6. CASE Sabm(e)
  <2> DEFINE d == [x EXCEPT !.err = 0]
             c == Connected(d)
             i == IF e = "bts" /\ f.info # "none" THEN f.info ELSE c.contres
             cr == [c EXCEPT !.contres = i]
  <2>1. d \in Datalinks /\ d.state = x.state /\ d.content = x.content
    <3>1. d \in Datalinks
      <4>1. 0 \in 0..2
        OBVIOUS
      <4> QED
        BY <1>1, <4>1, ErrType
    <3> QED
      BY <1>1, <3>1 DEF Datalinks
  <2>2. f.k = "SABM" /\ f.info \in Contents \cup {"none", "other"} /\ i \in Contents \cup {"none", "other"}
    <3>1. f.k = "SABM"
      BY <1>6 DEF Sabm
    <3>2. f \in UFrames
      BY <1>1, <3>1, FrameKinds
    <3>3. c.contres \in Contents \cup {"none", "other"}
      <4>1. c \in Datalinks
        BY <2>1, ConnectedType
      <4> HIDE DEF c
      <4> QED
        BY <4>1 DEF Datalinks
    <3> QED
      BY <3>1, <3>2, <3>3 DEF UFrames
  <2>3. cr \in Datalinks /\ cr.state = "MF_EST"
    <3>1. c \in Datalinks /\ c.state = "MF_EST"
      BY <2>1, ConnectedType, ConnectedState
    <3> HIDE DEF c, i
    <3> QED
      BY <2>2, <3>1 DEF Datalinks
  <2>4. Stop(d) \in Datalinks /\ Stop(d).state = d.state
    BY <2>1, StopKeeps
  <2>5. \/ \E p : Reply(e, cr, ua(f.info), p)
        \/ x.state = "MF_EST" /\ \E p : Reply(e, d, <<>>, p)
        \/ \E p : Reply(e, d, ua(f.info), p)
        \/ x.state = "DISC_SENT" /\ \E p : Reply(e, Stop(d), dm, p)
    <3>1. d.state = x.state
      BY <2>1
    <3> HIDE DEF x
    <3>2. \/ \E p : Reply(e, cr, ua(f.info), p)
          \/ d.state = "MF_EST" /\ \E p : Reply(e, d, <<>>, p)
          \/ \E p : Reply(e, d, ua(f.info), p)
          \/ d.state = "DISC_SENT" /\ \E p : Reply(e, Stop(d), dm, p)
      BY <1>6 DEF Sabm, x, ua, dm
    <3> QED
      BY <3>1, <3>2
  <2> HIDE DEF cr, d
  <2>6. ReplyShape(e, d, ua(f.info))
    BY <1>2, <2>2, <2>1 DEF ReplyShape
  <2>7. ReplyShape(e, cr, ua(f.info))
    BY <1>3, <2>2, <2>3
  <2>8. x.state = "MF_EST" => ReplyShape(e, d, <<>>)
    BY <1>3, <2>1
  <2>9. x.state = "DISC_SENT" => ReplyShape(e, Stop(d), dm)
    BY <1>3, <2>1, <2>4
  <2> HIDE DEF x, f
  <2> QED
    BY <2>5, <2>6, <2>7, <2>8, <2>9
<1>7. CASE Dm(e)
  <2>1. \E d \in {x, ToIdle(x), NewState(Stop(x), "IDLE")} : \E prims : Reply(e, d, <<>>, prims)
    BY <1>7 DEF Dm
  <2>2. \A d \in {x, ToIdle(x), NewState(Stop(x), "IDLE")} : ReplyShape(e, d, <<>>)
    BY <1>3, <1>4, <1>5
  <2> QED
    BY <2>1, <2>2
<1>8. CASE Disc(e)
  <2> DEFINE d == [FlushSend(FlushHist(x)) EXCEPT !.err = 0]
  <2>1. d \in Datalinks /\ d.state = x.state
    <3>1. FlushSend(FlushHist(x)) \in Datalinks /\ 0 \in 0..2
      BY <1>1, FlushType
    <3>2. d \in Datalinks /\ d.state = FlushSend(FlushHist(x)).state
      BY <3>1, ErrType
    <3> QED
      BY <1>1, <3>2 DEF FlushSend, FlushHist, Datalinks
  <2>2. NewState(Stop(d), "IDLE") \in Datalinks /\ NewState(Stop(d), "IDLE").state = "IDLE"
    <3> HIDE DEF d
    <3>1. Stop(d) \in Datalinks
      BY <2>1, StopKeeps
    <3> QED
      BY <3>1, NewStateKeeps DEF States
  <2>3. \/ d.state = "IDLE" /\ \E p : Reply(e, d, dm, p)
        \/ \E p : Reply(e, NewState(Stop(d), "IDLE"), dm, p)
        \/ \E p : Reply(e, NewState(Stop(d), "IDLE"), ua("none"), p)
    BY <1>8 DEF Disc, dm, ua
  <2> HIDE DEF d
  <2>4. d.state = "IDLE" => ReplyShape(e, d, dm)
    BY <1>3, <2>1
  <2>5. ReplyShape(e, NewState(Stop(d), "IDLE"), dm) /\ ReplyShape(e, NewState(Stop(d), "IDLE"), ua("none"))
    BY <1>3, <2>2
  <2> QED
    BY <2>3, <2>4, <2>5
<1>9. CASE Ua(e)
  <2> DEFINE c == Connected(Stop(x))
  <2>1. c \in Datalinks /\ c.state \in Established
    BY <1>5, ConnectedType, ConnectedState DEF Established
  <2>2. \/ \E d \in {x, ToIdle(x)} : \E prims : Reply(e, d, <<>>, prims)
        \/ \E prims : Reply(e, SendI(c).d, SendI(c).out, prims)
    BY <1>9 DEF Ua
  <2>3. \A d \in {x, ToIdle(x)} : ReplyShape(e, d, <<>>)
    BY <1>3, <1>4, <1>5
  <2>4. ReplyShape(e, SendI(c).d, SendI(c).out)
    BY <2>1, ActiveShape
  <2> QED
    BY <2>2, <2>3, <2>4
<1> QED
  BY <1>6, <1>7, <1>8, <1>9

LEMMA ReceiveShape ==
  ASSUME TypeInv, NEW e \in Entities, Receive(e)
  PROVE  \E d, out, prims : Reply(e, d, out, prims) /\ ReplyShape(e, d, out)
  BY ShapeUFrames, ShapeSupervisory, ShapeInformation DEF Receive

-----------------------------------------------------------------------------
(* The opening of the link. *)

(* A link that is established once, by the mobile. *)
OneLink == MaxEst = 1 /\ Initiators = {"ms"}

Opening == dl["ms"].state = "SABM_SENT"

(* What the SABM of the one establishment may carry. *)
MayCarry(info) == info = dl["ms"].content \/ (dl["ms"].content # "none" /\ info = "other")

Untouched ==
  /\ dl = [e \in Entities |-> Datalink]
  /\ pipe = [e \in Entities |-> <<>>]
  /\ view["ms"] = "down"

(* While the mobile waits for its UA it has sent nothing but its SABM, which is
   under way only when no UA is. *)
SabmAlone ==
  Opening => \/ pipe["ms"] = <<>>
             \/ /\ \E info : MayCarry(info) /\ pipe["ms"] = <<U("SABM", TRUE, info)>>
                /\ \A f \in Flying("bts") : f.k # "UA"

OpenInv ==
  /\ asked["ms"] = 0 => Untouched
  /\ dl["bts"].state # "SABM_SENT"
  /\ \A f \in Flying("bts") : f.k # "SABM"
  /\ SabmAlone

LEMMA OpenInit == LapdInit => OpenInv
<1>1. Within(<<>>) = {}
  BY DEF Within
<1> QED
  BY <1>1 DEF LapdInit, OpenInv, Untouched, SabmAlone, Opening, Flying, Entities, Datalink

LEMMA OpenEstReq ==
  ASSUME TypeInv, OpenInv, OneLink, NEW e \in Entities, EstReq(e)
  PROVE  OpenInv'
<1>1. e = "ms" /\ asked["ms"] = 0 /\ Untouched
  BY DEF EstReq, OneLink, OpenInv, TypeInv
<1>2. PICK c \in Contents :
        /\ LET d == [FlushHist(FlushSend(dl[e])) EXCEPT !.rcv = <<>>, !.vs = 0, !.ctr = 0] IN
           Send(e, [NewState(d, "SABM_SENT") EXCEPT !.content = c, !.t200 = TRUE], <<U("SABM", TRUE, c)>>)
        /\ asked' = [asked EXCEPT ![e] = @ + 1]
  BY DEF EstReq
<1> DEFINE x == FlushHist(FlushSend(dl["ms"]))
           d == Opened(x, c)
           s == U("SABM", TRUE, c)
<1>3. Send("ms", d, <<s>>) /\ asked' = [asked EXCEPT !["ms"] = @ + 1]
  BY <1>1, <1>2 DEF Opened
<1>4. x \in Datalinks /\ d.content = c /\ d.state = "SABM_SENT"
  <2>1. x \in Datalinks
    BY FlushType DEF TypeInv, Entities
  <2> HIDE DEF x
  <2>2. PICK k \in {"none", x.contres} :
          d = [x EXCEPT !.rcv = <<>>, !.vs = 0, !.ctr = 0, !.state = "SABM_SENT",
                        !.contres = k, !.content = c, !.t200 = TRUE]
    BY <2>1, OpenedFields
  <2> HIDE DEF d
  <2> QED
    BY <2>1, <2>2 DEF Datalinks
<1>5. pipe'["ms"] = <<s>> /\ pipe'["bts"] = <<>>
  <2> HIDE DEF s, d
  <2>1. pipe'["ms"] = <<>> \o <<s>> /\ pipe'["bts"] = <<>>
    BY <1>1, <1>3 DEF Send, Untouched, Entities
  <2>2. <<>> \o <<s>> = <<s>>
    OBVIOUS
  <2> QED
    BY <2>1, <2>2
<1>6. dl'["ms"] = d /\ dl'["bts"] = Datalink
  BY <1>1, <1>3 DEF Send, Untouched, Entities
<1>7. asked'["ms"] # 0
  BY <1>3 DEF TypeInv, Entities
<1>8. Flying("bts")' = {}
  BY <1>5 DEF Flying, Within
<1>9. SabmAlone'
  BY <1>4, <1>5, <1>6, <1>8 DEF SabmAlone, MayCarry
<1> HIDE DEF d
<1> QED
  BY <1>6, <1>7, <1>8, <1>9 DEF OpenInv, Datalink

(* A step of the base station that leaves the frames of the mobile alone, does
   not establish the link and sends no SABM or UA. *)
LEMMA OpenBtsSends ==
  ASSUME TypeInv, OpenInv, asked["ms"] # 0, asked'["ms"] # 0,
         NEW d, d.state # "SABM_SENT",
         d.state = "MF_EST" => dl["bts"].state = "MF_EST" /\ d.contres = dl["bts"].contres,
         NEW out \in Seq(Frames), \A f \in Within(out) : f.k \notin {"SABM", "UA"},
         Send("bts", d, out)
  PROVE  OpenInv'
<1>1. /\ Flying("bts")' = Flying("bts") \cup Within(out)
      /\ pipe'["ms"] = pipe["ms"]
  BY SendFlying DEF Entities, Peer
<1>2. dl'["ms"] = dl["ms"] /\ dl'["bts"] = d
  BY DEF Send, TypeInv, Entities
<1>3. SabmAlone'
  BY <1>1, <1>2 DEF OpenInv, SabmAlone, Opening, MayCarry
<1> QED
  BY <1>1, <1>2, <1>3 DEF OpenInv

(* A step after which the mobile does not wait for its UA. *)
LEMMA OpenMsClosed ==
  ASSUME TypeInv, OpenInv, asked["ms"] # 0, asked'["ms"] # 0,
         NEW d, d.state # "SABM_SENT", NEW out \in Seq(Frames), Send("ms", d, out)
  PROVE  OpenInv'
<1>1. Flying("bts")' = Flying("bts")
  BY SendFlying DEF Entities, Peer
<1>2. dl'["ms"] = d /\ dl'["bts"] = dl["bts"]
  BY DEF Send, TypeInv, Entities
<1> QED
  BY <1>1, <1>2 DEF OpenInv, SabmAlone, Opening

LEMMA OpenDataReq ==
  ASSUME TypeInv, OpenInv, NEW e \in Entities, NEW m \in Msgs, DataReq(e, m)
  PROVE  OpenInv'
<1> DEFINE b == [dl[e] EXCEPT !.queue = Append(@, m)]
<1>1. dl[e] \in Datalinks /\ dl[e].state \in Established
  BY DEF TypeInv, DataReq, Established
<1>2. b \in Datalinks /\ b.state = dl[e].state /\ b.contres = dl[e].contres
  <2>1. Append(dl[e].queue, m) \in Seq(Msgs)
    BY <1>1 DEF Datalinks
  <2> QED
    BY <1>1, <2>1 DEF Datalinks
<1>3. Send(e, SendI(b).d, SendI(b).out) /\ asked' = asked
  BY DEF DataReq
<1> HIDE DEF b
<1>4. /\ SendI(b).d.state = dl[e].state /\ SendI(b).d.contres = dl[e].contres
      /\ \A f \in Within(SendI(b).out) : f.k = "I"
      /\ SendI(b).out \in Seq(Frames)
  BY <1>2, SendIKeeps, SendIType
<1>5. asked["ms"] # 0
  BY <1>1 DEF OpenInv, Untouched, Datalink, Established
<1>6. CASE e = "ms"
  BY <1>1, <1>3, <1>4, <1>5, <1>6, OpenMsClosed DEF Established
<1>7. CASE e = "bts"
  BY <1>1, <1>3, <1>4, <1>5, <1>7, OpenBtsSends DEF Established
<1> QED
  BY <1>6, <1>7 DEF Entities

LEMMA OpenRelReq ==
  ASSUME TypeInv, OpenInv, OneLink, NEW e \in Entities, RelReq(e)
  PROVE  OpenInv'
<1> DEFINE a == NewState(FlushHist(dl[e]), "DISC_SENT")
           d == [a EXCEPT !.vs = 0, !.ctr = 0, !.t200 = TRUE]
           out == <<U("DISC", TRUE, "none")>>
<1>1. dl[e] \in Datalinks
  BY DEF TypeInv
<1>2. FlushHist(dl[e]) \in Datalinks
  BY <1>1, FlushType
<1>3. a \in Datalinks /\ a.state = "DISC_SENT"
  BY <1>2, NewStateKeeps DEF States
<1>4. Send(e, d, out) /\ asked' = [asked EXCEPT ![e] = @ + 1]
  BY DEF RelReq
<1> HIDE DEF a
<1>5. d.state = "DISC_SENT"
  BY <1>3 DEF Datalinks
<1> HIDE DEF d
<1>6. out \in Seq(Frames) /\ \A f \in Within(out) : f.k = "DISC"
  <2>1. U("DISC", TRUE, "none") \in Frames /\ U("DISC", TRUE, "none").k = "DISC"
    BY <1>1, FramesMade DEF U
  <2> QED
    BY <2>1, OneFrame
<1>7. asked["ms"] # 0 /\ asked["ms"] \in 0..1 /\ asked'["ms"] # 0
  <2>1. asked["ms"] # 0
    <3>1. CASE e = "ms"
      BY <3>1 DEF RelReq, OpenInv, Untouched
    <3>2. CASE e = "bts"
      BY <3>2 DEF RelReq, OpenInv, Untouched, Datalink
    <3> QED
      BY <3>1, <3>2 DEF Entities
  <2> QED
    BY <1>4, <2>1 DEF OneLink, TypeInv, Entities
<1> HIDE DEF out
<1>8. e = "bts"
  BY <1>7 DEF RelReq, OneLink, Entities
<1> QED
  BY <1>4, <1>5, <1>6, <1>7, <1>8, OpenBtsSends

LEMMA OpenLocalRelease ==
  ASSUME TypeInv, OpenInv, NEW e \in Entities, LocalRelease(e)
  PROVE  OpenInv'
<1> DEFINE d == IF dl[e].state = "IDLE" THEN dl[e] ELSE ToIdle(dl[e])
<1>1. dl[e] \in Datalinks
  BY DEF TypeInv
<1>2. d.state = "IDLE"
  BY <1>1, ToIdleState
<1>3. Send(e, d, <<>>) /\ asked' = asked /\ view' = [view EXCEPT ![e] = "down"]
  BY DEF LocalRelease
<1>4. CASE asked["ms"] = 0
  <2>1. Untouched
    BY <1>4 DEF OpenInv
  <2>2. dl[e].state = "IDLE"
    BY <2>1 DEF Untouched, Datalink
  <2>3. dl' = dl
    BY <1>3, <2>2 DEF Send, TypeInv
  <2>4. pipe' = pipe
    <3>1. pipe[e] \o <<>> = pipe[e]
      BY <2>1 DEF Untouched
    <3> QED
      BY <1>3, <3>1 DEF Send, TypeInv
  <2>5. view'["ms"] = "down"
    BY <1>3, <2>1 DEF Untouched, TypeInv, Entities
  <2> QED
    BY <1>3, <1>4, <2>1, <2>3, <2>4, <2>5
    DEF OpenInv, Untouched, SabmAlone, Opening, MayCarry, Flying
<1> HIDE DEF d
<1>5. <<>> \in Seq(Frames) /\ Within(<<>>) = {}
  BY ShortSequences, WithinParts
<1>6. CASE asked["ms"] # 0 /\ e = "ms"
  BY <1>2, <1>3, <1>5, <1>6, OpenMsClosed
<1>7. CASE asked["ms"] # 0 /\ e = "bts"
  BY <1>2, <1>3, <1>5, <1>7, OpenBtsSends
<1> QED
  BY <1>4, <1>6, <1>7 DEF Entities

LEMMA OpenT200EstRel ==
  ASSUME TypeInv, OpenInv, NEW e \in Entities, T200EstRel(e), NoneUnderWay
  PROVE  OpenInv'
<1> DEFINE d == Stop(dl[e])
           again == [d EXCEPT !.ctr = @ + 1, !.t200 = TRUE]
           u == U(IF d.state = "SABM_SENT" THEN "SABM" ELSE "DISC", TRUE, d.content)
<1>1. dl[e] \in Datalinks
  BY DEF TypeInv
<1>2. d \in Datalinks /\ d.state = dl[e].state /\ d.content = dl[e].content
  BY <1>1, StopKeeps DEF SameLink
<1>3. /\ d.state \in {"SABM_SENT", "DISC_SENT"}
      /\ \/ Send(e, ToIdle(d), <<>>)
         \/ Send(e, again, <<u>>)
      /\ asked' = asked
  BY DEF T200EstRel
<1>4. asked["ms"] # 0
  BY <1>2, <1>3 DEF OpenInv, Untouched, Datalink
<1>5. \A x \in Entities : pipe[x] = <<>>
  BY DEF NoneUnderWay
<1> HIDE DEF d
<1>6. again.state = d.state /\ again.content = d.content
  BY <1>2 DEF Datalinks
<1> HIDE DEF again
<1>7. ToIdle(d).state = "IDLE"
  BY <1>2, ToIdleState
<1>8. u \in Frames /\ <<u>> \in Seq(Frames) /\ Within(<<u>>) = {u} /\ <<>> \in Seq(Frames) /\ Within(<<>>) = {}
  <2>1. d.content \in Contents \cup {"none"}
    BY <1>2 DEF Datalinks
  <2>2. u \in Frames
    BY <1>2, <2>1, FramesMade
  <2> HIDE DEF u
  <2> QED
    BY <2>2, ShortSequences, WithinParts
<1>9. d.state = "DISC_SENT" => u.k = "DISC"
  BY DEF U
<1>10. d.state = "SABM_SENT" => u = U("SABM", TRUE, d.content)
  OBVIOUS
<1> HIDE DEF u
<1>11. CASE e = "bts"
  <2>1. d.state = "DISC_SENT"
    BY <1>2, <1>3, <1>11 DEF OpenInv
  <2>2. \A f \in Within(<<u>>) : f.k \notin {"SABM", "UA"}
    BY <1>8, <1>9, <2>1
  <2>3. CASE Send(e, ToIdle(d), <<>>)
    BY <1>3, <1>4, <1>7, <1>8, <1>11, <2>3, OpenBtsSends
  <2>4. CASE Send(e, again, <<u>>)
    BY <1>3, <1>4, <1>6, <1>8, <1>11, <2>1, <2>2, <2>4, OpenBtsSends
  <2> QED
    BY <1>3, <2>3, <2>4
<1>12. CASE e = "ms" /\ Send(e, ToIdle(d), <<>>)
  BY <1>3, <1>4, <1>7, <1>8, <1>12, OpenMsClosed
<1>13. CASE e = "ms" /\ Send(e, again, <<u>>) /\ d.state # "SABM_SENT"
  BY <1>3, <1>4, <1>6, <1>8, <1>13, OpenMsClosed
<1>14. CASE e = "ms" /\ Send(e, again, <<u>>) /\ d.state = "SABM_SENT"
  <2>1. dl'["ms"] = again /\ dl'["bts"] = dl["bts"]
    BY <1>14 DEF Send, TypeInv, Entities
  <2>2. pipe'["ms"] = <<u>> /\ pipe'["bts"] = <<>>
    <3>1. pipe'["ms"] = <<>> \o <<u>> /\ pipe'["bts"] = <<>>
      BY <1>5, <1>14 DEF Send, TypeInv, Entities
    <3>2. <<>> \o <<u>> = <<u>>
      OBVIOUS
    <3> QED
      BY <3>1, <3>2
  <2>3. Flying("bts")' = {} /\ Flying("bts") = {}
    BY <1>5, <2>2 DEF Flying, Within, Entities
  <2>4. SabmAlone'
    BY <1>6, <1>10, <1>14, <2>1, <2>2, <2>3 DEF SabmAlone, MayCarry
  <2> QED
    BY <1>3, <1>4, <2>1, <2>3, <2>4 DEF OpenInv
<1> QED
  BY <1>3, <1>11, <1>12, <1>13, <1>14 DEF Entities

LEMMA PollShape ==
  ASSUME NEW d \in Datalinks
  PROVE  Poll(d) \in Seq(Frames) /\ \A f \in Within(Poll(d)) : f.k \in {"I", "RR"}
<1> DEFINE last == Dec(d.vs)
           i == I(d, last, TRUE, d.hist[H(last)])
           r == RR(d, TRUE, TRUE)
<1>1. last \in Numbers /\ H(last) \in 1..2
  <2>1. d.vs \in Numbers
    BY DEF Datalinks
  <2>2. last \in Numbers
    BY <2>1, NumbersWrap
  <2> QED
    BY <2>2, NumbersWrap
<1>2. d.hist[H(last)] \in Segment \cup {None}
  BY <1>1 DEF Datalinks
<1>3. d.hist[H(last)] # None => i \in Frames /\ i.k = "I"
  BY <1>1, <1>2, FramesMade DEF I
<1>4. r \in Frames /\ r.k = "RR"
  BY FramesMade DEF RR
<1>5. Poll(d) = IF d.hist[H(last)] # None THEN <<i>> ELSE IF d.err = 0 THEN <<r>> ELSE <<>>
  BY DEF Poll
<1> HIDE DEF i, r, last
<1>6. ASSUME NEW x \in Frames PROVE <<x>> \in Seq(Frames) /\ Within(<<x>>) = {x}
  BY ShortSequences, WithinParts
<1>7. <<>> \in Seq(Frames) /\ Within(<<>>) = {}
  BY ShortSequences, WithinParts
<1>8. CASE d.hist[H(last)] # None
  <2>1. Poll(d) = <<i>>
    BY <1>5, <1>8
  <2> QED
    BY <1>3, <1>6, <1>8, <2>1
<1>9. CASE d.hist[H(last)] = None
  <2>1. Poll(d) \in {<<r>>, <<>>}
    BY <1>5, <1>9
  <2> QED
    BY <1>4, <1>6, <1>7, <2>1
<1> QED
  BY <1>8, <1>9

LEMMA OpenT200Recovery ==
  ASSUME TypeInv, OpenInv, NEW e \in Entities, T200Recovery(e)
  PROVE  OpenInv'
<1> DEFINE d == InRecovery(dl[e])
           again == [d EXCEPT !.t200 = TRUE]
<1>1. dl[e] \in Datalinks /\ dl[e].state \in Established
  BY RecoveryCases DEF TypeInv
<1>2. d \in Datalinks /\ d.state = "TIMER_RECOV"
  BY <1>1, InRecoveryFields
<1>3. /\ Send(e, d, <<>>) \/ Send(e, again, Poll(d))
      /\ asked' = asked
  BY RecoveryCases
<1> HIDE DEF d
<1>4. again.state = "TIMER_RECOV"
  BY <1>2 DEF Datalinks
<1> HIDE DEF again
<1>5. Poll(d) \in Seq(Frames) /\ \A f \in Within(Poll(d)) : f.k \in {"I", "RR"}
  BY <1>2, PollShape
<1>6. <<>> \in Seq(Frames) /\ Within(<<>>) = {}
  BY ShortSequences, WithinParts
<1>7. asked["ms"] # 0
  BY <1>1 DEF OpenInv, Untouched, Datalink, Established
<1>8. PICK x \in {d, again}, out \in {<<>>, Poll(d)} : Send(e, x, out)
  BY <1>3
<1>9. x.state = "TIMER_RECOV" /\ out \in Seq(Frames) /\ \A f \in Within(out) : f.k \in {"I", "RR"}
  BY <1>2, <1>4, <1>5, <1>6
<1>10. CASE e = "ms"
  BY <1>3, <1>7, <1>8, <1>9, <1>10, OpenMsClosed
<1>11. CASE e = "bts"
  BY <1>3, <1>7, <1>8, <1>9, <1>11, OpenBtsSends
<1> QED
  BY <1>10, <1>11 DEF Entities

LEMMA OpenReceiveMs ==
  ASSUME TypeInv, OpenInv, Receive("ms")
  PROVE  OpenInv'
<1>1. pipe["bts"] # <<>> /\ "ms" \in Entities /\ Peer("ms") = "bts"
  BY DEF Receive, Entities, Peer
<1>2. PICK d, out, prims : Reply("ms", d, out, prims) /\ ReplyShape("ms", d, out)
  BY <1>1, ReceiveShape
<1>3. dl'["ms"] = d /\ dl'["bts"] = dl["bts"] /\ asked' = asked
  BY <1>2 DEF Reply, TypeInv, Entities
<1>4. out \in Seq(Frames) /\ Flying("bts")' \subseteq Flying("bts") /\ pipe'["ms"] = pipe["ms"] \o out
  <2>1. out \in Seq(Frames)
    BY <1>2 DEF ReplyShape
  <2>2. pipe'["ms"] = pipe["ms"] \o out
    BY <1>2 DEF Reply, TypeInv, Entities, Peer
  <2> QED
    BY <1>1, <1>2, <2>1, <2>2, ReplyFlying
<1>5. asked["ms"] # 0
  BY <1>1 DEF OpenInv, Untouched, Entities
<1>6. CASE d.state # "SABM_SENT"
  BY <1>3, <1>4, <1>5, <1>6 DEF OpenInv, SabmAlone, Opening
<1>7. CASE d.state = "SABM_SENT"
  <2>1. Head(pipe["bts"]) \in Flying("bts")
    BY <1>1, WithinParts DEF Flying, TypeInv, Entities
  <2>2. out = <<>> /\ Opening /\ d.content = dl["ms"].content
    BY <1>1, <1>2, <1>7, <2>1 DEF ReplyShape, Opening, OpenInv
  <2>3. pipe'["ms"] = pipe["ms"]
    <3>1. pipe["ms"] \in Seq(Frames)
      BY DEF TypeInv, Entities
    <3>2. pipe["ms"] \o <<>> = pipe["ms"]
      BY <3>1
    <3> QED
      BY <1>4, <2>2, <3>2
  <2>4. SabmAlone'
    BY <1>3, <1>4, <2>2, <2>3 DEF OpenInv, SabmAlone, MayCarry
  <2> QED
    BY <1>3, <1>4, <1>5, <2>4 DEF OpenInv
<1> QED
  BY <1>6, <1>7

LEMMA OpenReceiveBts ==
  ASSUME TypeInv, OpenInv, Receive("bts")
  PROVE  OpenInv'
<1>1. pipe["ms"] # <<>> /\ "bts" \in Entities /\ Peer("bts") = "ms"
  BY DEF Receive, Entities, Peer
<1>2. PICK d, out, prims : Reply("bts", d, out, prims) /\ ReplyShape("bts", d, out)
  BY <1>1, ReceiveShape
<1>3. dl'["bts"] = d /\ dl'["ms"] = dl["ms"] /\ asked' = asked
  BY <1>2 DEF Reply, TypeInv, Entities
<1>4. /\ Flying("bts")' = Flying("bts") \cup Within(out)
      /\ \A f \in Within(out) : f.k # "SABM"
  <2>1. out \in Seq(Frames) /\ \A f \in Within(out) : f.k # "SABM"
    BY <1>2 DEF ReplyShape
  <2> QED
    BY <1>1, <1>2, <2>1, ReplyFlying
<1>5. asked["ms"] # 0
  BY <1>1 DEF OpenInv, Untouched, Entities
<1>6. d.state # "SABM_SENT"
  BY <1>2 DEF ReplyShape, OpenInv
<1>7. SabmAlone'
  <2>1. ASSUME Opening PROVE pipe'["ms"] = <<>>
    <3>1. PICK info : pipe["ms"] = <<U("SABM", TRUE, info)>>
      BY <1>1, <2>1 DEF OpenInv, SabmAlone
    <3>2. pipe'["ms"] = Tail(pipe["ms"])
      BY <1>1, <1>2 DEF Reply, TypeInv, Entities
    <3> QED
      BY <3>1, <3>2
  <2> QED
    BY <1>3, <2>1 DEF SabmAlone, Opening
<1> QED
  BY <1>3, <1>4, <1>5, <1>6, <1>7 DEF OpenInv

LEMMA OpenLose ==
  ASSUME TypeInv, OpenInv, NEW e \in Entities, Lose(e)
  PROVE  OpenInv'
<1>1. pipe[e] \in Seq(Frames) /\ pipe[e] # <<>>
  BY DEF TypeInv, Lose
<1>2. /\ pipe'[e] = Tail(pipe[e]) /\ pipe'[Peer(e)] = pipe[Peer(e)]
      /\ dl' = dl /\ asked' = asked
  BY Peers DEF Lose, TypeInv
<1>3. asked["ms"] # 0
  BY <1>1 DEF OpenInv, Untouched
<1>4. Within(Tail(pipe[e])) \subseteq Within(pipe[e])
  BY <1>1, WithinParts
<1>5. CASE e = "ms"
  <2>1. Flying("bts")' = Flying("bts")
    BY <1>2, <1>5 DEF Flying, Peer
  <2>2. ASSUME Opening PROVE pipe'["ms"] = <<>>
    <3>1. PICK info : pipe["ms"] = <<U("SABM", TRUE, info)>>
      BY <1>1, <1>5, <2>2 DEF OpenInv, SabmAlone
    <3> QED
      BY <1>2, <1>5, <3>1
  <2> QED
    BY <1>2, <1>3, <2>1, <2>2 DEF OpenInv, SabmAlone, Opening
<1>6. CASE e = "bts"
  <2>1. Flying("bts")' \subseteq Flying("bts")
    BY <1>2, <1>4, <1>6 DEF Flying
  <2>2. pipe'["ms"] = pipe["ms"]
    BY <1>2, <1>6 DEF Peer
  <2> QED
    BY <1>2, <1>3, <2>1, <2>2 DEF OpenInv, SabmAlone, Opening, MayCarry
<1> QED
  BY <1>5, <1>6 DEF Entities

LEMMA OpenCollide ==
  ASSUME TypeInv, OpenInv, Collide
  PROVE  OpenInv'
<1> DEFINE s == <<U("SABM", TRUE, "other")>>
           t == s \o Tail(pipe["ms"])
<1>1. pipe["ms"] # <<>> /\ Head(pipe["ms"]).info \notin {"none", "other"} /\ dl' = dl /\ asked' = asked
  BY DEF Collide
<1>2. pipe' = [pipe EXCEPT !["ms"] = t]
  BY DEF Collide
<1> HIDE DEF t
<1>3. pipe'["ms"] = t /\ pipe'["bts"] = pipe["bts"]
  BY <1>2 DEF TypeInv, Entities
<1>4. Flying("bts")' = Flying("bts")
  BY <1>3 DEF Flying
<1>5. asked["ms"] # 0
  BY <1>1 DEF OpenInv, Untouched, Entities
<1>6. SabmAlone'
  <2> SUFFICES ASSUME Opening PROVE SabmAlone'
    BY <1>1 DEF SabmAlone, Opening
  <2>1. PICK info : /\ MayCarry(info) /\ pipe["ms"] = <<U("SABM", TRUE, info)>>
                    /\ \A f \in Flying("bts") : f.k # "UA"
    BY <1>1 DEF OpenInv, SabmAlone
  <2>2. info # "none"
    BY <1>1, <2>1 DEF U
  <2>3. MayCarry("other")' /\ pipe'["ms"] = s
    <3>1. Tail(pipe["ms"]) = <<>>
      BY <2>1
    <3>2. s \o <<>> = s
      OBVIOUS
    <3>3. t = s
      BY <3>1, <3>2 DEF t
    <3> QED
      BY <1>1, <1>3, <2>1, <2>2, <3>3 DEF MayCarry
  <2> QED
    BY <1>4, <2>1, <2>3 DEF SabmAlone
<1> QED
  BY <1>1, <1>4, <1>5, <1>6 DEF OpenInv

LEMMA OpenStep ==
  ASSUME TypeInv, LateInv, OpenInv, OneLink, [LapdNext]_vars, late' = 0
  PROVE  OpenInv'
<1>1. ASSUME NEW e \in Entities, T200(e) PROVE OpenInv'
  <2>1. CASE T200EstRel(e)
    <3>1. NoneUnderWay
      BY <2>1, InTimeExpiry DEF T200EstRel
    <3> QED
      BY <2>1, <3>1, OpenT200EstRel
  <2>2. CASE T200Recovery(e)
    BY <2>2, OpenT200Recovery
  <2> QED
    BY <1>1, <2>1, <2>2 DEF T200
<1>2. CASE UNCHANGED vars
  BY <1>2 DEF vars, OpenInv, Untouched, SabmAlone, Opening, MayCarry, Flying
<1>3. ASSUME NEW e \in Entities, NEW m \in Msgs, DataReq(e, m) PROVE OpenInv'
  BY <1>3, OpenDataReq
<1>4. ASSUME NEW e \in Entities, EstReq(e) \/ RelReq(e) \/ LocalRelease(e) PROVE OpenInv'
  BY <1>4, OpenEstReq, OpenRelReq, OpenLocalRelease
<1>5. ASSUME NEW e \in Entities, Receive(e) PROVE OpenInv'
  BY <1>5, OpenReceiveMs, OpenReceiveBts DEF Entities
<1>6. ASSUME NEW e \in Entities, Lose(e) PROVE OpenInv'
  BY <1>6, OpenLose
<1>7. CASE Collide
  BY <1>7, OpenCollide
<1> QED
  BY <1>1, <1>2, <1>3, <1>4, <1>5, <1>6, <1>7 DEF LapdNext, InTime

-----------------------------------------------------------------------------
(* Frames under way, in their order. *)

Numbered(f) == f.k \in {"I", "RR", "REJ"}
Polls == {f \in Frames : f.f /\ (f.k = "I" \/ (f.k = "RR" /\ f.cmd))}
Finals == {f \in Frames : f.k \in {"RR", "REJ"} /\ f.f /\ ~f.cmd}
(* What a poll may be answered with. *)
Endings == Finals \cup {f \in Frames : f.k = "DM"}

AtMostOne(s, S) == \A i, j \in 1..Len(s) : s[i] \in S /\ s[j] \in S => i = j

(* Once a frame acknowledges all up to v, those behind it do. *)
Settles(s, v) ==
  \A i, j \in 1..Len(s) : i < j /\ Numbered(s[i]) /\ Numbered(s[j]) /\ s[i].nr = v => s[j].nr = v

LEMMA TailParts ==
  ASSUME NEW s \in Seq(Frames), s # <<>>
  PROVE  /\ Tail(s) \in Seq(Frames) /\ Head(s) \in Frames
         /\ Head(s) \in Within(s) /\ Within(Tail(s)) \subseteq Within(s)
         /\ \A S : AtMostOne(s, S) => AtMostOne(Tail(s), S)
         /\ \A S : AtMostOne(s, S) /\ Head(s) \in S => Within(Tail(s)) \cap S = {}
         /\ \A v : Settles(s, v) => Settles(Tail(s), v)
         /\ \A v : Settles(s, v) /\ Numbered(Head(s)) /\ Head(s).nr = v =>
                     \A g \in Within(Tail(s)) : Numbered(g) => g.nr = v
<1> DEFINE t == Tail(s)
<1>1. /\ t \in Seq(Frames) /\ Len(s) \in Nat /\ Len(s) >= 1 /\ Len(t) = Len(s) - 1
      /\ \A i \in 1..Len(t) : t[i] = s[i + 1]
      /\ Head(s) = s[1] /\ Head(s) \in Frames
  OBVIOUS
<1>2. \A i \in 1..Len(t) : i + 1 \in 1..Len(s) /\ i + 1 # 1
  BY <1>1
<1>3. 1 \in 1..Len(s)
  BY <1>1
<1> HIDE DEF t
<1>4. Head(s) \in Within(s) /\ Within(t) \subseteq Within(s)
  BY <1>1, <1>2, <1>3 DEF Within
<1>5. ASSUME NEW S, AtMostOne(s, S)
      PROVE  AtMostOne(t, S) /\ (Head(s) \in S => Within(t) \cap S = {})
  <2>1. \A i, j \in 1..Len(t) : t[i] \in S /\ t[j] \in S => i + 1 = j + 1
    BY <1>1, <1>2, <1>5 DEF AtMostOne
  <2>2. AtMostOne(t, S)
    BY <2>1, <1>1 DEF AtMostOne
  <2>3. ASSUME Head(s) \in S, NEW i \in 1..Len(t), t[i] \in S PROVE FALSE
    BY <2>3, <1>1, <1>2, <1>3, <1>5 DEF AtMostOne
  <2> QED
    BY <2>2, <2>3 DEF Within
<1>6. ASSUME NEW v, Settles(s, v)
      PROVE  Settles(t, v) /\ (Numbered(Head(s)) /\ Head(s).nr = v =>
                                  \A g \in Within(t) : Numbered(g) => g.nr = v)
  <2>1. ASSUME NEW i \in 1..Len(t), NEW j \in 1..Len(t),
               i < j, Numbered(t[i]), Numbered(t[j]), t[i].nr = v
        PROVE  t[j].nr = v
    <3>1. i + 1 < j + 1
      BY <2>1
    <3> QED
      BY <2>1, <3>1, <1>1, <1>2, <1>6 DEF Settles
  <2>2. ASSUME Numbered(Head(s)), Head(s).nr = v, NEW i \in 1..Len(t), Numbered(t[i])
        PROVE  t[i].nr = v
    <3>1. 1 < i + 1
      BY <2>2
    <3> QED
      BY <2>2, <3>1, <1>1, <1>2, <1>3, <1>6 DEF Settles
  <2>3. Settles(t, v)
    BY <2>1 DEF Settles
  <2> QED
    BY <2>2, <2>3 DEF Within
<1> QED
  BY <1>1, <1>4, <1>5, <1>6 DEF t

LEMMA JoinParts ==
  ASSUME NEW s \in Seq(Frames), NEW t \in Seq(Frames)
  PROVE  /\ s \o t \in Seq(Frames) /\ Within(s \o t) = Within(s) \cup Within(t)
         /\ \A S : Within(s) \cap S = {} /\ AtMostOne(t, S) => AtMostOne(s \o t, S)
         /\ \A S : AtMostOne(s, S) /\ Within(t) \cap S = {} => AtMostOne(s \o t, S)
         /\ \A v : Settles(s, v) /\ (\A g \in Within(t) : Numbered(g) => g.nr = v) => Settles(s \o t, v)
<1> DEFINE u == s \o t
<1>1. u \in Seq(Frames) /\ Len(s) \in Nat /\ Len(t) \in Nat /\ Len(u) = Len(s) + Len(t)
  OBVIOUS
<1>2. \A i \in 1..Len(u) : IF i <= Len(s) THEN i \in 1..Len(s) /\ u[i] = s[i]
                           ELSE i - Len(s) \in 1..Len(t) /\ u[i] = t[i - Len(s)]
  BY <1>1
<1>3. Within(u) = Within(s) \cup Within(t)
  BY WithinParts
<1> HIDE DEF u
<1>4. ASSUME NEW S, Within(s) \cap S = {}, AtMostOne(t, S) PROVE AtMostOne(u, S)
  <2> SUFFICES ASSUME NEW i \in 1..Len(u), NEW j \in 1..Len(u), u[i] \in S, u[j] \in S PROVE i = j
    BY DEF AtMostOne
  <2>1. ~(i <= Len(s)) /\ ~(j <= Len(s))
    BY <1>2, <1>4 DEF Within
  <2>2. i - Len(s) = j - Len(s)
    BY <2>1, <1>2, <1>4 DEF AtMostOne
  <2> QED
    BY <2>2, <1>1
<1>5. ASSUME NEW S, AtMostOne(s, S), Within(t) \cap S = {} PROVE AtMostOne(u, S)
  <2> SUFFICES ASSUME NEW i \in 1..Len(u), NEW j \in 1..Len(u), u[i] \in S, u[j] \in S PROVE i = j
    BY DEF AtMostOne
  <2>1. i <= Len(s) /\ j <= Len(s)
    BY <1>2, <1>5 DEF Within
  <2> QED
    BY <2>1, <1>2, <1>5 DEF AtMostOne
<1>6. ASSUME NEW v, Settles(s, v), \A g \in Within(t) : Numbered(g) => g.nr = v PROVE Settles(u, v)
  <2> SUFFICES ASSUME NEW i \in 1..Len(u), NEW j \in 1..Len(u), i < j,
                      Numbered(u[i]), Numbered(u[j]), u[i].nr = v
               PROVE  u[j].nr = v
    BY DEF Settles
  <2>1. CASE j <= Len(s)
    <3>1. i <= Len(s)
      BY <2>1, <1>1
    <3> QED
      BY <2>1, <3>1, <1>2, <1>6 DEF Settles
  <2>2. CASE ~(j <= Len(s))
    <3>1. u[j] \in Within(t)
      BY <2>2, <1>2 DEF Within
    <3> QED
      BY <3>1, <1>6
  <2> QED
    BY <2>1, <2>2
<1> QED
  BY <1>1, <1>3, <1>4, <1>5, <1>6 DEF u

-----------------------------------------------------------------------------
(* One direction of the link: what entity d sends and q receives, with the
   frames s under way from d and a under way from q.  With a window of one
   frame at most one segment is not acknowledged, the last of those sent, and
   q has it or expects it. *)

Latest(d) == [msg |-> d.buf, part |-> d.out]
First(m, k) == [p \in 1..k |-> [msg |-> m, part |-> p]]

Window(d) ==
  /\ d.vs \in {d.va, Inc(d.va)}
  /\ IF d.vs = d.va THEN \A h \in 1..2 : d.hist[h] = None
     ELSE d.buf # "none" /\ d.hist[H(d.va)] = Latest(d) /\ d.hist[H(d.vs)] = None
  /\ d.buf # "none" => d.out \in 1..Parts[d.buf]

Acks(d, q, a) ==
  /\ q.vr \in {d.va, d.vs}
  /\ \A g \in Within(a) : Numbered(g) => g.nr \in {d.va, q.vr}
  /\ Settles(a, q.vr)

(* A segment is sent again as a poll only. *)
Carried(d, q, f) ==
  /\ Inc(f.ns) = d.vs
  /\ f.seg.part \in 1..Parts[f.seg.msg]
  /\ f.ns = q.vr => f.seg = Latest(d)
  /\ IF f.f THEN d.state = "TIMER_RECOV" ELSE d.state = "MF_EST" /\ f.ns = q.vr

(* What q has received of the message that is being sent. *)
Passed(d, q) == IF q.vr = d.vs THEN d.out ELSE d.out - 1
Reassembled(d, q) ==
  IF d.buf = "none" \/ Passed(d, q) = Parts[d.buf] THEN <<>> ELSE First(d.buf, Passed(d, q))

Data(d, q, s) ==
  /\ \A f \in Within(s) : f.k = "I" => Carried(d, q, f)
  /\ q.rcv = Reassembled(d, q)

(* While d recovers, its poll or the answer to it is under way, or both are
   lost; when d has the answer neither is. *)
Recovery(d, q, s, a) ==
  /\ Within(s) \cap Polls # {} \/ Within(a) \cap Endings # {} => d.state = "TIMER_RECOV"
  /\ Within(s) \cap Polls = {} \/ Within(a) \cap Endings = {}
  /\ AtMostOne(a, Endings)
  /\ \A g \in Within(a) \cap Finals : g.nr = d.vs /\ q.vr = d.vs
  /\ \A f \in Within(s) \cap Polls : f.k = "RR" => d.vs = d.va

Direction(d, q, s, a) == Window(d) /\ Acks(d, q, a) /\ Data(d, q, s) /\ Recovery(d, q, s, a)

SameSender(d, x) ==
  /\ x.vs = d.vs /\ x.va = d.va /\ x.hist = d.hist
  /\ x.buf = d.buf /\ x.out = d.out /\ x.state = d.state
SameReceiver(q, x) == x.vr = q.vr /\ x.rcv = q.rcv

(* A direction depends on part of its data links only. *)
LEMMA DirectionFields ==
  ASSUME NEW d, NEW x, SameSender(d, x), NEW q, NEW y, SameReceiver(q, y), NEW s, NEW a
  PROVE  Direction(d, q, s, a) => Direction(x, y, s, a)
  BY DEF Direction, Window, Acks, Data, Recovery, SameSender, SameReceiver, Latest, Carried, Passed, Reassembled

(* A frame that is lost or has no effect. *)
LEMMA FrameGone ==
  ASSUME NEW d, NEW q, NEW s \in Seq(Frames), NEW a \in Seq(Frames), Direction(d, q, s, a)
  PROVE  /\ s # <<>> => Direction(d, q, Tail(s), a)
         /\ a # <<>> => Direction(d, q, s, Tail(a))
<1>1. ASSUME s # <<>> PROVE Direction(d, q, Tail(s), a)
  <2>1. Within(Tail(s)) \subseteq Within(s)
    BY <1>1, TailParts
  <2> QED
    BY <2>1 DEF Direction, Data, Recovery
<1>2. ASSUME a # <<>> PROVE Direction(d, q, s, Tail(a))
  <2>1. /\ Within(Tail(a)) \subseteq Within(a)
        /\ AtMostOne(a, Endings) => AtMostOne(Tail(a), Endings)
        /\ Settles(a, q.vr) => Settles(Tail(a), q.vr)
    BY <1>2, TailParts
  <2>2. Acks(d, q, Tail(a))
    BY <2>1 DEF Direction, Acks
  <2>3. Recovery(d, q, s, Tail(a))
    BY <2>1 DEF Direction, Recovery
  <2> QED
    BY <2>2, <2>3 DEF Direction
<1> QED
  BY <1>1, <1>2

(* d sends frames that are neither I frames nor polls. *)
LEMMA AnswerSent ==
  ASSUME NEW d, NEW q, NEW s \in Seq(Frames), NEW a \in Seq(Frames), Direction(d, q, s, a),
         NEW out \in Seq(Frames), \A f \in Within(out) : f.k # "I" /\ f \notin Polls
  PROVE  Direction(d, q, s \o out, a)
<1>1. Within(s \o out) = Within(s) \cup Within(out)
  BY JoinParts
<1>2. Data(d, q, s \o out)
  BY <1>1 DEF Direction, Data
<1>3. Recovery(d, q, s \o out, a)
  BY <1>1 DEF Direction, Recovery
<1> QED
  BY <1>2, <1>3 DEF Direction

(* d takes an acknowledgement. *)
Acknowledges(d, x, g) ==
  /\ x.va = g.nr /\ x.vs = d.vs /\ x.buf = d.buf /\ x.out = d.out
  /\ x.hist = Acked(d, g.nr).hist
  /\ x.state = IF g \in Finals THEN "MF_EST" ELSE d.state

LEMMA AckedAll ==
  ASSUME NEW d \in Datalinks, NEW nr \in Numbers, Window(d), nr \in {d.va, d.vs}
  PROVE  IF nr = d.va THEN Acked(d, nr).hist = d.hist ELSE \A h \in 1..2 : Acked(d, nr).hist[h] = None
<1> DEFINE Before(i) == (i + VRange - d.va) % VRange < (nr + VRange - d.va) % VRange
           a == Acked(d, nr).hist
<1>1. VRange \in Nat /\ VRange >= 4 /\ d.va \in Int /\ 0 <= d.va /\ d.va < VRange
  BY LapdAssumption DEF Datalinks, Numbers
<1>2. PICK n \in Nat : n = VRange /\ n >= 4
  BY <1>1
<1>3. PICK v \in 0..n - 1 : v = d.va
  BY <1>1, <1>2
<1>4. (v + n - v) % n = 0
  <2>1. v + n - v = n
    BY <1>2, <1>3
  <2> QED
    BY <2>1, <1>2
<1>5. d.hist \in [1..2 -> Segment \cup {None}]
  BY DEF Datalinks
<1>6. /\ a \in [1..2 -> Segment \cup {None}]
      /\ \A h \in 1..2 : a[h] = IF \E i \in 0..VRange - 1 : Before(i) /\ H(i) = h THEN None ELSE d.hist[h]
  <2>1. a \in [1..2 -> Segment \cup {None}]
    BY AckedFields
  <2>2. a = [h \in 1..2 |-> IF \E i \in 0..VRange - 1 : Before(i) /\ H(i) = h THEN None ELSE d.hist[h]]
    BY DEF Acked, Datalinks
  <2> QED
    BY <2>1, <2>2
<1>7. CASE nr = d.va
  <2>1. \A i \in 0..VRange - 1 : (i + VRange - d.va) % VRange >= 0
    BY <1>1
  <2>2. \A i \in 0..VRange - 1 : ~Before(i)
    BY <2>1, <1>2, <1>3, <1>4, <1>7
  <2>3. \A h \in 1..2 : a[h] = d.hist[h]
    BY <2>2, <1>6
  <2>4. a = d.hist
    BY <2>3, <1>5, <1>6
  <2> QED
    BY <2>4, <1>7
<1>8. CASE nr # d.va
  <2>1. nr = d.vs /\ nr = Inc(v)
    BY <1>3, <1>8 DEF Window
  <2>2. Inc(v) = IF v + 1 = n THEN 0 ELSE v + 1
    BY <1>2, <1>3 DEF Inc
  <2>3. (nr + n - v) % n = 1
    <3>1. CASE v + 1 = n
      <4>1. nr + n - v = 1
        BY <2>1, <2>2, <3>1, <1>2, <1>3
      <4> QED
        BY <4>1, <1>2
    <3>2. CASE v + 1 # n
      <4>1. nr + n - v = n + 1
        BY <2>1, <2>2, <3>2, <1>2, <1>3
      <4>2. (n + 1) % n = 1
        BY <1>2
      <4> QED
        BY <4>1, <4>2
    <3> QED
      BY <3>1, <3>2
  <2>4. Before(v) /\ v \in 0..VRange - 1
    BY <2>3, <1>2, <1>3, <1>4
  <2>5. H(v) \in 1..2 /\ H(Inc(v)) = 3 - H(v)
    BY <1>2, <1>3, NumbersWrap DEF Numbers
  <2> HIDE DEF Before
  <2>6. a[H(v)] = None
    BY <2>4, <2>5, <1>6
  <2>7. d.hist[3 - H(v)] = None
    BY <2>1, <2>5, <1>3, <1>8 DEF Window
  <2>8. a[3 - H(v)] = None
    BY <2>7, <2>5, <1>6
  <2>9. \A h \in 1..2 : h = H(v) \/ h = 3 - H(v)
    BY <2>5
  <2> QED
    BY <2>6, <2>8, <2>9, <1>8
<1> QED
  BY <1>7, <1>8

LEMMA AckTaken ==
  ASSUME NEW d \in Datalinks, NEW q \in Datalinks, NEW s \in Seq(Frames), NEW a \in Seq(Frames),
         Direction(d, q, s, a), a # <<>>, Numbered(Head(a)),
         NEW x \in Datalinks, Acknowledges(d, x, Head(a))
  PROVE  Direction(x, q, s, Tail(a))
<1> DEFINE g == Head(a)
           t == Tail(a)
<1>1. /\ t \in Seq(Frames) /\ g \in Frames /\ g \in Within(a) /\ Within(t) \subseteq Within(a)
      /\ AtMostOne(t, Endings) /\ (g \in Endings => Within(t) \cap Endings = {})
      /\ Settles(t, q.vr) /\ (g.nr = q.vr => \A b \in Within(t) : Numbered(b) => b.nr = q.vr)
  BY TailParts DEF Direction, Recovery, Acks
<1>2. g.nr \in {d.va, d.vs} /\ g.nr \in {d.va, q.vr} /\ q.vr \in {d.va, d.vs} /\ g.nr \in Numbers
  BY <1>1 DEF Direction, Acks, Datalinks
<1>3. IF g.nr = d.va THEN Acked(d, g.nr).hist = d.hist ELSE \A h \in 1..2 : Acked(d, g.nr).hist[h] = None
  BY <1>2, AckedAll DEF Direction
<1> HIDE DEF g, t
<1>4. /\ x.va = g.nr /\ x.vs = d.vs /\ x.buf = d.buf /\ x.out = d.out
      /\ x.hist = Acked(d, g.nr).hist
      /\ x.state = IF g \in Finals THEN "MF_EST" ELSE d.state
  BY DEF Acknowledges, g
<1>5. Window(x)
  BY <1>2, <1>3, <1>4 DEF Direction, Window, Latest
<1>6. Acks(x, q, t)
  BY <1>1, <1>2, <1>4 DEF Direction, Acks
<1>7. g \in Finals => /\ g.nr = d.vs /\ q.vr = d.vs /\ d.state = "TIMER_RECOV"
                      /\ Within(s) \cap Polls = {} /\ Within(t) \cap Endings = {}
  BY <1>1 DEF Direction, Recovery, Endings
<1>8. Data(x, q, s)
  <2>1. q.rcv = Reassembled(x, q)
    BY <1>4 DEF Direction, Data, Reassembled, Passed, First
  <2>2. ASSUME NEW f \in Within(s), f.k = "I" PROVE Carried(x, q, f)
    <3>1. Carried(d, q, f)
      BY <2>2 DEF Direction, Data
    <3>2. f \in Frames
      BY <2>2, WithinParts
    <3>3. CASE g \in Finals
      <4>1. ~f.f
        BY <3>2, <2>2, <3>3, <1>7 DEF Polls
      <4> QED
        BY <3>1, <4>1, <3>3, <1>7 DEF Carried
    <3>4. CASE g \notin Finals
      BY <3>1, <3>4, <1>4 DEF Carried, Latest
    <3> QED
      BY <3>3, <3>4
  <2> QED
    BY <2>1, <2>2 DEF Data
<1>9. Recovery(x, q, s, t)
  <2>1. Within(s) \cap Polls # {} \/ Within(t) \cap Endings # {} => x.state = "TIMER_RECOV"
    BY <1>1, <1>4, <1>7 DEF Direction, Recovery
  <2>2. Within(s) \cap Polls = {} \/ Within(t) \cap Endings = {}
    BY <1>1 DEF Direction, Recovery
  <2>3. \A b \in Within(t) \cap Finals : b.nr = x.vs /\ q.vr = x.vs
    BY <1>1, <1>4 DEF Direction, Recovery
  <2>4. ASSUME NEW f \in Within(s) \cap Polls, f.k = "RR" PROVE x.vs = x.va
    BY <2>4, <1>2, <1>4 DEF Direction, Recovery
  <2> QED
    BY <1>1, <2>1, <2>2, <2>3, <2>4 DEF Recovery
<1> QED
  BY <1>5, <1>6, <1>8, <1>9 DEF Direction, t

-----------------------------------------------------------------------------
(* lapd_send_i, for a window of one frame. *)

Segm(m, n) == [msg |-> m, part |-> n]

(* The segment to send next, after n of message m; rest stays in the queue. *)
Loads(d, m, n, rest) ==
  \/ /\ d.buf # "none" /\ d.out # Parts[d.buf]
     /\ m = d.buf /\ n = d.out /\ rest = d.queue
  \/ /\ d.buf = "none" \/ d.out = Parts[d.buf]
     /\ d.queue # <<>> /\ m = Head(d.queue) /\ n = 0 /\ rest = Tail(d.queue)

Sends(d, x, out, m, n) ==
  /\ m \in Msgs /\ n \in Nat /\ n < Parts[m]
  /\ d.state = "MF_EST" /\ d.vs = d.va
  /\ x.vs = Inc(d.vs) /\ x.va = d.va /\ x.hist = [d.hist EXCEPT ![H(d.vs)] = Segm(m, n + 1)]
  /\ x.buf = m /\ x.out = n + 1 /\ x.state = d.state
  /\ Loads(d, m, n, x.queue)
  /\ out = <<[k |-> "I", f |-> FALSE, ns |-> d.vs, nr |-> d.vr, seg |-> Segm(m, n + 1)]>>

SendsNothing(d, x, out) ==
  /\ out = <<>>
  /\ x.vs = d.vs /\ x.va = d.va /\ x.hist = d.hist /\ x.state = d.state /\ x.queue = d.queue
  /\ \/ x.buf = d.buf /\ x.out = d.out
     \/ /\ d.state = "MF_EST" /\ d.vs = d.va /\ d.queue = <<>>
        /\ d.buf = "none" \/ d.out = Parts[d.buf]
        /\ x.buf = "none" /\ x.out = 0

LEMMA SendICases ==
  ASSUME NEW d \in Datalinks, d.state \in Established, Window(d)
  PROVE  \/ SendsNothing(d, SendI(d).d, SendI(d).out)
         \/ \E m, n : Sends(d, SendI(d).d, SendI(d).out, m, n)
<1> DEFINE l == Loaded(d)
<1>1. CASE ~MaySend(d)
  BY <1>1 DEF SendI, SendsNothing
<1>2. CASE MaySend(d)
  <2>1. d.state = "MF_EST" /\ d.vs = d.va /\ d.vs \in Numbers
    BY <1>2 DEF MaySend, Window, Established, Datalinks
  <2>2. H(d.vs) \in 1..2
    BY <2>1, NumbersWrap
  <2>3. d.hist[H(d.vs)] = None
    BY <2>1, <2>2 DEF Window
  <2>4. d.buf = "none" \/ d.out \in 1..Parts[d.buf]
    BY DEF Window
  <2>5. l = IF d.buf = "none" \/ d.out = Parts[d.buf]
            THEN IF d.queue = <<>> THEN [d EXCEPT !.buf = "none", !.out = 0]
                 ELSE [d EXCEPT !.buf = Head(d.queue), !.queue = Tail(d.queue), !.out = 0]
            ELSE d
    BY <2>3 DEF Loaded, Datalinks
  <2>6. /\ l \in Datalinks /\ l.vs = d.vs /\ l.va = d.va /\ l.hist = d.hist /\ l.state = d.state /\ l.vr = d.vr
    <3>1. l \in Datalinks
      BY LoadedType
    <3> QED
      BY <3>1, <2>5 DEF Datalinks
  <2>7. HasNext(l) <=> l.buf # "none"
    BY <2>3, <2>6 DEF HasNext
  <2>8. CASE (d.buf = "none" \/ d.out = Parts[d.buf]) /\ d.queue = <<>>
    <3>1. l.buf = "none" /\ l.out = 0 /\ l.queue = d.queue
      BY <2>5, <2>8 DEF Datalinks
    <3> HIDE DEF l
    <3>2. SendI(d).d = l /\ SendI(d).out = <<>>
      BY <1>2, <2>7, <3>1 DEF SendI, l
    <3> QED
      BY <2>1, <2>6, <2>8, <3>1, <3>2 DEF SendsNothing
  <2>9. CASE ~((d.buf = "none" \/ d.out = Parts[d.buf]) /\ d.queue = <<>>)
    <3>1. Loads(d, l.buf, l.out, l.queue)
      BY <2>5, <2>9 DEF Loads, Datalinks
    <3>2. l.buf \in Msgs /\ l.out \in Nat /\ l.out < Parts[l.buf]
      <4>1. CASE d.buf # "none" /\ d.out # Parts[d.buf]
        BY <2>4, <2>5, <2>6, <4>1, LapdAssumption DEF Datalinks
      <4>2. CASE d.buf = "none" \/ d.out = Parts[d.buf]
        <5>1. l.buf = Head(d.queue) /\ l.out = 0
          BY <2>5, <2>9, <4>2 DEF Datalinks
        <5>2. d.queue \in Seq(Msgs) /\ d.queue # <<>>
          BY <2>9, <4>2 DEF Datalinks
        <5>3. Head(d.queue) \in Msgs
          BY <5>2
        <5> QED
          BY <5>1, <5>3, LapdAssumption
      <4> QED
        BY <4>1, <4>2
    <3> DEFINE x == FrameSent(l)
               seg == NextSegment(l)
    <3>3. HasNext(l)
      BY <3>2, <2>7, LapdAssumption
    <3>4. seg = Segm(l.buf, l.out + 1)
      BY <2>3, <2>6 DEF NextSegment, Segm
    <3> HIDE DEF l
    <3>5. /\ x.vs = Inc(l.vs) /\ x.va = l.va /\ x.hist = [l.hist EXCEPT ![H(l.vs)] = seg]
          /\ x.buf = l.buf /\ x.out = l.out + 1 /\ x.state = l.state /\ x.queue = l.queue
      <4> DEFINE v == Inc(l.vs)
                 h == [l.hist EXCEPT ![H(l.vs)] = NextSegment(l)]
                 o == IF l.hist[H(l.vs)] = None THEN l.out + 1 ELSE l.out
      <4>1. x = [l EXCEPT !.vs = v, !.hist = h, !.t200 = TRUE, !.out = o]
        BY <2>6, FrameSentFields
      <4>2. o = l.out + 1
        BY <2>3, <2>6
      <4> HIDE DEF v, h, o, x, seg
      <4>3. /\ x.vs = v /\ x.va = l.va /\ x.hist = h /\ x.buf = l.buf /\ x.out = o /\ x.state = l.state
            /\ x.queue = l.queue
        BY <4>1, <2>6 DEF Datalinks
      <4> QED
        BY <4>2, <4>3 DEF v, h, seg
    <3>6. SendI(d).d = x /\ SendI(d).out = <<I(l, l.vs, FALSE, seg)>>
      BY <1>2, <3>3 DEF SendI, l
    <3> HIDE DEF x, seg
    <3>7. Sends(d, x, <<I(l, l.vs, FALSE, seg)>>, l.buf, l.out)
      BY <2>1, <2>6, <3>1, <3>2, <3>4, <3>5 DEF Sends, I
    <3> QED
      BY <3>6, <3>7
  <2> QED
    BY <2>8, <2>9
<1> QED
  BY <1>1, <1>2

LEMMA FirstNone == ASSUME NEW m PROVE First(m, 0) = <<>>
  BY DEF First

(* No I frame of d is under way when it may send the next one. *)
LEMMA NothingSent ==
  ASSUME NEW d \in Datalinks, NEW q \in Datalinks, NEW s \in Seq(Frames), NEW a \in Seq(Frames),
         Direction(d, q, s, a), d.state = "MF_EST", d.vs = d.va
  PROVE  /\ \A f \in Within(s) : f.k # "I"
         /\ q.vr = d.va
<1>1. q.vr = d.vs /\ d.vs \in Numbers
  BY DEF Direction, Acks, Datalinks
<1>2. ASSUME NEW f \in Within(s), f.k = "I" PROVE FALSE
  <2>1. f \in IFrames
    BY <1>2, WithinParts, FrameKinds
  <2>2. Carried(d, q, f) /\ f.ns \in Numbers
    BY <1>2, <2>1 DEF Direction, Data, IFrames
  <2>3. f.ns = q.vr /\ Inc(f.ns) = d.vs
    BY <2>2 DEF Carried
  <2> QED
    BY <1>1, <2>2, <2>3, NumbersWrap
<1> QED
  BY <1>1, <1>2

(* Frames that lapd_send_i sends. *)
GoesOn(o, v) == \A g \in Within(o) : g.k = "I" /\ ~g.f /\ g.nr = v

LEMMA SegmentSent ==
  ASSUME NEW d \in Datalinks, NEW q \in Datalinks, NEW s \in Seq(Frames), NEW a \in Seq(Frames),
         Direction(d, q, s, a), d.state \in Established, AtMostOne(s, IFrames)
  PROVE  /\ Direction(SendI(d).d, q, s \o SendI(d).out, a)
         /\ AtMostOne(s \o SendI(d).out, IFrames)
         /\ GoesOn(SendI(d).out, d.vr)
         /\ SendI(d).d.vr = d.vr /\ SendI(d).d.rcv = d.rcv
<1> DEFINE x == SendI(d).d
           out == SendI(d).out
<1>1. /\ x.vr = d.vr /\ x.rcv = d.rcv /\ out \in Seq(Frames)
  BY SendIKeeps, SendIType
<1>2. Window(d)
  BY DEF Direction
<1>3. SendsNothing(d, x, out) \/ \E m, n : Sends(d, x, out, m, n)
  BY <1>2, SendICases
<1> HIDE DEF x, out
<1>4. Direction(x, q, s \o out, a) /\ AtMostOne(s \o out, IFrames) /\ GoesOn(out, d.vr)
  <2>1. CASE SendsNothing(d, x, out)
    <3>1. s \o out = s /\ Within(out) = {} /\ GoesOn(out, d.vr)
      BY <2>1, NoFrame DEF SendsNothing, GoesOn
    <3>2. CASE x.buf = d.buf /\ x.out = d.out
      <4>1. SameSender(d, x) /\ SameReceiver(q, q)
        BY <2>1, <3>2 DEF SendsNothing, SameSender, SameReceiver
      <4> QED
        BY <3>1, <4>1, DirectionFields
    <3>3. CASE ~(x.buf = d.buf /\ x.out = d.out)
      <4>1. /\ x.vs = d.vs /\ x.va = d.va /\ x.hist = d.hist /\ x.state = d.state
            /\ d.state = "MF_EST" /\ d.vs = d.va
            /\ d.buf = "none" \/ d.out = Parts[d.buf]
            /\ x.buf = "none"
        BY <2>1, <3>3 DEF SendsNothing
      <4>2. (\A f \in Within(s) : f.k # "I") /\ q.vr = d.va
        BY <4>1, NothingSent
      <4>3. Window(x) /\ Acks(x, q, a) /\ Recovery(x, q, s, a)
        BY <4>1 DEF Direction, Window, Acks, Recovery
      <4>4. q.rcv = <<>>
        BY <4>1, <4>2 DEF Direction, Data, Reassembled, Passed
      <4>5. Data(x, q, s)
        BY <4>1, <4>2, <4>4 DEF Data, Reassembled
      <4> QED
        BY <3>1, <4>3, <4>5 DEF Direction
    <3> QED
      BY <3>2, <3>3
  <2>2. ASSUME NEW m, NEW n, Sends(d, x, out, m, n)
        PROVE  Direction(x, q, s \o out, a) /\ AtMostOne(s \o out, IFrames)
               /\ GoesOn(out, d.vr)
    <3> DEFINE i == [k |-> "I", f |-> FALSE, ns |-> d.vs, nr |-> d.vr, seg |-> Segm(m, n + 1)]
    <3>1. /\ m \in Msgs /\ n \in Nat /\ n < Parts[m] /\ Parts[m] \in Nat /\ m # "none"
          /\ d.state = "MF_EST" /\ d.vs = d.va /\ d.vs \in Numbers
          /\ x.vs = Inc(d.vs) /\ x.va = d.va /\ x.hist = [d.hist EXCEPT ![H(d.vs)] = Segm(m, n + 1)]
          /\ x.buf = m /\ x.out = n + 1 /\ x.state = d.state
          /\ Loads(d, m, n, x.queue)
          /\ out = <<i>>
      BY <2>2, LapdAssumption DEF Sends, Datalinks
    <3>2. (\A f \in Within(s) : f.k # "I") /\ q.vr = d.va
      BY <3>1, NothingSent
    <3>3. i.k = "I" /\ ~i.f /\ i.ns = d.vs /\ i.nr = d.vr /\ i.seg = Segm(m, n + 1)
      OBVIOUS
    <3> HIDE DEF i
    <3>4. Within(out) = {i}
      BY <3>1, WithinParts
    <3>5. Within(s \o out) = Within(s) \cup {i}
      BY <1>1, <3>4, JoinParts
    <3>6. AtMostOne(s \o out, IFrames)
      <4>1. Within(s) \cap IFrames = {}
        BY <3>2 DEF IFrames
      <4>2. AtMostOne(out, IFrames)
        BY <3>1 DEF AtMostOne
      <4> QED
        BY <1>1, <4>1, <4>2, JoinParts
    <3>7. Inc(d.vs) # d.vs /\ H(d.vs) \in 1..2 /\ H(Inc(d.vs)) = 3 - H(d.vs)
      BY <3>1, NumbersWrap
    <3>8. Window(x)
      <4>1. d.hist[1] = None /\ d.hist[2] = None /\ d.hist \in [1..2 -> Segment \cup {None}]
        BY <1>2, <3>1 DEF Window, Datalinks
      <4>2. x.hist[H(x.va)] = Latest(x)
        BY <4>1, <3>1, <3>7 DEF Latest, Segm
      <4>3. x.hist[H(x.vs)] = None
        BY <4>1, <3>1, <3>7
      <4> QED
        BY <3>1, <3>7, <4>2, <4>3 DEF Window
    <3>9. Acks(x, q, a)
      BY <3>1, <3>2 DEF Direction, Acks
    <3>10. Recovery(x, q, s \o out, a)
      <4>1. Within(s) \cap Polls = {} /\ Within(a) \cap Endings = {}
        BY <3>1 DEF Direction, Recovery
      <4>2. i \notin Polls
        BY <3>3 DEF Polls
      <4>3. Within(s \o out) \cap Polls = {}
        BY <3>5, <4>1, <4>2
      <4>4. Within(a) \cap Finals = {}
        BY <4>1 DEF Endings
      <4>5. AtMostOne(a, Endings)
        BY DEF Direction, Recovery
      <4> QED
        BY <4>1, <4>3, <4>4, <4>5 DEF Recovery
    <3>11. q.rcv = Reassembled(x, q)
      <4>1. Reassembled(x, q) = First(m, n)
        BY <3>1, <3>2, <3>7 DEF Reassembled, Passed
      <4>2. q.rcv = Reassembled(d, q) /\ Passed(d, q) = d.out
        BY <3>1, <3>2 DEF Direction, Data, Passed
      <4>3. CASE d.buf # "none" /\ d.out # Parts[d.buf]
        BY <3>1, <4>1, <4>2, <4>3 DEF Loads, Reassembled
      <4>4. CASE d.buf = "none" \/ d.out = Parts[d.buf]
        <5>1. q.rcv = <<>>
          BY <4>2, <4>4 DEF Reassembled
        <5>2. n = 0
          BY <3>1, <4>4 DEF Loads
        <5> QED
          BY <4>1, <5>1, <5>2, FirstNone
      <4> QED
        BY <4>3, <4>4
    <3>12. Carried(x, q, i)
      BY <3>1, <3>2, <3>3 DEF Carried, Latest, Segm
    <3>13. Data(x, q, s \o out)
      BY <3>2, <3>5, <3>11, <3>12 DEF Data
    <3>14. GoesOn(out, d.vr)
      BY <3>3, <3>4 DEF GoesOn
    <3> QED
      BY <3>6, <3>8, <3>9, <3>10, <3>13, <3>14 DEF Direction
  <2> QED
    BY <1>3, <2>1, <2>2
<1> QED
  BY <1>1, <1>4 DEF x, out

-----------------------------------------------------------------------------
(* The other end of a direction. *)

LEMMA FirstNext ==
  ASSUME NEW m \in Msgs, NEW n \in Nat
  PROVE  /\ First(m, n) \in Seq(Segment)
         /\ Append(First(m, n), Segm(m, n + 1)) = First(m, n + 1)
<1>1. First(m, n) \in Seq(Segment) /\ Len(First(m, n)) = n
  BY DEF First, Segment
<1>2. First(m, n + 1) \in Seq(Segment) /\ Len(First(m, n + 1)) = n + 1
  BY DEF First, Segment
<1>3. Segm(m, n + 1) \in Segment
  BY DEF Segm, Segment
<1> DEFINE u == Append(First(m, n), Segm(m, n + 1))
<1>4. u \in Seq(Segment) /\ Len(u) = n + 1
  BY <1>1, <1>3
<1>5. \A i \in 1..n + 1 : u[i] = First(m, n + 1)[i]
  BY <1>1, <1>3 DEF First, Segm
<1> DEFINE w == First(m, n + 1)
<1> HIDE DEF u, w
<1>6. u = w
  <2>1. w \in Seq(Segment) /\ Len(w) = Len(u) /\ \A i \in 1..Len(u) : u[i] = w[i]
    BY <1>2, <1>4, <1>5 DEF w
  <2> QED
    BY <1>4, <2>1, SeqEqual
<1> QED
  BY <1>1, <1>6 DEF u, w

(* What q becomes when it has received f. *)
Hears(q, y, f) ==
  IF f.k = "I" /\ f.ns = q.vr
  THEN y.vr = Inc(q.vr) /\ y.rcv = IF More(f.seg) THEN Append(q.rcv, f.seg) ELSE <<>>
  ELSE SameReceiver(q, y)

(* An I frame that is expected is the latest segment, and all q has sent
   acknowledges what came before it. *)
LEMMA ExpectedFrame ==
  ASSUME NEW d \in Datalinks, NEW q \in Datalinks, NEW s \in Seq(Frames), NEW a \in Seq(Frames),
         Direction(d, q, s, a), NEW f \in Within(s), f.k = "I", f.ns = q.vr
  PROVE  /\ q.vr = d.va /\ d.vs = Inc(q.vr) /\ d.vs # q.vr /\ f.seg = Latest(d)
         /\ d.buf \in Msgs /\ d.out \in 1..Parts[d.buf]
         /\ q.rcv = First(d.buf, d.out - 1)
<1>1. Carried(d, q, f) /\ q.vr \in Numbers /\ q.vr \in {d.va, d.vs}
  BY DEF Direction, Data, Acks, Datalinks
<1>2. Inc(q.vr) # q.vr /\ Inc(q.vr) = d.vs /\ f.seg = Latest(d)
  BY <1>1, NumbersWrap DEF Carried
<1>3. q.vr = d.va /\ d.vs # d.va
  BY <1>1, <1>2
<1>4. d.buf # "none" /\ d.out \in 1..Parts[d.buf] /\ d.buf \in Msgs
  BY <1>3 DEF Direction, Window, Datalinks
<1>5. Parts[d.buf] \in Nat
  BY <1>4, LapdAssumption
<1>6. d.out - 1 # Parts[d.buf]
  BY <1>4, <1>5
<1>7. q.rcv = First(d.buf, d.out - 1)
  BY <1>2, <1>3, <1>4, <1>6 DEF Direction, Data, Reassembled, Passed
<1> QED
  BY <1>2, <1>3, <1>4, <1>7

LEMMA FrameHeard ==
  ASSUME NEW d \in Datalinks, NEW q \in Datalinks, NEW s \in Seq(Frames), NEW a \in Seq(Frames),
         Direction(d, q, s, a), AtMostOne(s, IFrames), AtMostOne(s, Polls), s # <<>>,
         NEW y \in Datalinks, Hears(q, y, Head(s)),
         NEW out \in Seq(Frames), \A g \in Within(out) : Numbered(g) => g.nr = y.vr,
         AtMostOne(out, Endings), Within(out) \cap Endings # {} => Head(s) \in Polls
  PROVE  Direction(d, y, Tail(s), a \o out)
<1> DEFINE f == Head(s)
           t == Tail(s)
           b == a \o out
<1>1. /\ f \in Frames /\ f \in Within(s) /\ Within(t) \subseteq Within(s)
      /\ (f \in IFrames => Within(t) \cap IFrames = {}) /\ (f \in Polls => Within(t) \cap Polls = {})
  BY TailParts
<1>2. /\ b \in Seq(Frames) /\ Within(b) = Within(a) \cup Within(out)
      /\ Within(a) \cap Endings = {} => AtMostOne(b, Endings)
      /\ AtMostOne(a, Endings) /\ Within(out) \cap Endings = {} => AtMostOne(b, Endings)
      /\ \A v : Settles(a, v) /\ (\A g \in Within(out) : Numbered(g) => g.nr = v) => Settles(b, v)
  BY JoinParts
<1>3. Hears(q, y, f) /\ (Within(out) \cap Endings # {} => f \in Polls)
  OBVIOUS
<1> HIDE DEF f, t, b
<1>4. CASE f.k = "I" /\ f.ns = q.vr
  <2>1. /\ q.vr = d.va /\ d.vs = Inc(q.vr) /\ d.vs # q.vr /\ f.seg = Latest(d)
        /\ d.buf \in Msgs /\ d.out \in 1..Parts[d.buf]
        /\ q.rcv = First(d.buf, d.out - 1)
    BY <1>1, <1>4, ExpectedFrame
  <2>2. y.vr = d.vs /\ y.rcv = IF More(f.seg) THEN Append(q.rcv, f.seg) ELSE <<>>
    BY <1>3, <1>4, <2>1 DEF Hears
  <2>3. \A g \in Within(a) : Numbered(g) => g.nr = d.va
    BY <2>1 DEF Direction, Acks
  <2>4. Settles(a, d.vs)
    <3>1. \A i \in 1..Len(a) : a[i] \in Within(a)
      BY DEF Within
    <3> QED
      BY <3>1, <2>1, <2>3 DEF Settles
  <2>5. Acks(d, y, b)
    BY <1>2, <2>1, <2>2, <2>3, <2>4 DEF Acks
  <2>6. \A g \in Within(t) : g.k # "I"
    <3>1. f \in IFrames
      BY <1>1, <1>4, FrameKinds
    <3>2. \A g \in Within(t) : g \in Frames
      BY <1>1, WithinParts
    <3> QED
      BY <3>1, <3>2, <1>1, FrameKinds
  <2>7. y.rcv = Reassembled(d, y)
    <3>1. Parts[d.buf] \in Nat /\ d.buf # "none" /\ d.out \in Nat /\ d.out >= 1
      BY <2>1, LapdAssumption
    <3>2. Reassembled(d, y) = IF d.out = Parts[d.buf] THEN <<>> ELSE First(d.buf, d.out)
      BY <2>2, <3>1 DEF Reassembled, Passed
    <3>3. More(f.seg) <=> d.out # Parts[d.buf]
      BY <2>1, <3>1 DEF More, Latest
    <3>4. d.out - 1 \in Nat /\ (d.out - 1) + 1 = d.out
      BY <3>1
    <3>5. Append(First(d.buf, d.out - 1), Segm(d.buf, (d.out - 1) + 1)) = First(d.buf, (d.out - 1) + 1)
      BY <2>1, <3>4, FirstNext
    <3>6. f.seg = Segm(d.buf, d.out)
      BY <2>1 DEF Latest, Segm
    <3>7. Append(q.rcv, f.seg) = First(d.buf, d.out)
      BY <2>1, <3>4, <3>5, <3>6
    <3> QED
      BY <2>2, <3>2, <3>3, <3>7
  <2>8. Data(d, y, t)
    BY <2>6, <2>7 DEF Data
  <2>9. Recovery(d, y, t, b)
    <3>1. CASE Within(out) \cap Endings = {}
      <4>1. \A g \in Within(a) \cap Finals : FALSE
        BY <2>1 DEF Direction, Recovery
      <4>2. AtMostOne(b, Endings)
        BY <1>2, <3>1 DEF Direction, Recovery
      <4>3. \A g \in Within(b) \cap Finals : FALSE
        BY <1>2, <3>1, <4>1 DEF Endings
      <4>4. /\ Within(t) \cap Polls # {} \/ Within(b) \cap Endings # {} => d.state = "TIMER_RECOV"
            /\ Within(t) \cap Polls = {} \/ Within(b) \cap Endings = {}
            /\ \A g \in Within(t) \cap Polls : g.k = "RR" => d.vs = d.va
        BY <1>1, <1>2, <3>1 DEF Direction, Recovery
      <4> QED
        BY <4>2, <4>3, <4>4 DEF Recovery
    <3>2. CASE Within(out) \cap Endings # {}
      <4>1. f \in Polls
        BY <1>3, <3>2
      <4>2. Within(t) \cap Polls = {} /\ Within(a) \cap Endings = {} /\ d.state = "TIMER_RECOV"
        BY <1>1, <4>1 DEF Direction, Recovery
      <4>3. \A g \in Within(b) \cap Finals : g.nr = d.vs
        BY <1>2, <2>2, <4>2 DEF Endings, Finals, Numbered
      <4> QED
        BY <1>2, <2>2, <4>2, <4>3 DEF Recovery
    <3> QED
      BY <3>1, <3>2
  <2> QED
    BY <2>5, <2>8, <2>9 DEF Direction, t, b
<1>5. CASE ~(f.k = "I" /\ f.ns = q.vr)
  <2>1. y.vr = q.vr /\ y.rcv = q.rcv
    BY <1>3, <1>5 DEF Hears, SameReceiver
  <2>2. Acks(d, y, b)
    BY <1>2, <2>1 DEF Direction, Acks
  <2>3. Data(d, y, t)
    BY <1>1, <2>1 DEF Direction, Data, Carried, Reassembled, Passed
  <2>4. Recovery(d, y, t, b)
    <3>1. CASE Within(out) \cap Endings = {}
      <4>1. Within(b) \cap Finals = Within(a) \cap Finals /\ Within(b) \cap Endings = Within(a) \cap Endings
        BY <1>2, <3>1 DEF Endings
      <4>2. AtMostOne(b, Endings)
        BY <1>2, <3>1 DEF Direction, Recovery
      <4> QED
        BY <1>1, <2>1, <4>1, <4>2 DEF Direction, Recovery
    <3>2. CASE Within(out) \cap Endings # {}
      <4>1. f \in Polls
        BY <1>3, <3>2
      <4>2. Within(t) \cap Polls = {} /\ Within(a) \cap Endings = {} /\ d.state = "TIMER_RECOV"
        BY <1>1, <4>1 DEF Direction, Recovery
      <4>3. q.vr = d.vs
        <5>1. CASE f.k = "RR"
          BY <1>1, <4>1, <5>1 DEF Direction, Recovery, Acks
        <5>2. CASE f.k = "I"
          <6>1. f \in IFrames
            BY <1>1, <5>2, FrameKinds
          <6>2. Carried(d, q, f) /\ f.ns \in Numbers /\ d.va \in Numbers
            BY <1>1, <5>2, <6>1 DEF Direction, Data, IFrames, Datalinks
          <6>3. Inc(f.ns) = d.vs /\ f.ns # q.vr
            BY <1>5, <5>2, <6>2 DEF Carried
          <6>4. Inc(d.va) = d.vs => d.va = f.ns
            BY <6>2, <6>3, NumbersWrap
          <6> QED
            BY <6>3, <6>4 DEF Direction, Acks, Window
        <5> QED
          BY <4>1, <5>1, <5>2 DEF Polls
      <4>4. \A g \in Within(b) \cap Finals : g.nr = d.vs
        BY <1>2, <2>1, <4>2, <4>3 DEF Endings, Finals, Numbered
      <4> QED
        BY <1>2, <2>1, <4>2, <4>3, <4>4 DEF Recovery
    <3> QED
      BY <3>1, <3>2
  <2> QED
    BY <2>2, <2>3, <2>4 DEF Direction, t, b, Window
<1> QED
  BY <1>4, <1>5

-----------------------------------------------------------------------------
(* What an established entity makes of a supervisory or I frame. *)

(* It answers f with one frame at most, and with the F bit only a poll. *)
Answers(d, x, out, f) ==
  \/ out = <<>>
  \/ \E r \in Frames : /\ out = <<r>> /\ r.k \in {"RR", "REJ"} /\ ~r.cmd /\ r.nr = x.vr
                       /\ r.f => f \in Polls
                       /\ r.k = "REJ" => f.k = "I" /\ f.ns # d.vr /\ r.f = f.f

(* x and out before it goes on sending *)
Handles(d, x, out, f) ==
  /\ x \in Datalinks
  /\ x.state = IF f \in Finals THEN "MF_EST" ELSE d.state
  /\ x.vs = IF f.k = "REJ" \/ (f \in Finals /\ d.state = "TIMER_RECOV") THEN f.nr ELSE d.vs
  /\ x.va = f.nr /\ x.hist = Acked(d, f.nr).hist
  /\ SameLink(x, d)
  /\ Hears(d, x, f)
  /\ Answers(d, x, out, f)

LEMMA AnswersParts ==
  ASSUME NEW d, NEW x, NEW out, NEW f, Answers(d, x, out, f)
  PROVE  /\ out \in Seq(Frames)
         /\ \A g \in Within(out) : /\ g.k \in {"RR", "REJ"} /\ ~g.cmd /\ g.nr = x.vr /\ g \notin Polls
                                   /\ g.f => f \in Polls
                                   /\ g.k = "REJ" => f.k = "I" /\ f.ns # d.vr /\ g.f = f.f
         /\ AtMostOne(out, Endings)
         /\ Within(out) \cap Endings # {} => f \in Polls
<1>1. CASE out = <<>>
  <2>1. out \in Seq(Frames) /\ Within(out) = {} /\ AtMostOne(out, Endings)
    BY <1>1, NoFrame DEF AtMostOne
  <2> QED
    BY <2>1
<1>2. ASSUME NEW r \in Frames, out = <<r>>, r.k \in {"RR", "REJ"}, ~r.cmd, r.nr = x.vr, r.f => f \in Polls,
             r.k = "REJ" => f.k = "I" /\ f.ns # d.vr /\ r.f = f.f
      PROVE  /\ out \in Seq(Frames) /\ Within(out) = {r} /\ AtMostOne(out, Endings)
             /\ r \notin Polls /\ (r \in Endings => f \in Polls)
  <2>1. out \in Seq(Frames) /\ Within(out) = {r}
    BY <1>2, OneFrame
  <2>2. AtMostOne(out, Endings)
    BY <1>2 DEF AtMostOne
  <2> QED
    BY <1>2, <2>1, <2>2 DEF Polls, Endings, Finals
<1>3. CASE \E r \in Frames : /\ out = <<r>> /\ r.k \in {"RR", "REJ"} /\ ~r.cmd /\ r.nr = x.vr
                             /\ r.f => f \in Polls
                             /\ r.k = "REJ" => f.k = "I" /\ f.ns # d.vr /\ r.f = f.f
  <2>1. PICK r \in Frames : /\ out = <<r>> /\ r.k \in {"RR", "REJ"} /\ ~r.cmd /\ r.nr = x.vr
                            /\ r.f => f \in Polls
                            /\ r.k = "REJ" => f.k = "I" /\ f.ns # d.vr /\ r.f = f.f
    BY <1>3
  <2>2. /\ out \in Seq(Frames) /\ Within(out) = {r} /\ AtMostOne(out, Endings)
        /\ r \notin Polls /\ (r \in Endings => f \in Polls)
    BY <1>2, <2>1
  <2> QED
    BY <2>1, <2>2
<1> QED
  BY <1>1, <1>3 DEF Answers

LEMMA HandlesRR ==
  ASSUME NEW d \in Datalinks, d.state \in Established, NEW f \in Frames, f.k = "RR"
  PROVE  Handles(d, AfterRR(d, f), AnswerRR(d, f), f)
<1> DEFINE x == AfterRR(d, f)
           r == RR(Acknowledge(d, f), TRUE, FALSE)
<1>1. f \in SFrames /\ f.nr \in Numbers /\ f.f \in BOOLEAN /\ f.cmd \in BOOLEAN
  BY FrameKinds DEF SFrames
<1>2. /\ x \in Datalinks
      /\ x.state = IF Ends(d, f) THEN "MF_EST" ELSE d.state
      /\ x.vs = IF Ends(d, f) THEN f.nr ELSE d.vs
      /\ x.vr = d.vr /\ x.va = f.nr /\ x.hist = Acked(d, f.nr).hist /\ x.rcv = d.rcv /\ SameLink(x, d)
  BY <1>1, AfterRRFields
<1>3. f \in Finals <=> ~f.cmd /\ f.f
  BY DEF Finals
<1>4. Hears(d, x, f)
  BY <1>2 DEF Hears, SameReceiver
<1>5. Acknowledge(d, f) \in Datalinks /\ Acknowledge(d, f).vr = d.vr
  BY <1>1, AcknowledgeKeeps
<1>6. r \in Frames /\ r.k = "RR" /\ ~r.cmd /\ r.nr = d.vr
  BY <1>5, FramesMade DEF RR
<1>7. AnswerRR(d, f) = <<>> \/ (AnswerRR(d, f) = <<r>> /\ f \in Polls)
  BY <1>1 DEF AnswerRR, Polls
<1> HIDE DEF x, r
<1>8. Answers(d, x, AnswerRR(d, f), f)
  BY <1>2, <1>6, <1>7 DEF Answers
<1>9. Handles(d, x, AnswerRR(d, f), f)
  BY <1>2, <1>3, <1>4, <1>8 DEF Handles, Ends, Established
<1> QED
  BY <1>9 DEF x

LEMMA HandlesREJ ==
  ASSUME NEW d \in Datalinks, d.state \in Established, NEW f \in Frames, f.k = "REJ", ~f.cmd
  PROVE  Handles(d, AfterREJ(d, f), <<>>, f)
<1> DEFINE x == AfterREJ(d, f)
<1>1. f \in SFrames /\ f.nr \in Numbers /\ f.f \in BOOLEAN
  BY FrameKinds DEF SFrames
<1>2. /\ x \in Datalinks
      /\ x.state = IF f.f THEN IF d.state = "TIMER_RECOV" THEN "MF_EST" ELSE d.state ELSE d.state
      /\ x.vs = f.nr
      /\ x.vr = d.vr /\ x.va = f.nr /\ x.hist = Acked(d, f.nr).hist /\ x.rcv = d.rcv /\ SameLink(x, d)
  BY <1>1, AfterREJFields
<1>3. f \in Finals <=> f.f
  BY DEF Finals
<1> HIDE DEF x
<1>4. Hears(d, x, f)
  BY <1>2 DEF Hears, SameReceiver
<1>5. Handles(d, x, <<>>, f)
  BY <1>2, <1>3, <1>4 DEF Handles, Answers, Established
<1> QED
  BY <1>5 DEF x

LEMMA HandlesOdd ==
  ASSUME NEW d \in Datalinks, d.state \in Established, NEW f \in Frames, f.k = "I", f.ns # d.vr
  PROVE  Handles(d, AfterOdd(d, f), AnswerOdd(d, f), f)
<1> DEFINE x == AfterOdd(d, f)
           r == REJ(d, f.f)
<1>1. f \in IFrames /\ f.nr \in Numbers /\ f.f \in BOOLEAN
  BY FrameKinds DEF IFrames
<1>2. /\ x \in Datalinks /\ x.state = d.state /\ x.vs = d.vs
      /\ x.vr = d.vr /\ x.va = f.nr /\ x.hist = Acked(d, f.nr).hist /\ x.rcv = d.rcv /\ SameLink(x, d)
  BY <1>1, AfterOddFields
<1>3. f \notin Finals /\ (f.f => f \in Polls)
  BY DEF Finals, Polls
<1>4. Hears(d, x, f)
  BY <1>2 DEF Hears, SameReceiver
<1>5. r \in Frames /\ r.k = "REJ" /\ ~r.cmd /\ r.nr = d.vr /\ r.f = f.f
  BY <1>1, FramesMade DEF REJ
<1>6. AnswerOdd(d, f) = <<>> \/ AnswerOdd(d, f) = <<r>>
  BY DEF AnswerOdd
<1> HIDE DEF x, r
<1>7. Answers(d, x, AnswerOdd(d, f), f)
  BY <1>2, <1>3, <1>5, <1>6 DEF Answers
<1>8. Handles(d, x, AnswerOdd(d, f), f)
  BY <1>2, <1>3, <1>4, <1>7 DEF Handles
<1> QED
  BY <1>8 DEF x

LEMMA HandlesNext ==
  ASSUME NEW d \in Datalinks, d.state \in Established, NEW f \in Frames, f.k = "I", f.ns = d.vr, NEW s
  PROVE  /\ Handles(d, AfterNext(d, f), AnswerNext(d, f, s), f)
         /\ AnswerNext(d, f, s) # <<>> \/ s # <<>>
<1> DEFINE x == AfterNext(d, f)
           r == RR(x, TRUE, FALSE)
           q == RR(x, FALSE, FALSE)
<1>1. f \in IFrames /\ f.nr \in Numbers /\ f.f \in BOOLEAN /\ f.seg \in Segment
  BY FrameKinds DEF IFrames
<1>2. /\ x \in Datalinks /\ x.state = d.state /\ x.vs = d.vs
      /\ x.vr = Inc(d.vr) /\ x.va = f.nr /\ x.hist = Acked(d, f.nr).hist
      /\ x.rcv = IF More(f.seg) THEN Append(d.rcv, f.seg) ELSE <<>>
      /\ SameLink(x, d)
  BY <1>1, AfterNextFields
<1>3. f \notin Finals /\ (f.f => f \in Polls)
  BY DEF Finals, Polls
<1>4. Hears(d, x, f)
  BY <1>2 DEF Hears
<1>6. AnswerNext(d, f, s) = IF f.f THEN <<r>> ELSE IF s = <<>> THEN <<q>> ELSE <<>>
  BY DEF AnswerNext
<1> HIDE DEF x
<1>5. /\ r \in Frames /\ r.k = "RR" /\ ~r.cmd /\ r.nr = x.vr
      /\ q \in Frames /\ q.k = "RR" /\ ~q.cmd /\ q.nr = x.vr /\ ~q.f
  BY <1>2, FramesMade DEF RR
<1> HIDE DEF r, q
<1>7. Answers(d, x, AnswerNext(d, f, s), f)
  BY <1>3, <1>5, <1>6 DEF Answers
<1>8. Handles(d, x, AnswerNext(d, f, s), f)
  BY <1>2, <1>3, <1>4, <1>7 DEF Handles
<1>9. AnswerNext(d, f, s) # <<>> \/ s # <<>>
  BY <1>6
<1> QED
  BY <1>8, <1>9 DEF x

(* What layer 3 is given with f. *)
Delivers(e, f) ==
  got' = IF f.k = "I" /\ f.ns = dl[e].vr /\ ~More(f.seg)
         THEN [got EXCEPT ![e] = Append(@, Append(dl[e].rcv, f.seg))] ELSE got

LEMMA ActiveReceives ==
  ASSUME TypeInv, NEW e \in Entities, pipe[Peer(e)] # <<>>, Supervisory(e) \/ Information(e),
         dl[e].state \in Established,
         Head(pipe[Peer(e)]).k = "REJ" => ~Head(pipe[Peer(e)]).cmd
  PROVE  LET f == Head(pipe[Peer(e)]) IN
         /\ Numbered(f)
         /\ \E x, out : /\ Handles(dl[e], x, out, f)
                        /\ Reply(e, SendI(x).d, out \o SendI(x).out,
                                 Alarm((f.k # "I" /\ Unexpected(dl[e], f)) \/ SeqError(dl[e], f.nr)))
                        /\ f.k = "I" /\ f.ns = dl[e].vr => out # <<>> \/ SendI(x).out # <<>>
         /\ Delivers(e, f)
<1> DEFINE f == Head(pipe[Peer(e)])
           d == dl[e]
           c == (f.k # "I" /\ Unexpected(d, f)) \/ SeqError(d, f.nr)
<1>1. f \in Frames /\ d \in Datalinks /\ d.state \in Established /\ d.state \notin Inactive
  BY HeadType DEF TypeInv, Established, Inactive
<1>2. CASE Supervisory(e)
  <2>1. /\ f.k \in {"RR", "REJ"} /\ got' = got
        /\ \/ /\ f.k = "RR"
              /\ Reply(e, SendI(AfterRR(d, f)).d, AnswerRR(d, f) \o SendI(AfterRR(d, f)).out,
                       Alarm(Unexpected(d, f) \/ SeqError(d, f.nr)))
           \/ /\ f.k = "REJ"
              /\ Reply(e, SendI(AfterREJ(d, f)).d, SendI(AfterREJ(d, f)).out,
                       Alarm(Unexpected(d, f) \/ SeqError(d, f.nr)))
    BY <1>1, <1>2, SupervisoryCases
  <2>2. f.k = "REJ" => ~f.cmd
    OBVIOUS
  <2>3. (Unexpected(d, f) \/ SeqError(d, f.nr)) = c
    BY <2>1
  <2> HIDE DEF f, d, c
  <2>4. Numbered(f) /\ Delivers(e, f)
    BY <2>1 DEF Numbered, Delivers
  <2>5. CASE f.k = "RR"
    <3>1. Handles(d, AfterRR(d, f), AnswerRR(d, f), f)
      BY <1>1, <2>5, HandlesRR
    <3>2. Reply(e, SendI(AfterRR(d, f)).d, AnswerRR(d, f) \o SendI(AfterRR(d, f)).out, Alarm(c))
      BY <2>1, <2>3, <2>5
    <3>3. \E x, out : /\ Handles(d, x, out, f)
                      /\ Reply(e, SendI(x).d, out \o SendI(x).out, Alarm(c))
                      /\ f.k = "I" /\ f.ns = d.vr => out # <<>> \/ SendI(x).out # <<>>
      BY <2>5, <3>1, <3>2
    <3> QED
      BY <2>4, <3>3 DEF f, d, c
  <2>6. CASE f.k = "REJ"
    <3>1. Handles(d, AfterREJ(d, f), <<>>, f) /\ AfterREJ(d, f) \in Datalinks
      BY <1>1, <2>2, <2>6, HandlesREJ DEF Handles
    <3>2. SendI(AfterREJ(d, f)).out \in Seq(Frames)
      BY <3>1, SendIType
    <3>3. <<>> \o SendI(AfterREJ(d, f)).out = SendI(AfterREJ(d, f)).out
      BY <3>2
    <3>4. Reply(e, SendI(AfterREJ(d, f)).d, <<>> \o SendI(AfterREJ(d, f)).out, Alarm(c))
      BY <2>1, <2>3, <2>6, <3>3
    <3>5. \E x, out : /\ Handles(d, x, out, f)
                      /\ Reply(e, SendI(x).d, out \o SendI(x).out, Alarm(c))
                      /\ f.k = "I" /\ f.ns = d.vr => out # <<>> \/ SendI(x).out # <<>>
      BY <2>6, <3>1, <3>4
    <3> QED
      BY <2>4, <3>5 DEF f, d, c
  <2> QED
    BY <2>1, <2>5, <2>6
<1>3. CASE Information(e)
  <2>1. /\ f.k = "I"
        /\ \/ /\ ~Expected(d, f)
              /\ Reply(e, SendI(AfterOdd(d, f)).d, AnswerOdd(d, f) \o SendI(AfterOdd(d, f)).out,
                       Alarm(SeqError(d, f.nr)))
              /\ got' = got
           \/ /\ Expected(d, f)
              /\ Reply(e, SendI(AfterNext(d, f)).d,
                       AnswerNext(d, f, SendI(AfterNext(d, f)).out) \o SendI(AfterNext(d, f)).out,
                       Alarm(SeqError(d, f.nr)))
              /\ got' = IF More(f.seg) THEN got
                        ELSE [got EXCEPT ![e] = Append(@, Append(d.rcv, f.seg))]
    BY <1>1, <1>3, InformationCases
  <2>2. SeqError(d, f.nr) = c
    BY <2>1 DEF SeqError
  <2>3. d = dl[e]
    OBVIOUS
  <2> HIDE DEF f, d, c
  <2>4. Numbered(f)
    BY <2>1 DEF Numbered
  <2>5. CASE ~Expected(d, f)
    <3>1. Handles(d, AfterOdd(d, f), AnswerOdd(d, f), f)
      BY <1>1, <2>1, <2>5, HandlesOdd DEF Expected
    <3>2. Reply(e, SendI(AfterOdd(d, f)).d, AnswerOdd(d, f) \o SendI(AfterOdd(d, f)).out, Alarm(c))
      BY <2>1, <2>2, <2>5
    <3>3. Delivers(e, f)
      BY <2>1, <2>3, <2>5 DEF Delivers, Expected
    <3>4. \E x, out : /\ Handles(d, x, out, f)
                      /\ Reply(e, SendI(x).d, out \o SendI(x).out, Alarm(c))
                      /\ f.k = "I" /\ f.ns = d.vr => out # <<>> \/ SendI(x).out # <<>>
      BY <2>5, <3>1, <3>2 DEF Expected
    <3> QED
      BY <2>4, <3>3, <3>4 DEF f, d, c
  <2>6. CASE Expected(d, f)
    <3> DEFINE x == AfterNext(d, f)
               o == SendI(x).out
    <3>1. Handles(d, x, AnswerNext(d, f, o), f) /\ (AnswerNext(d, f, o) # <<>> \/ o # <<>>)
      BY <1>1, <2>1, <2>6, HandlesNext DEF Expected
    <3>2. Reply(e, SendI(x).d, AnswerNext(d, f, o) \o o, Alarm(c))
      BY <2>1, <2>2, <2>6
    <3>3. Delivers(e, f)
      BY <2>1, <2>3, <2>6 DEF Delivers, Expected
    <3> HIDE DEF x
    <3>4. \E z, out : /\ Handles(d, z, out, f)
                      /\ Reply(e, SendI(z).d, out \o SendI(z).out, Alarm(c))
                      /\ f.k = "I" /\ f.ns = d.vr => out # <<>> \/ SendI(z).out # <<>>
      BY <3>1, <3>2
    <3> QED
      BY <2>4, <3>3, <3>4 DEF f, d, c
  <2> QED
    BY <2>5, <2>6
<1> QED
  BY <1>2, <1>3


-----------------------------------------------------------------------------
(* lapd_t200_cb polls when nothing is under way. *)

LEMMA PollSent ==
  ASSUME NEW x \in Datalinks, NEW q \in Datalinks, Direction(x, q, <<>>, <<>>),
         NEW y \in Datalinks, y.state = "TIMER_RECOV",
         y.vs = x.vs, y.va = x.va, y.hist = x.hist, y.buf = x.buf, y.out = x.out
  PROVE  /\ Direction(y, q, <<>>, <<>>)
         /\ Direction(y, q, Poll(y), <<>>)
         /\ Poll(y) \in Seq(Frames)
         /\ AtMostOne(Poll(y), IFrames) /\ AtMostOne(Poll(y), Polls)
         /\ \A f \in Within(Poll(y)) : /\ f \in Polls /\ f.nr = y.vr
                                       /\ f.k \in {"I", "RR"} /\ (f.k = "RR" => f.cmd)
<1> DEFINE last == Dec(y.vs)
           i == I(y, last, TRUE, y.hist[H(last)])
           r == RR(y, TRUE, TRUE)
<1>1. /\ y.vs \in Numbers /\ y.va \in Numbers /\ last \in Numbers /\ H(last) \in 1..2
      /\ Inc(last) = y.vs /\ Dec(Inc(y.va)) = y.va /\ Inc(y.va) # y.va /\ H(y.va) \in 1..2
  BY NumbersWrap DEF Datalinks
<1>2. Window(y) /\ Acks(y, q, <<>>) /\ q.rcv = Reassembled(y, q)
  BY DEF Direction, Window, Acks, Data, Reassembled, Passed, Latest
<1>3. Within(<<>>) = {}
  BY NoFrame
<1>4. Direction(y, q, <<>>, <<>>)
  BY <1>2, <1>3 DEF Direction, Data, Recovery, AtMostOne
<1>5. y.hist[H(last)] # None =>
        /\ last = y.va /\ y.hist[H(last)] = Latest(y) /\ Latest(y) \in Segment
        /\ y.buf # "none" /\ y.out \in 1..Parts[y.buf]
  <2>1. y.buf # "none" => y.buf \in Msgs /\ y.out \in Nat
    BY DEF Datalinks
  <2>2. y.buf # "none" /\ y.out \in 1..Parts[y.buf] => Latest(y) \in Segment
    BY <2>1 DEF Latest, Segment
  <2> QED
    BY <1>1, <1>2, <2>2 DEF Window
<1>6. y.hist[H(last)] = None => y.vs = y.va
  <2>1. y.buf # "none" => y.buf \in Msgs
    BY DEF Datalinks
  <2>2. y.vs # y.va => y.vs = Inc(y.va) /\ y.buf # "none" /\ y.hist[H(y.va)] = Latest(y)
    BY <1>2 DEF Window
  <2>3. y.buf # "none" => Latest(y) # None
    BY <2>1, LapdAssumption DEF Latest, None
  <2> QED
    BY <1>1, <2>2, <2>3
<1>7. Poll(y) = IF y.hist[H(last)] # None THEN <<i>> ELSE IF y.err = 0 THEN <<r>> ELSE <<>>
  BY DEF Poll
<1>8. /\ r \in Frames /\ r.k = "RR" /\ r.f /\ r.cmd /\ r.nr = y.vr
      /\ y.hist[H(last)] # None => i \in Frames
      /\ i.k = "I" /\ i.f /\ i.ns = last /\ i.nr = y.vr /\ i.seg = y.hist[H(last)]
  BY <1>1, <1>5, FramesMade DEF I, RR
<1> HIDE DEF i, r
<1>9. CASE y.hist[H(last)] # None
  <2>1. Poll(y) \in Seq(Frames) /\ Within(Poll(y)) = {i} /\ Poll(y) = <<i>>
    BY <1>7, <1>8, <1>9, OneFrame
  <2>2. Carried(y, q, i)
    BY <1>1, <1>5, <1>8, <1>9 DEF Carried, Latest
  <2>3. i \in Polls
    BY <1>8, <1>9 DEF Polls
  <2>4. Data(y, q, Poll(y)) /\ Recovery(y, q, Poll(y), <<>>)
    BY <1>2, <1>3, <1>8, <2>1, <2>2 DEF Data, Recovery, AtMostOne
  <2> QED
    BY <1>2, <1>4, <1>8, <2>1, <2>3, <2>4 DEF Direction, AtMostOne
<1>10. CASE y.hist[H(last)] = None /\ y.err = 0
  <2>1. Poll(y) \in Seq(Frames) /\ Within(Poll(y)) = {r} /\ Poll(y) = <<r>>
    BY <1>7, <1>8, <1>10, OneFrame
  <2>2. r \in Polls
    BY <1>8 DEF Polls
  <2>3. Data(y, q, Poll(y)) /\ Recovery(y, q, Poll(y), <<>>)
    BY <1>2, <1>3, <1>6, <1>8, <1>10, <2>1 DEF Data, Recovery, AtMostOne
  <2> QED
    BY <1>2, <1>4, <1>8, <2>1, <2>2, <2>3 DEF Direction, AtMostOne
<1>11. CASE y.hist[H(last)] = None /\ y.err # 0
  <2>1. Poll(y) = <<>>
    BY <1>7, <1>11
  <2> QED
    BY <1>3, <1>4, <2>1, NoFrame DEF AtMostOne
<1> QED
  BY <1>9, <1>10, <1>11

(* Frames of the peer that answer nothing. *)
LEMMA AnswerAdded ==
  ASSUME NEW d, NEW q, NEW s \in Seq(Frames), NEW a \in Seq(Frames), Direction(d, q, s, a),
         NEW out \in Seq(Frames), \A g \in Within(out) : g \notin Endings /\ (Numbered(g) => g.nr = q.vr)
  PROVE  Direction(d, q, s, a \o out)
<1>1. /\ Within(a \o out) = Within(a) \cup Within(out)
      /\ AtMostOne(a, Endings) => AtMostOne(a \o out, Endings)
      /\ Settles(a, q.vr) => Settles(a \o out, q.vr)
  <2>1. Within(out) \cap Endings = {}
    OBVIOUS
  <2> QED
    BY <2>1, JoinParts
<1>2. Acks(d, q, a \o out)
  BY <1>1 DEF Direction, Acks
<1>3. Recovery(d, q, s, a \o out)
  BY <1>1 DEF Direction, Recovery, Endings
<1> QED
  BY <1>2, <1>3 DEF Direction

(* An idle peer answers a poll with DM. *)
LEMMA PollDismissed ==
  ASSUME NEW d, NEW q, NEW s \in Seq(Frames), NEW a \in Seq(Frames), Direction(d, q, s, a),
         AtMostOne(s, Polls), s # <<>>, Head(s) \in Polls, NEW g \in Frames, g.k = "DM"
  PROVE  Direction(d, q, Tail(s), a \o <<g>>)
<1> DEFINE t == Tail(s)
           b == a \o <<g>>
<1>1. /\ Head(s) \in Within(s) /\ Within(t) \subseteq Within(s) /\ Within(t) \cap Polls = {} /\ t \in Seq(Frames)
  BY TailParts
<1>2. <<g>> \in Seq(Frames) /\ Within(<<g>>) = {g} /\ ~Numbered(g) /\ g \in Endings /\ g \notin Finals
  BY OneFrame DEF Numbered, Endings, Finals
<1>3. Within(a) \cap Endings = {} /\ d.state = "TIMER_RECOV"
  BY <1>1 DEF Direction, Recovery
<1>4. AtMostOne(<<g>>, Endings)
  BY DEF AtMostOne
<1>5. /\ Within(b) = Within(a) \cup {g}
      /\ AtMostOne(b, Endings)
      /\ Settles(a, q.vr) => Settles(b, q.vr)
  BY <1>2, <1>3, <1>4, JoinParts, ZenonT(60)
<1> HIDE DEF t, b
<1>6. Acks(d, q, b)
  BY <1>2, <1>5 DEF Direction, Acks
<1>7. Data(d, q, t)
  BY <1>1 DEF Direction, Data
<1>8. Within(b) \cap Finals = {}
  BY <1>2, <1>3, <1>5 DEF Endings
<1>9. Recovery(d, q, t, b)
  BY <1>1, <1>3, <1>5, <1>8 DEF Recovery
<1> QED
  BY <1>6, <1>7, <1>9 DEF Direction, t, b


-----------------------------------------------------------------------------
(* An established entity receives a supervisory or I frame: both directions. *)

LEMMA NoAlarm ==
  ASSUME NEW d \in Datalinks, NEW q \in Datalinks, NEW s, NEW a \in Seq(Frames),
         Direction(d, q, s, a), NEW g \in Within(a), Numbered(g)
  PROVE  /\ ~SeqError(d, g.nr)
         /\ g.k # "I" => ~Unexpected(d, g)
<1>1. g.nr \in {d.va, d.vs} /\ d.va \in Numbers /\ d.vs \in Numbers /\ g \in Frames
  BY WithinParts DEF Direction, Acks, Datalinks
<1>2. ~SeqError(d, g.nr)
  <2>1. PICK n \in Nat : n = VRange /\ n >= 4
    BY LapdAssumption
  <2>2. d.va \in 0..n - 1 /\ d.vs \in 0..n - 1
    BY <1>1, <2>1 DEF Numbers
  <2>3. d.va + n - d.va = n /\ n % n = 0
    BY <2>1, <2>2
  <2>4. (d.vs + n - d.va) % n >= 0
    BY <2>1, <2>2
  <2>5. (d.vs + n - d.va) % n \in Int
    BY <2>1, <2>2
  <2>6. ~((g.nr + n - d.va) % n > (d.vs + n - d.va) % n)
    <3>1. CASE g.nr = d.va
      BY <2>3, <2>4, <2>5, <3>1
    <3>2. CASE g.nr = d.vs
      <4> DEFINE k == (d.vs + n - d.va) % n
      <4>1. k \in Int /\ (g.nr + n - d.va) % n = k
        BY <2>5, <3>2
      <4> HIDE DEF k
      <4>2. ~(k > k)
        BY <4>1
      <4> QED
        BY <4>1, <4>2 DEF k
    <3> QED
      BY <1>1, <3>1, <3>2
  <2> QED
    BY <2>1, <2>6 DEF SeqError
<1>3. g.k # "I" => ~Unexpected(d, g)
  BY <1>1 DEF Direction, Recovery, Unexpected, Numbered, Finals, Endings
<1> QED
  BY <1>2, <1>3

LEMMA OwnDirection ==
  ASSUME NEW d \in Datalinks, NEW q \in Datalinks, NEW s \in Seq(Frames), NEW a \in Seq(Frames),
         Direction(d, q, s, a), d.state \in Established, AtMostOne(s, IFrames),
         a # <<>>, Numbered(Head(a)), Head(a).k = "REJ" => Head(a) \in Finals,
         NEW y, NEW out, Handles(d, y, out, Head(a))
  PROVE  /\ Direction(y, q, s \o out, Tail(a))
         /\ Direction(SendI(y).d, q, s \o (out \o SendI(y).out), Tail(a))
         /\ AtMostOne(s \o out, IFrames)
         /\ AtMostOne(s \o (out \o SendI(y).out), IFrames)
         /\ y \in Datalinks /\ y.state \in Established
         /\ out \in Seq(Frames) /\ SendI(y).out \in Seq(Frames)
         /\ GoesOn(SendI(y).out, y.vr)
         /\ SendI(y).d.vr = y.vr /\ SendI(y).d.rcv = y.rcv
<1> DEFINE f == Head(a)
           t == Tail(a)
           o == SendI(y).out
<1>1. y \in Datalinks /\ y.state \in Established
  BY DEF Handles, Established
<1>2. f \in Within(a) /\ t \in Seq(Frames)
  BY TailParts
<1>3. f \in Finals => f.nr = d.vs
  BY <1>2 DEF Direction, Recovery
<1>4. Acknowledges(d, y, f)
  BY <1>3 DEF Handles, Acknowledges, SameLink
<1>5. Direction(y, q, s, t)
  BY <1>1, <1>4, AckTaken
<1>6. /\ out \in Seq(Frames)
      /\ \A g \in Within(out) : g.k \in {"RR", "REJ"} /\ g \notin Polls
  BY AnswersParts DEF Handles
<1>7. s \o out \in Seq(Frames) /\ Direction(y, q, s \o out, t)
  BY <1>1, <1>2, <1>5, <1>6, AnswerSent, ShortSequences
<1>8. AtMostOne(s \o out, IFrames)
  <2>1. Within(out) \cap IFrames = {}
    BY <1>6 DEF IFrames
  <2> QED
    BY <1>6, <2>1, JoinParts
<1>9. /\ Direction(SendI(y).d, q, (s \o out) \o o, t)
      /\ AtMostOne((s \o out) \o o, IFrames)
      /\ GoesOn(o, y.vr)
      /\ SendI(y).d.vr = y.vr /\ SendI(y).d.rcv = y.rcv
  BY <1>1, <1>2, <1>7, <1>8, SegmentSent
<1>10. o \in Seq(Frames)
  BY <1>1, SendIType
<1> HIDE DEF o, t, f
<1>11. (s \o out) \o o = s \o (out \o o)
  BY <1>6, <1>10
<1> QED
  BY <1>1, <1>6, <1>7, <1>8, <1>9, <1>10, <1>11 DEF o, t

LEMMA PeersDirection ==
  ASSUME NEW d \in Datalinks, NEW q \in Datalinks, NEW s \in Seq(Frames), NEW a \in Seq(Frames),
         Direction(q, d, a, s), a # <<>>, AtMostOne(a, IFrames), AtMostOne(a, Polls),
         NEW y \in Datalinks, NEW out, Handles(d, y, out, Head(a)),
         NEW x \in Datalinks, x.vr = y.vr, x.rcv = y.rcv,
         NEW o \in Seq(Frames), GoesOn(o, y.vr)
  PROVE  Direction(q, x, Tail(a), s \o (out \o o))
<1> DEFINE f == Head(a)
           w == out \o o
<1>1. /\ out \in Seq(Frames)
      /\ \A g \in Within(out) : g.nr = y.vr
      /\ AtMostOne(out, Endings)
      /\ Within(out) \cap Endings # {} => f \in Polls
  BY AnswersParts DEF Handles
<1>2. Within(o) \cap Endings = {}
  BY DEF Endings, Finals, GoesOn
<1>3. w \in Seq(Frames) /\ Within(w) = Within(out) \cup Within(o) /\ AtMostOne(w, Endings)
  BY <1>1, <1>2, JoinParts
<1>4. Hears(d, x, f)
  BY DEF Handles, Hears, SameReceiver
<1>5. \A g \in Within(w) : Numbered(g) => g.nr = x.vr
  BY <1>1, <1>3 DEF GoesOn
<1>6. Within(w) \cap Endings # {} => f \in Polls
  BY <1>1, <1>2, <1>3
<1> HIDE DEF w
<1> QED
  BY <1>3, <1>4, <1>5, <1>6, FrameHeard DEF w

(* lapd_est_req and lapd_rx_u start a direction on which nothing was sent. *)
LEMMA DirectionStarts ==
  ASSUME NEW d \in Datalinks, d.state = "MF_EST", d.vs = 0, d.va = 0, d.buf = "none",
         \A h \in 1..2 : d.hist[h] = None,
         NEW q \in Datalinks, q.vr = 0, q.rcv = <<>>,
         NEW s \in Seq(Frames), \A f \in Within(s) : f.k # "I" /\ f \notin Polls,
         NEW a \in Seq(Frames), \A g \in Within(a) : g \notin Endings /\ (Numbered(g) => g.nr = 0)
  PROVE  Direction(d, q, s, a)
<1>1. Window(d)
  BY DEF Window
<1>2. Acks(d, q, a)
  <2>1. \A i \in 1..Len(a) : a[i] \in Within(a)
    BY DEF Within
  <2> QED
    BY <2>1 DEF Acks, Settles
<1>3. Data(d, q, s)
  BY DEF Data, Reassembled
<1>4. Recovery(d, q, s, a)
  <2>1. \A i \in 1..Len(a) : a[i] \in Within(a)
    BY DEF Within
  <2> QED
    BY <2>1 DEF Recovery, AtMostOne, Endings
<1> QED
  BY <1>1, <1>2, <1>3, <1>4 DEF Direction


-----------------------------------------------------------------------------
(* What the handlers of received frames do, with the data they leave alone. *)

SameData(d, x) == SameReceiver(d, x) /\ x.vs = d.vs /\ x.va = d.va /\ x.hist = d.hist
                  /\ x.buf = d.buf /\ x.out = d.out /\ x.queue = d.queue
Kept(d, x) == SameData(d, x) /\ x.state = d.state
Closed(d, x) == SameReceiver(d, x) /\ x.state = "IDLE"
Flushed(x) == x.queue = <<>> /\ x.buf = "none"
Joined(d, x) ==
  /\ x.state = "MF_EST" /\ x.vs = 0 /\ x.vr = 0 /\ x.va = 0 /\ \A h \in 1..2 : x.hist[h] = None
  /\ x.rcv = d.rcv /\ x.buf = d.buf /\ x.out = d.out /\ x.queue = d.queue

(* out is one frame, of kind k *)
One(out, k) == \E g \in Frames : g.k = k /\ out = <<g>>

RxSabm(d, f, x, out, prims) ==
  \/ /\ d.state = "IDLE"
     /\ Joined(d, x) /\ One(out, "UA") /\ prims = {"EST_IND"}
  \/ /\ d.state = "MF_EST" /\ d.vs # d.vr
     /\ Joined(d, x) /\ One(out, "UA") /\ prims = {"EST_IND", "MDL_ERROR"}
  \/ /\ d.state = "MF_EST" /\ d.vs = d.vr
     /\ Kept(d, x) /\ prims = {}
     /\ out = <<>> \/ One(out, "UA")
  \/ /\ d.state = "DISC_SENT"
     /\ Kept(d, x) /\ One(out, "DM") /\ prims = {"EST_IND"}
  \/ /\ d.state \in {"SABM_SENT", "TIMER_RECOV"}
     /\ Kept(d, x) /\ One(out, "UA") /\ prims \subseteq {"MDL_ERROR"}

RxDm(d, f, x, out, prims) ==
  /\ out = <<>>
  /\ \/ /\ ~f.f \/ d.state = "IDLE"
        /\ Kept(d, x) /\ prims = {}
     \/ /\ f.f /\ d.state = "MF_EST"
        /\ Kept(d, x) /\ prims = {"MDL_ERROR"}
     \/ /\ f.f /\ d.state = "DISC_SENT"
        /\ Closed(d, x) /\ prims = {"REL_CONF"}
     \/ /\ f.f /\ d.state \in {"SABM_SENT", "TIMER_RECOV"}
        /\ Closed(d, x) /\ prims = {"REL_IND"}

RxDisc(d, f, x, out, prims) ==
  /\ Closed(d, x) /\ Flushed(x)
  /\ \/ d.state = "IDLE" /\ One(out, "DM") /\ prims = {}
     \/ d.state = "SABM_SENT" /\ One(out, "DM") /\ prims = {"REL_IND"}
     \/ d.state \in Established /\ One(out, "UA") /\ prims = {"REL_IND"}
     \/ d.state = "DISC_SENT" /\ One(out, "UA") /\ prims = {"REL_CONF"}

RxUa(d, f, x, out, prims) ==
  \/ /\ ~f.f \/ d.state = "IDLE"
     /\ Kept(d, x) /\ out = <<>> /\ prims = {}
  \/ /\ f.f /\ d.state \in Established
     /\ Kept(d, x) /\ out = <<>> /\ prims = {"MDL_ERROR"}
  \/ /\ f.f /\ d.state = "DISC_SENT"
     /\ Closed(d, x) /\ out = <<>> /\ prims = {"REL_CONF"}
  \/ /\ f.f /\ d.state = "SABM_SENT"
     /\ Closed(d, x) /\ out = <<>> /\ prims = {"REL_IND"}
  \/ /\ f.f /\ d.state = "SABM_SENT"
     /\ \E c \in Datalinks : Joined(d, c) /\ x = SendI(c).d /\ out = SendI(c).out
     /\ prims = {"EST_CONF"}

(* A supervisory or I frame, when the link is not established and when it is. *)
RxDropped(d, f, x, out, prims) ==
  /\ d.state \notin Established /\ Kept(d, x)
  /\ \/ d.state = "IDLE" /\ f.f /\ One(out, "DM")
     \/ ~(d.state = "IDLE" /\ f.f) /\ out = <<>>
  /\ prims \subseteq {"MDL_ERROR"} /\ (f \notin Finals => prims = {})

RxTaken(d, f, x, out, prims) ==
  /\ d.state \in Established
  /\ \E y, answer : /\ Handles(d, y, answer, f)
                    /\ x = SendI(y).d /\ out = answer \o SendI(y).out
                    /\ f.k = "I" /\ f.ns = d.vr => out # <<>>
  /\ prims = Alarm((f.k # "I" /\ Unexpected(d, f)) \/ SeqError(d, f.nr))

(* What an entity makes of frame f. *)
Rx(d, f, x, out, prims) ==
  \/ f.k = "SABM" /\ RxSabm(d, f, x, out, prims)
  \/ f.k = "DM" /\ RxDm(d, f, x, out, prims)
  \/ f.k = "DISC" /\ RxDisc(d, f, x, out, prims)
  \/ f.k = "UA" /\ RxUa(d, f, x, out, prims)
  \/ Numbered(f) /\ RxDropped(d, f, x, out, prims)
  \/ Numbered(f) /\ RxTaken(d, f, x, out, prims)

LEMMA HandlerStates ==
  ASSUME NEW d \in Datalinks
  PROVE  /\ Stop(d) \in Datalinks /\ Kept(d, Stop(d))
         /\ \A n \in 0..2 : [d EXCEPT !.err = n] \in Datalinks /\ Kept(d, [d EXCEPT !.err = n])
         /\ NewState(Stop(d), "IDLE") \in Datalinks /\ Closed(d, NewState(Stop(d), "IDLE"))
         /\ FlushSend(FlushHist(d)) \in Datalinks /\ Flushed(FlushSend(FlushHist(d)))
         /\ SameReceiver(d, FlushSend(FlushHist(d))) /\ FlushSend(FlushHist(d)).state = d.state
         /\ ToIdle(d) \in Datalinks /\ Closed(d, ToIdle(d)) /\ Flushed(ToIdle(d))
<1>1. \A x \in Datalinks : Stop(x) \in Datalinks /\ Kept(x, Stop(x))
  BY StopKeeps DEF Kept, SameData, SameReceiver, SameLink
<1>2. \A n \in 0..2 : [d EXCEPT !.err = n] \in Datalinks /\ Kept(d, [d EXCEPT !.err = n])
  <2>1. ASSUME NEW n \in 0..2 PROVE [d EXCEPT !.err = n] \in Datalinks /\ Kept(d, [d EXCEPT !.err = n])
    BY DEF Datalinks, Kept, SameData, SameReceiver
  <2> QED
    BY <2>1
<1>3. \A x \in Datalinks : /\ NewState(x, "IDLE") \in Datalinks /\ Closed(x, NewState(x, "IDLE"))
                           /\ NewState(x, "IDLE").queue = x.queue /\ NewState(x, "IDLE").buf = x.buf
  BY NewStateKeeps DEF Closed, SameReceiver, States
<1>4. Closed(d, NewState(Stop(d), "IDLE")) /\ NewState(Stop(d), "IDLE") \in Datalinks
  BY <1>1, <1>3 DEF Closed, Kept, SameData, SameReceiver
<1>5. ASSUME NEW x \in Datalinks
      PROVE  /\ FlushHist(x) \in Datalinks /\ SameReceiver(x, FlushHist(x)) /\ FlushHist(x).state = x.state
             /\ FlushSend(x) \in Datalinks /\ SameReceiver(x, FlushSend(x)) /\ FlushSend(x).state = x.state
             /\ Flushed(FlushSend(x))
  <2>1. FlushHist(x) \in Datalinks /\ FlushSend(x) \in Datalinks
    BY FlushType
  <2> QED
    BY <2>1 DEF FlushHist, FlushSend, SameReceiver, Flushed, Datalinks
<1>6. /\ FlushSend(FlushHist(d)) \in Datalinks /\ Flushed(FlushSend(FlushHist(d)))
      /\ SameReceiver(d, FlushSend(FlushHist(d))) /\ FlushSend(FlushHist(d)).state = d.state
  BY <1>5 DEF SameReceiver
<1> DEFINE s == Stop(d)
           x == FlushSend(FlushHist(s))
<1>7. s \in Datalinks /\ SameReceiver(d, s)
  BY <1>1 DEF Kept, SameData
<1> HIDE DEF s
<1>8. x \in Datalinks /\ Flushed(x) /\ SameReceiver(d, x)
  BY <1>5, <1>7 DEF SameReceiver
<1> HIDE DEF x
<1>9. NewState(x, "IDLE") \in Datalinks /\ Closed(d, NewState(x, "IDLE")) /\ Flushed(NewState(x, "IDLE"))
  BY <1>3, <1>8 DEF Closed, SameReceiver, Flushed
<1> QED
  BY <1>1, <1>2, <1>4, <1>6, <1>9 DEF s, x, ToIdle

LEMMA JoinedStates ==
  ASSUME NEW d \in Datalinks
  PROVE  /\ Connected(d) \in Datalinks /\ Joined(d, Connected(d))
         /\ \A c : Joined(d, [Connected(d) EXCEPT !.contres = c])
<1> DEFINE z == [d EXCEPT !.vs = 0, !.vr = 0, !.va = 0]
           w == FlushHist(z)
           x == NewState(w, "MF_EST")
<1>1. 0 \in Numbers
  BY LapdAssumption DEF Numbers
<1>2. /\ z \in Datalinks /\ z.vs = 0 /\ z.vr = 0 /\ z.va = 0 /\ z.rcv = d.rcv
      /\ z.buf = d.buf /\ z.out = d.out /\ z.queue = d.queue
  BY <1>1 DEF Datalinks
<1> HIDE DEF z
<1>3. w \in Datalinks
  BY <1>2, FlushType
<1>4. /\ w.vs = 0 /\ w.vr = 0 /\ w.va = 0 /\ w.rcv = d.rcv /\ w.buf = d.buf /\ w.out = d.out
      /\ w.queue = d.queue /\ w.hist = <<None, None>>
  BY <1>2, <1>3 DEF FlushHist, Datalinks
<1> HIDE DEF w
<1>5. x \in Datalinks /\ Joined(d, x)
  <2>1. /\ x \in Datalinks /\ x.state = "MF_EST" /\ x.vs = w.vs /\ x.vr = w.vr /\ x.va = w.va
        /\ x.hist = w.hist /\ x.rcv = w.rcv /\ x.buf = w.buf /\ x.out = w.out /\ x.queue = w.queue
    BY <1>3, NewStateKeeps DEF States
  <2> HIDE DEF x
  <2>2. \A h \in 1..2 : x.hist[h] = None
    BY <1>4, <2>1
  <2> QED
    BY <1>4, <2>1, <2>2 DEF Joined
<1> HIDE DEF x
<1>6. ASSUME NEW c PROVE Joined(d, [x EXCEPT !.contres = c])
  BY <1>5 DEF Joined, Datalinks
<1> QED
  BY <1>5, <1>6 DEF Connected, x, w, z

LEMMA CasesSabm ==
  ASSUME TypeInv, NEW e \in Entities, pipe[Peer(e)] # <<>>, Sabm(e)
  PROVE  LET f == Head(pipe[Peer(e)]) IN
         f.k = "SABM" /\ \E x, out, prims : Reply(e, x, out, prims) /\ RxSabm(dl[e], f, x, out, prims)
<1> DEFINE f == Head(pipe[Peer(e)])
           z == dl[e]
           d == [z EXCEPT !.err = 0]
           c == Connected(d)
           cr == [c EXCEPT !.contres = IF e = "bts" /\ f.info # "none" THEN f.info ELSE @]
           ua == <<U("UA", f.f, f.info)>>
           dm == <<U("DM", f.f, "none")>>
           mdl == IF d.content # "none" \/ d.hist[1] # None THEN {"MDL_ERROR"} ELSE {}
           ind == {"EST_IND"} \cup IF d.state = "MF_EST" THEN {"MDL_ERROR"} ELSE {}
<1>1. f.k = "SABM"
  BY DEF Sabm
<1>2. f \in UFrames /\ f \in Frames
  BY <1>1, HeadType, FrameKinds
<1>3. f.f \in BOOLEAN /\ f.info \in Contents \cup {"none", "other"}
  BY <1>2 DEF UFrames
<1>4. z \in Datalinks /\ d \in Datalinks /\ Kept(z, d)
  <2>1. z \in Datalinks
    BY DEF TypeInv
  <2>2. 0 \in 0..2
    OBVIOUS
  <2> HIDE DEF z
  <2> QED
    BY <2>1, <2>2, HandlerStates
<1>5. One(ua, "UA") /\ One(dm, "DM")
  <2>1. U("UA", f.f, f.info) \in Frames /\ U("DM", f.f, "none") \in Frames
    BY <1>3, <1>4, FramesMade
  <2> QED
    BY <2>1 DEF One, U
<1>6. \/ (d.state = "IDLE" \/ (d.state = "MF_EST" /\ d.vs # d.vr)) /\ Reply(e, cr, ua, ind)
      \/ /\ d.state = "MF_EST" /\ d.vs = d.vr
         /\ Reply(e, d, <<>>, {}) \/ Reply(e, d, ua, {})
      \/ d.state = "DISC_SENT" /\ Reply(e, Stop(d), dm, {"EST_IND"})
      \/ d.state \in {"SABM_SENT", "TIMER_RECOV"} /\ Reply(e, d, ua, mdl)
  BY DEF Sabm
<1>7. Joined(d, cr) /\ Kept(d, Stop(d)) /\ mdl \subseteq {"MDL_ERROR"}
  <2>1. mdl \subseteq {"MDL_ERROR"}
    OBVIOUS
  <2> HIDE DEF d, f, mdl
  <2> QED
    BY <1>4, <2>1, JoinedStates, HandlerStates
<1> HIDE DEF f, z, d, cr, ua, dm, mdl
<1>8. Joined(z, cr) /\ Kept(z, Stop(d)) /\ d.state = z.state /\ d.vs = z.vs /\ d.vr = z.vr
  BY <1>4, <1>7 DEF Joined, Kept, SameData, SameReceiver
<1>9. CASE (d.state = "IDLE" \/ (d.state = "MF_EST" /\ d.vs # d.vr)) /\ Reply(e, cr, ua, ind)
  <2>1. RxSabm(z, f, cr, ua, ind)
    BY <1>5, <1>8, <1>9 DEF RxSabm
  <2> QED
    BY <1>1, <1>9, <2>1 DEF f, z
<1>10. CASE d.state = "MF_EST" /\ d.vs = d.vr /\ (Reply(e, d, <<>>, {}) \/ Reply(e, d, ua, {}))
  <2>1. RxSabm(z, f, d, <<>>, {}) /\ RxSabm(z, f, d, ua, {})
    BY <1>4, <1>5, <1>8, <1>10 DEF RxSabm
  <2> QED
    BY <1>1, <1>10, <2>1 DEF f, z
<1>11. CASE d.state = "DISC_SENT" /\ Reply(e, Stop(d), dm, {"EST_IND"})
  <2>1. RxSabm(z, f, Stop(d), dm, {"EST_IND"})
    BY <1>5, <1>8, <1>11 DEF RxSabm
  <2> QED
    BY <1>1, <1>11, <2>1 DEF f, z
<1>12. CASE d.state \in {"SABM_SENT", "TIMER_RECOV"} /\ Reply(e, d, ua, mdl)
  <2>1. RxSabm(z, f, d, ua, mdl)
    BY <1>4, <1>5, <1>7, <1>8, <1>12 DEF RxSabm
  <2> QED
    BY <1>1, <1>12, <2>1 DEF f, z
<1> QED
  BY <1>6, <1>9, <1>10, <1>11, <1>12

LEMMA CasesDm ==
  ASSUME TypeInv, NEW e \in Entities, pipe[Peer(e)] # <<>>, Dm(e)
  PROVE  LET f == Head(pipe[Peer(e)]) IN
         f.k = "DM" /\ \E x, out, prims : Reply(e, x, out, prims) /\ RxDm(dl[e], f, x, out, prims)
<1> DEFINE f == Head(pipe[Peer(e)])
           d == dl[e]
           c == NewState(Stop(d), "IDLE")
<1>1. d \in Datalinks
  BY DEF TypeInv
<1>2. /\ f.k = "DM"
      /\ \/ (~f.f \/ d.state = "IDLE") /\ Reply(e, d, <<>>, {})
         \/ f.f /\ d.state = "MF_EST" /\ Reply(e, d, <<>>, {"MDL_ERROR"})
         \/ f.f /\ d.state = "DISC_SENT" /\ Reply(e, ToIdle(d), <<>>, {"REL_CONF"})
         \/ f.f /\ d.state \in {"SABM_SENT", "TIMER_RECOV"} /\ Reply(e, c, <<>>, {"REL_IND"})
  BY DEF Dm
<1> HIDE DEF f, d, c
<1>3. Kept(d, d) /\ Closed(d, ToIdle(d)) /\ Closed(d, c)
  BY <1>1, HandlerStates DEF c, Kept, SameData, SameReceiver
<1>4. \E x, out, prims : Reply(e, x, out, prims) /\ RxDm(d, f, x, out, prims)
  <2>1. CASE (~f.f \/ d.state = "IDLE") /\ Reply(e, d, <<>>, {})
    BY <1>3, <2>1 DEF RxDm
  <2>2. CASE f.f /\ d.state = "MF_EST" /\ Reply(e, d, <<>>, {"MDL_ERROR"})
    BY <1>3, <2>2 DEF RxDm
  <2>3. CASE f.f /\ d.state = "DISC_SENT" /\ Reply(e, ToIdle(d), <<>>, {"REL_CONF"})
    BY <1>3, <2>3 DEF RxDm
  <2>4. CASE f.f /\ d.state \in {"SABM_SENT", "TIMER_RECOV"} /\ Reply(e, c, <<>>, {"REL_IND"})
    BY <1>3, <2>4 DEF RxDm
  <2> QED
    BY <1>2, <2>1, <2>2, <2>3, <2>4
<1> QED
  BY <1>2, <1>4 DEF f, d

LEMMA CasesDisc ==
  ASSUME TypeInv, NEW e \in Entities, pipe[Peer(e)] # <<>>, Disc(e)
  PROVE  LET f == Head(pipe[Peer(e)]) IN
         f.k = "DISC" /\ \E x, out, prims : Reply(e, x, out, prims) /\ RxDisc(dl[e], f, x, out, prims)
<1> DEFINE f == Head(pipe[Peer(e)])
           z == dl[e]
           w == FlushSend(FlushHist(z))
           d == [w EXCEPT !.err = 0]
           c == NewState(Stop(d), "IDLE")
           ua == <<U("UA", f.f, "none")>>
           dm == <<U("DM", f.f, "none")>>
<1>1. z \in Datalinks /\ f.f \in BOOLEAN
  BY HeadType, FrameKinds DEF TypeInv
<1>2. One(ua, "UA") /\ One(dm, "DM")
  <2>1. U("UA", f.f, "none") \in Frames /\ U("DM", f.f, "none") \in Frames
    BY <1>1, FramesMade
  <2> QED
    BY <2>1 DEF One, U
<1>3. /\ f.k = "DISC"
      /\ \/ d.state = "IDLE" /\ Reply(e, d, dm, {})
         \/ d.state = "SABM_SENT" /\ Reply(e, c, dm, {"REL_IND"})
         \/ /\ d.state \in {"MF_EST", "TIMER_RECOV", "DISC_SENT"}
            /\ Reply(e, c, ua, {IF d.state = "DISC_SENT" THEN "REL_CONF" ELSE "REL_IND"})
  BY DEF Disc
<1> HIDE DEF f, z, ua, dm
<1>4. w \in Datalinks /\ Flushed(w) /\ SameReceiver(z, w) /\ w.state = z.state
  BY <1>1, HandlerStates
<1> HIDE DEF w
<1>5. d \in Datalinks /\ Flushed(d) /\ SameReceiver(z, d) /\ d.state = z.state
  <2>1. 0 \in 0..2
    OBVIOUS
  <2>2. d \in Datalinks /\ Kept(w, d)
    BY <1>4, <2>1, HandlerStates
  <2> QED
    BY <1>4, <2>2 DEF Kept, SameData, SameReceiver, Flushed
<1> HIDE DEF d
<1>6. Closed(z, c) /\ Flushed(c)
  <2>1. Stop(d) \in Datalinks /\ Kept(d, Stop(d)) /\ Closed(d, c)
    BY <1>5, HandlerStates
  <2>2. c.queue = Stop(d).queue /\ c.buf = Stop(d).buf
    BY <2>1, NewStateKeeps DEF States
  <2> QED
    BY <1>5, <2>1, <2>2 DEF Kept, SameData, SameReceiver, Flushed, Closed
<1> HIDE DEF c
<1>7. \E x, out, prims : Reply(e, x, out, prims) /\ RxDisc(z, f, x, out, prims)
  <2>1. CASE d.state = "IDLE" /\ Reply(e, d, dm, {})
    BY <1>2, <1>5, <2>1 DEF RxDisc, Closed
  <2>2. CASE d.state = "SABM_SENT" /\ Reply(e, c, dm, {"REL_IND"})
    BY <1>2, <1>5, <1>6, <2>2 DEF RxDisc
  <2>3. CASE /\ d.state \in {"MF_EST", "TIMER_RECOV", "DISC_SENT"}
             /\ Reply(e, c, ua, {IF d.state = "DISC_SENT" THEN "REL_CONF" ELSE "REL_IND"})
    BY <1>2, <1>5, <1>6, <2>3 DEF RxDisc, Established
  <2> QED
    BY <1>3, <2>1, <2>2, <2>3
<1> QED
  BY <1>3, <1>7 DEF f, z

LEMMA CasesUa ==
  ASSUME TypeInv, NEW e \in Entities, pipe[Peer(e)] # <<>>, Ua(e)
  PROVE  LET f == Head(pipe[Peer(e)]) IN
         f.k = "UA" /\ \E x, out, prims : Reply(e, x, out, prims) /\ RxUa(dl[e], f, x, out, prims)
<1> DEFINE f == Head(pipe[Peer(e)])
           d == dl[e]
           c == Connected(Stop(d))
<1>1. d \in Datalinks
  BY DEF TypeInv
<1>2. /\ f.k = "UA"
      /\ \/ (~f.f \/ d.state = "IDLE") /\ Reply(e, d, <<>>, {})
         \/ f.f /\ d.state \in {"MF_EST", "TIMER_RECOV"} /\ Reply(e, d, <<>>, {"MDL_ERROR"})
         \/ f.f /\ d.state = "DISC_SENT" /\ Reply(e, ToIdle(d), <<>>, {"REL_CONF"})
         \/ f.f /\ d.state = "SABM_SENT" /\ Reply(e, ToIdle(d), <<>>, {"REL_IND"})
         \/ f.f /\ d.state = "SABM_SENT" /\ Reply(e, SendI(c).d, SendI(c).out, {"EST_CONF"})
  BY DEF Ua
<1> HIDE DEF f, d
<1>3. Kept(d, d) /\ Closed(d, ToIdle(d))
  BY <1>1, HandlerStates DEF Kept, SameData, SameReceiver
<1>4. c \in Datalinks /\ Joined(d, c)
  <2>1. Stop(d) \in Datalinks /\ Kept(d, Stop(d))
    BY <1>1, HandlerStates
  <2>2. c \in Datalinks /\ Joined(Stop(d), c)
    BY <2>1, JoinedStates
  <2> QED
    BY <2>1, <2>2 DEF Joined, Kept, SameData, SameReceiver
<1> HIDE DEF c
<1>5. \E x, out, prims : Reply(e, x, out, prims) /\ RxUa(d, f, x, out, prims)
  <2>1. CASE (~f.f \/ d.state = "IDLE") /\ Reply(e, d, <<>>, {})
    BY <1>3, <2>1 DEF RxUa
  <2>2. CASE f.f /\ d.state \in {"MF_EST", "TIMER_RECOV"} /\ Reply(e, d, <<>>, {"MDL_ERROR"})
    BY <1>3, <2>2 DEF RxUa, Established
  <2>3. CASE f.f /\ d.state = "DISC_SENT" /\ Reply(e, ToIdle(d), <<>>, {"REL_CONF"})
    BY <1>3, <2>3 DEF RxUa
  <2>4. CASE f.f /\ d.state = "SABM_SENT" /\ Reply(e, ToIdle(d), <<>>, {"REL_IND"})
    BY <1>3, <2>4 DEF RxUa
  <2>5. CASE f.f /\ d.state = "SABM_SENT" /\ Reply(e, SendI(c).d, SendI(c).out, {"EST_CONF"})
    BY <1>4, <2>5 DEF RxUa
  <2> QED
    BY <1>2, <2>1, <2>2, <2>3, <2>4, <2>5
<1> QED
  BY <1>2, <1>5 DEF f, d

(* The next frame for e completes a message. *)
Completes(d, f) == d.state \in Established /\ f.k = "I" /\ f.ns = d.vr /\ ~More(f.seg)

LEMMA ReceiveCases ==
  ASSUME TypeInv, NEW e \in Entities, Receive(e),
         Head(pipe[Peer(e)]).k = "REJ" => ~Head(pipe[Peer(e)]).cmd
  PROVE  LET f == Head(pipe[Peer(e)]) IN
         /\ pipe[Peer(e)] # <<>> /\ Attended
         /\ \E x, out, prims : Reply(e, x, out, prims) /\ Rx(dl[e], f, x, out, prims)
         /\ got' = IF Completes(dl[e], f) THEN [got EXCEPT ![e] = Append(@, Append(dl[e].rcv, f.seg))] ELSE got
<1> DEFINE f == Head(pipe[Peer(e)])
           d == dl[e]
<1>1. pipe[Peer(e)] # <<>> /\ Attended
  BY DEF Receive
<1>2. f \in Frames /\ d \in Datalinks
  BY <1>1, HeadType DEF TypeInv
<1>3. CASE Sabm(e) \/ Dm(e) \/ Disc(e) \/ Ua(e)
  <2>1. \/ f.k = "SABM" /\ \E x, out, prims : Reply(e, x, out, prims) /\ RxSabm(d, f, x, out, prims)
        \/ f.k = "DM" /\ \E x, out, prims : Reply(e, x, out, prims) /\ RxDm(d, f, x, out, prims)
        \/ f.k = "DISC" /\ \E x, out, prims : Reply(e, x, out, prims) /\ RxDisc(d, f, x, out, prims)
        \/ f.k = "UA" /\ \E x, out, prims : Reply(e, x, out, prims) /\ RxUa(d, f, x, out, prims)
    BY <1>1, <1>3, CasesSabm, CasesDm, CasesDisc, CasesUa
  <2>2. got' = got
    BY <1>3 DEF Sabm, Dm, Disc, Ua, Quiet
  <2> HIDE DEF f, d
  <2>3. \E x, out, prims : Reply(e, x, out, prims) /\ Rx(d, f, x, out, prims)
    BY <2>1 DEF Rx
  <2>4. ~Completes(d, f)
    BY <2>1 DEF Completes
  <2> QED
    BY <1>1, <2>2, <2>3, <2>4 DEF f, d
<1>4. CASE (Supervisory(e) \/ Information(e)) /\ d.state \in Established
  <2>1. /\ Numbered(f)
        /\ \E x, out : /\ Handles(d, x, out, f)
                       /\ Reply(e, SendI(x).d, out \o SendI(x).out,
                                Alarm((f.k # "I" /\ Unexpected(d, f)) \/ SeqError(d, f.nr)))
                       /\ f.k = "I" /\ f.ns = d.vr => out # <<>> \/ SendI(x).out # <<>>
        /\ got' = IF f.k = "I" /\ f.ns = d.vr /\ ~More(f.seg)
                  THEN [got EXCEPT ![e] = Append(@, Append(d.rcv, f.seg))] ELSE got
    BY <1>1, <1>4, ActiveReceives DEF Delivers
  <2> HIDE DEF f, d
  <2>2. PICK x, out : /\ Handles(d, x, out, f)
                      /\ Reply(e, SendI(x).d, out \o SendI(x).out,
                               Alarm((f.k # "I" /\ Unexpected(d, f)) \/ SeqError(d, f.nr)))
                      /\ f.k = "I" /\ f.ns = d.vr => out # <<>> \/ SendI(x).out # <<>>
    BY <2>1
  <2> DEFINE o == out \o SendI(x).out
             p == Alarm((f.k # "I" /\ Unexpected(d, f)) \/ SeqError(d, f.nr))
  <2>3. out \in Seq(Frames) /\ SendI(x).out \in Seq(Frames)
    BY <2>2, AnswersParts, SendIType DEF Handles
  <2>4. f.k = "I" /\ f.ns = d.vr => o # <<>>
    <3>1. out # <<>> \/ SendI(x).out # <<>> => o # <<>>
      BY <2>3
    <3> QED
      BY <2>2, <3>1
  <2>5. RxTaken(d, f, SendI(x).d, o, p)
    BY <1>4, <2>2, <2>4 DEF RxTaken
  <2>6. Rx(d, f, SendI(x).d, o, p)
    BY <2>1, <2>5 DEF Rx
  <2>7. Completes(d, f) <=> f.k = "I" /\ f.ns = d.vr /\ ~More(f.seg)
    BY <1>4 DEF Completes
  <2> QED
    BY <1>1, <2>1, <2>2, <2>6, <2>7 DEF f, d
<1>5. CASE (Supervisory(e) \/ Information(e)) /\ d.state \notin Established
  <2>1. d.state \in Inactive
    BY <1>2, <1>5, ActiveStates
  <2>2. /\ Numbered(f) /\ got' = got
        /\ \E prims : /\ Reply(e, d, DmIfPolled(d, f), prims)
                      /\ prims \subseteq {"MDL_ERROR"} /\ (f \notin Finals => prims = {})
    <3>1. CASE Supervisory(e)
      <4>1. /\ f.k \in {"RR", "REJ"} /\ got' = got
            /\ Reply(e, d, DmIfPolled(d, f), Alarm(Unexpected(d, f)))
        BY <2>1, <3>1, SupervisoryCases
      <4> HIDE DEF f, d
      <4>2. /\ Alarm(Unexpected(d, f)) \subseteq {"MDL_ERROR"}
            /\ f \notin Finals => Alarm(Unexpected(d, f)) = {}
        BY <1>2, <4>1 DEF Alarm, Unexpected, Finals
      <4> QED
        BY <4>1, <4>2 DEF Numbered
    <3>2. CASE Information(e)
      <4>1. f.k = "I" /\ got' = got /\ Reply(e, d, DmIfPolled(d, f), {})
        BY <2>1, <3>2, InformationCases
      <4> QED
        BY <4>1 DEF Numbered
    <3> QED
      BY <1>5, <3>1, <3>2
  <2> HIDE DEF f, d
  <2>3. PICK prims : /\ Reply(e, d, DmIfPolled(d, f), prims)
                     /\ prims \subseteq {"MDL_ERROR"} /\ (f \notin Finals => prims = {})
    BY <2>2
  <2>4. Kept(d, d)
    BY DEF Kept, SameData, SameReceiver
  <2>5. \/ d.state = "IDLE" /\ f.f /\ One(DmIfPolled(d, f), "DM")
        \/ ~(d.state = "IDLE" /\ f.f) /\ DmIfPolled(d, f) = <<>>
    <3>1. U("DM", f.f, "none") \in Frames /\ U("DM", f.f, "none").k = "DM"
      BY <1>2, FrameKinds, FramesMade DEF U
    <3> QED
      BY <3>1 DEF DmIfPolled, One
  <2>6. Rx(d, f, d, DmIfPolled(d, f), prims)
    BY <1>5, <2>2, <2>3, <2>4, <2>5 DEF Rx, RxDropped
  <2>7. ~Completes(d, f)
    BY <1>5 DEF Completes
  <2> QED
    BY <1>1, <2>2, <2>3, <2>6, <2>7 DEF f, d
<1> QED
  BY <1>3, <1>4, <1>5 DEF Receive

-----------------------------------------------------------------------------
(* The whole link: m and n are the data links of the mobile and of the base
   station, s and a the frames that they have under way, bm and bn whether an
   error of theirs is unanswered. *)

NoPoll(s, a) == Within(s) \cap Polls = {} /\ Within(a) \cap Finals = {}
OnePoll(s, a) ==
  /\ AtMostOne(s, Polls) /\ AtMostOne(a, Finals)
  /\ Within(s) \cap Polls = {} \/ Within(a) \cap Finals = {}

(* One side of it, whatever its state: what it sends holds one I frame and one
   poll at most. *)
Side(d, q, s, a, b) ==
  /\ d.state \in Established /\ ~b => Direction(d, q, s, a)
  /\ d.state \in Established => q.vr \in {d.va, d.vs}
  /\ AtMostOne(s, IFrames)
  /\ \A f \in Within(s) : f.k = "I" /\ ~f.f => f.ns = q.vr
  /\ OnePoll(s, a)
  /\ b \/ (d.state = "IDLE" /\ q.state \notin {"IDLE", "DISC_SENT"}) => NoPoll(s, a)

Lacks(s, K) == \A f \in Within(s) : f.k \notin K

(* The mobile never releases the link. *)
MsAnswers(m, s) == m.state # "DISC_SENT" /\ Lacks(s, {"DISC"})

(* A SABM that the mobile no longer waits for finds the base station releasing. *)
SabmLate(m, n, s, bn) ==
  ~Lacks(s, {"SABM"}) /\ m.state # "SABM_SENT" =>
    m.state = "IDLE" /\ n.state = "DISC_SENT" /\ ~bn /\ Lacks(Tail(s), {"SABM"})

(* While the mobile waits for its UA nothing of it was received but SABM. *)
Waits(m, n, s, a, bm, bn) ==
  m.state = "SABM_SENT" =>
    /\ ~bm /\ m.vr = 0 /\ m.rcv = <<>> /\ m.queue = <<>> /\ m.buf = "none"
    /\ n.vr = 0 /\ n.rcv = <<>>
    /\ \A f \in Within(a) : /\ Numbered(f) => f.nr = 0
                            /\ f \notin Finals /\ f.k # "REJ"
                            /\ f.k = "DISC" => n.state = "DISC_SENT"
    /\ bn => n.state # "DISC_SENT" /\ s = <<>>
    /\ n.state = "IDLE" => Flushed(n)
    /\ s # <<>> => \A f \in Within(a) : n.state # "IDLE" /\ (f.k = "DISC" \/ (f.k = "I" /\ ~f.f))

(* A UA of the base station is behind I frames at most, and for a mobile that
   waits for it. *)
UaFirst(m, a) ==
  /\ \A i, j \in 1..Len(a) : i < j /\ a[j].k = "UA" => a[i].k = "I"
  /\ ~Lacks(a, {"UA"}) => m.state = "SABM_SENT" /\ Lacks(a, {"DM"})

BtsOpen(n, s, a) == n.state \in Established => Lacks(a, {"DISC", "DM"}) /\ Lacks(s, {"UA"})
MsOpen(m, s) == m.state \in Established => \A f \in Within(s) : Numbered(f)
RejFinal(s) == \A f \in Within(s) : f.k = "REJ" => f \in Finals

Control(m, n, s, a, bm, bn) ==
  /\ MsAnswers(m, s) /\ SabmLate(m, n, s, bn) /\ Waits(m, n, s, a, bm, bn)
  /\ UaFirst(m, a) /\ BtsOpen(n, s, a) /\ MsOpen(m, s)
  /\ RejFinal(s) /\ RejFinal(a)

(* What OpenInv says of the two ends. *)
Alone(m, n, s, a) ==
  /\ n.state # "SABM_SENT" /\ Lacks(a, {"SABM"})
  /\ m.state = "SABM_SENT" => s = <<>> \/ (One(s, "SABM") /\ Lacks(a, {"UA"}))

(* Taking a frame away, and adding frames without numbers. *)
LEMMA PollsKeep ==
  ASSUME NEW s \in Seq(Frames), NEW a \in Seq(Frames),
         NEW out \in Seq(Frames), \A g \in Within(out) : ~Numbered(g)
  PROVE  /\ OnePoll(s, a) => /\ OnePoll(s \o out, a) /\ OnePoll(s, a \o out)
                             /\ a # <<>> => OnePoll(s, Tail(a))
                             /\ s # <<>> => OnePoll(Tail(s), a)
         /\ NoPoll(s, a) => /\ NoPoll(s \o out, a) /\ NoPoll(s, a \o out)
                            /\ a # <<>> => NoPoll(s, Tail(a))
                            /\ s # <<>> => NoPoll(Tail(s), a)
<1>1. Within(out) \cap Polls = {} /\ Within(out) \cap Finals = {}
  BY DEF Polls, Finals, Numbered
<1>2. Within(s \o out) = Within(s) \cup Within(out) /\ Within(a \o out) = Within(a) \cup Within(out)
  BY JoinParts
<1>3. /\ AtMostOne(s, Polls) => AtMostOne(s \o out, Polls)
      /\ AtMostOne(a, Finals) => AtMostOne(a \o out, Finals)
  BY <1>1, JoinParts
<1>4. /\ a # <<>> => /\ Within(Tail(a)) \subseteq Within(a)
                     /\ AtMostOne(a, Finals) => AtMostOne(Tail(a), Finals)
      /\ s # <<>> => /\ Within(Tail(s)) \subseteq Within(s)
                     /\ AtMostOne(s, Polls) => AtMostOne(Tail(s), Polls)
  BY TailParts
<1>5. ASSUME OnePoll(s, a)
      PROVE  /\ OnePoll(s \o out, a) /\ OnePoll(s, a \o out)
             /\ a # <<>> => OnePoll(s, Tail(a))
             /\ s # <<>> => OnePoll(Tail(s), a)
  BY <1>1, <1>2, <1>3, <1>4, <1>5 DEF OnePoll
<1>6. ASSUME NoPoll(s, a)
      PROVE  /\ NoPoll(s \o out, a) /\ NoPoll(s, a \o out)
             /\ a # <<>> => NoPoll(s, Tail(a))
             /\ s # <<>> => NoPoll(Tail(s), a)
  BY <1>1, <1>2, <1>4, <1>6 DEF NoPoll
<1> QED
  BY <1>5, <1>6

(* I frames of an entity that adds frames without numbers. *)
LEMMA IFramesKeep ==
  ASSUME NEW s \in Seq(Frames), AtMostOne(s, IFrames), NEW v, \A f \in Within(s) : f.k = "I" /\ ~f.f => f.ns = v,
         NEW out \in Seq(Frames), \A g \in Within(out) : ~Numbered(g)
  PROVE  /\ AtMostOne(s \o out, IFrames)
         /\ \A f \in Within(s \o out) : f.k = "I" /\ ~f.f => f.ns = v
         /\ s # <<>> => /\ AtMostOne(Tail(s), IFrames)
                        /\ \A f \in Within(Tail(s)) : f.k = "I" /\ ~f.f => f.ns = v
<1>1. Within(out) \cap IFrames = {}
  BY DEF IFrames, Numbered
<1>2. Within(s \o out) = Within(s) \cup Within(out)
  BY JoinParts
<1>3. \A f \in Within(out) : f.k # "I"
  BY DEF Numbered
<1>4. AtMostOne(s \o out, IFrames)
  BY <1>1, JoinParts
<1>5. s # <<>> => AtMostOne(Tail(s), IFrames) /\ Within(Tail(s)) \subseteq Within(s)
  BY TailParts
<1> QED
  BY <1>2, <1>3, <1>4, <1>5

(* d receives a frame, becomes x and answers with frames without numbers. *)
LEMMA OwnSide ==
  ASSUME NEW d, NEW q, NEW s \in Seq(Frames), NEW a \in Seq(Frames), NEW b, Side(d, q, s, a, b), a # <<>>,
         NEW x, NEW out \in Seq(Frames), \A g \in Within(out) : ~Numbered(g), NEW c,
         x.state \in Established /\ ~c => Direction(x, q, s \o out, Tail(a)),
         x.state \in Established => q.vr \in {x.va, x.vs},
         c \/ (x.state = "IDLE" /\ q.state \notin {"IDLE", "DISC_SENT"}) => NoPoll(s, Tail(a))
  PROVE  Side(x, q, s \o out, Tail(a), c)
<1>1. Tail(a) \in Seq(Frames)
  BY TailParts
<1>2. OnePoll(s, Tail(a))
  BY PollsKeep, NoFrame DEF Side
<1>3. OnePoll(s \o out, Tail(a)) /\ (NoPoll(s, Tail(a)) => NoPoll(s \o out, Tail(a)))
  BY <1>1, <1>2, PollsKeep
<1>4. AtMostOne(s \o out, IFrames) /\ \A f \in Within(s \o out) : f.k = "I" /\ ~f.f => f.ns = q.vr
  BY IFramesKeep DEF Side
<1> QED
  BY <1>3, <1>4 DEF Side

(* The same for its peer q. *)
LEMMA PeerSide ==
  ASSUME NEW d, NEW q, NEW s \in Seq(Frames), NEW a \in Seq(Frames), NEW b, Side(q, d, a, s, b), a # <<>>,
         NEW x, SameReceiver(d, x), NEW out \in Seq(Frames), \A g \in Within(out) : ~Numbered(g),
         \/ Lacks(out, {"DM"})
         \/ Head(a) \in Polls /\ One(out, "DM")
         \/ q.state \notin Established \/ b,
         q.state = "IDLE" /\ x.state \notin {"IDLE", "DISC_SENT"} => d.state \notin {"IDLE", "DISC_SENT"}
  PROVE  Side(q, x, Tail(a), s \o out, b)
<1>1. Tail(a) \in Seq(Frames)
  BY TailParts
<1>2. OnePoll(Tail(a), s) /\ (NoPoll(a, s) => NoPoll(Tail(a), s))
  BY PollsKeep, NoFrame DEF Side
<1>3. OnePoll(Tail(a), s \o out) /\ (NoPoll(Tail(a), s) => NoPoll(Tail(a), s \o out))
  BY <1>1, <1>2, PollsKeep
<1>4. AtMostOne(Tail(a), IFrames)
  BY TailParts DEF Side
<1>5. \A f \in Within(Tail(a)) : f.k = "I" /\ ~f.f => f.ns = x.vr
  <2>1. Within(Tail(a)) \subseteq Within(a)
    BY TailParts
  <2> QED
    BY <2>1 DEF Side, SameReceiver
<1>6. ASSUME q.state \in Established, ~b
      PROVE  Direction(q, x, Tail(a), s \o out)
  <2>1. Direction(q, d, a, s)
    BY <1>6 DEF Side
  <2>2. Direction(q, d, Tail(a), s \o out)
    <3>1. CASE Lacks(out, {"DM"})
      <4>1. Direction(q, d, Tail(a), s)
        BY <2>1, FrameGone
      <4>2. \A g \in Within(out) : g \notin Endings /\ ~Numbered(g)
        BY <3>1 DEF Endings, Finals, Lacks, Numbered
      <4> QED
        BY <1>1, <4>1, <4>2, AnswerAdded
    <3>2. CASE Head(a) \in Polls /\ One(out, "DM")
      <4>1. PICK g \in Frames : g.k = "DM" /\ out = <<g>>
        BY <3>2 DEF One
      <4>2. AtMostOne(a, Polls)
        BY DEF Side, OnePoll
      <4> QED
        BY <2>1, <3>2, <4>1, <4>2, PollDismissed
    <3> QED
      BY <1>6, <3>1, <3>2
  <2>3. SameSender(q, q)
    BY DEF SameSender
  <2> QED
    BY <2>2, <2>3, DirectionFields
<1> QED
  BY <1>2, <1>3, <1>4, <1>5, <1>6 DEF Side, SameReceiver

LEMMA KeptDirection ==
  ASSUME NEW d, NEW q, NEW s \in Seq(Frames), NEW a \in Seq(Frames), Side(d, q, s, a, FALSE),
         NEW x, Kept(d, x), x.state \in Established,
         NEW out \in Seq(Frames), \A g \in Within(out) : ~Numbered(g)
  PROVE  /\ Direction(x, q, s \o out, a)
         /\ a # <<>> => Direction(x, q, s \o out, Tail(a))
         /\ q.vr \in {x.va, x.vs}
<1>1. Direction(d, q, s, a) /\ q.vr \in {d.va, d.vs}
  BY DEF Side, Kept
<1>2. \A f \in Within(out) : f.k # "I" /\ f \notin Polls
  BY DEF Numbered, Polls
<1>3. Direction(d, q, s \o out, a)
  BY <1>1, <1>2, AnswerSent
<1>4. s \o out \in Seq(Frames)
  BY JoinParts
<1>5. a # <<>> => Direction(d, q, s \o out, Tail(a))
  BY <1>3, <1>4, FrameGone
<1>6. SameSender(d, x) /\ SameReceiver(q, q)
  BY DEF Kept, SameData, SameSender, SameReceiver
<1> QED
  BY <1>1, <1>3, <1>5, <1>6, DirectionFields DEF SameSender

(* An established entity takes a frame with numbers. *)
Replies(out, f, v) ==
  \A g \in Within(out) : /\ Numbered(g) /\ g.nr = v /\ g \notin Polls
                         /\ g \in Finals => f \in Polls
                         /\ g.k = "REJ" => g \in Finals

LEMMA TakenParts ==
  ASSUME NEW d \in Datalinks, NEW q, NEW s \in Seq(Frames), NEW a \in Seq(Frames),
         Side(q, d, a, s, FALSE), a # <<>>,
         NEW y, NEW answer, Handles(d, y, answer, Head(a)), NEW o \in Seq(Frames),
         GoesOn(o, y.vr)
  PROVE  /\ answer \o o \in Seq(Frames)
         /\ Replies(answer \o o, Head(a), y.vr)
         /\ AtMostOne(answer \o o, Finals)
<1> DEFINE f == Head(a)
<1>1. /\ answer \in Seq(Frames)
      /\ \A g \in Within(answer) : /\ g.k \in {"RR", "REJ"} /\ ~g.cmd /\ g.nr = y.vr /\ g \notin Polls
                                   /\ g.f => f \in Polls
                                   /\ g.k = "REJ" => f.k = "I" /\ f.ns # d.vr /\ g.f = f.f
      /\ AtMostOne(answer, Endings)
  <2>1. Answers(d, y, answer, f)
    BY DEF Handles
  <2> QED
    BY <2>1, AnswersParts
<1>2. answer \o o \in Seq(Frames) /\ Within(answer \o o) = Within(answer) \cup Within(o)
  BY <1>1, JoinParts
<1>3. f \in Within(a) /\ f \in Frames /\ f.f \in BOOLEAN
  BY TailParts, FrameKinds
<1>4. f.k = "I" /\ ~f.f => f.ns = d.vr
  BY <1>3 DEF Side
<1>5. Within(answer) \subseteq Frames
  BY <1>1, WithinParts
<1>6. \A g \in Within(answer) : g.k = "REJ" => g \in Finals
  BY <1>1, <1>3, <1>4, <1>5 DEF Finals
<1>7. \A g \in Within(o) : g \notin Finals /\ g \notin Polls
  BY DEF Finals, Polls, GoesOn
<1>8. \A g \in Within(answer) : g \in Finals => f \in Polls
  BY <1>1 DEF Finals
<1>9. AtMostOne(answer \o o, Finals)
  <2>1. AtMostOne(answer, Finals)
    BY <1>1 DEF AtMostOne, Endings
  <2>2. Within(o) \cap Finals = {}
    BY <1>7
  <2> QED
    BY <1>1, <2>1, <2>2, JoinParts
<1> HIDE DEF f
<1>10. Replies(answer \o o, f, y.vr)
  BY <1>1, <1>2, <1>6, <1>7, <1>8 DEF Numbered, Replies, GoesOn
<1> QED
  BY <1>2, <1>9, <1>10 DEF f

LEMMA TakenOwn ==
  ASSUME NEW d \in Datalinks, NEW q \in Datalinks, NEW s \in Seq(Frames), NEW a \in Seq(Frames),
         OnePoll(s, a), a # <<>>, NEW x, x.state \in Established,
         NEW out \in Seq(Frames), \A g \in Within(out) : g \notin Polls,
         Direction(x, q, s \o out, Tail(a)), AtMostOne(s \o out, IFrames)
  PROVE  Side(x, q, s \o out, Tail(a), FALSE)
<1>1. Tail(a) \in Seq(Frames) /\ s \o out \in Seq(Frames) /\ Within(s \o out) = Within(s) \cup Within(out)
  BY TailParts, JoinParts
<1>2. OnePoll(s, Tail(a))
  BY PollsKeep, NoFrame
<1>3. OnePoll(s \o out, Tail(a))
  <2>1. Within(out) \cap Polls = {}
    OBVIOUS
  <2>2. AtMostOne(s \o out, Polls)
    BY <1>2, <2>1, JoinParts DEF OnePoll
  <2> QED
    BY <1>1, <1>2, <2>1, <2>2 DEF OnePoll
<1>4. q.vr \in {x.va, x.vs}
  BY DEF Direction, Acks
<1>5. \A f \in Within(s \o out) : f.k = "I" /\ ~f.f => f.ns = q.vr
  BY DEF Direction, Data, Carried
<1>6. x.state # "IDLE"
  BY DEF Established
<1> QED
  BY <1>3, <1>4, <1>5, <1>6 DEF Side

LEMMA TakenPeers ==
  ASSUME NEW d \in Datalinks, NEW q \in Datalinks, NEW s \in Seq(Frames), NEW a \in Seq(Frames),
         Side(q, d, a, s, FALSE), d.state \in Established, a # <<>>,
         NEW x, Hears(d, x, Head(a)), NEW out \in Seq(Frames),
         \A g \in Within(out) : g \in Finals => Head(a) \in Polls,
         AtMostOne(out, Finals),
         q.state \in Established => Direction(q, x, Tail(a), s \o out)
  PROVE  Side(q, x, Tail(a), s \o out, FALSE)
<1> DEFINE f == Head(a)
<1>1. /\ Tail(a) \in Seq(Frames) /\ Within(Tail(a)) \subseteq Within(a) /\ f \in Frames
      /\ AtMostOne(Tail(a), IFrames) /\ AtMostOne(Tail(a), Polls)
      /\ f \in IFrames => Within(Tail(a)) \cap IFrames = {}
      /\ f \in Polls => Within(Tail(a)) \cap Polls = {}
      /\ f \in Within(a)
  BY TailParts DEF Side, OnePoll
<1>2. /\ s \o out \in Seq(Frames) /\ Within(s \o out) = Within(s) \cup Within(out)
  BY JoinParts
<1>3. ASSUME NEW g \in Within(Tail(a)), g.k = "I", ~g.f
      PROVE  g.ns = x.vr
  <2>1. g \in Frames
    BY <1>1, WithinParts
  <2>2. g \in IFrames
    BY <1>3, <2>1, FrameKinds
  <2>3. f.k # "I"
    BY <1>1, <2>2, FrameKinds
  <2>4. x.vr = d.vr
    BY <2>3 DEF Hears, SameReceiver
  <2> QED
    BY <1>1, <1>3, <2>4 DEF Side
<1>4. OnePoll(Tail(a), s \o out)
  <2>1. OnePoll(a, s)
    BY DEF Side
  <2>2. CASE f \in Polls
    <3>1. Within(s) \cap Finals = {} /\ Within(Tail(a)) \cap Polls = {}
      BY <1>1, <2>1, <2>2 DEF OnePoll
    <3>2. AtMostOne(s \o out, Finals)
      BY <3>1, JoinParts
    <3> QED
      BY <1>1, <3>1, <3>2 DEF OnePoll
  <2>3. CASE f \notin Polls
    <3>1. Within(out) \cap Finals = {}
      BY <2>3
    <3>2. AtMostOne(s \o out, Finals)
      BY <2>1, <3>1, JoinParts DEF OnePoll
    <3> QED
      BY <1>1, <1>2, <2>1, <3>1, <3>2 DEF OnePoll
  <2> QED
    BY <2>2, <2>3
<1>5. q.state = "IDLE" => NoPoll(Tail(a), s \o out)
  <2>1. d.state \notin {"IDLE", "DISC_SENT"}
    BY DEF Established
  <2>2. q.state = "IDLE" => NoPoll(a, s)
    BY <2>1 DEF Side
  <2> QED
    BY <1>1, <1>2, <2>2 DEF NoPoll
<1>6. q.state \in Established => x.vr \in {q.va, q.vs}
  BY DEF Direction, Acks
<1> QED
  BY <1>1, <1>3, <1>4, <1>5, <1>6 DEF Side

LEMMA TakenSides ==
  ASSUME NEW d \in Datalinks, NEW q \in Datalinks, NEW s \in Seq(Frames), NEW a \in Seq(Frames),
         Side(d, q, s, a, FALSE), Side(q, d, a, s, FALSE), a # <<>>, Numbered(Head(a)),
         Head(a).k = "REJ" => Head(a) \in Finals,
         NEW x, NEW out, NEW prims, RxTaken(d, Head(a), x, out, prims)
  PROVE  /\ prims = {}
         /\ out \in Seq(Frames) /\ x.state \in Established
         /\ \A g \in Within(out) : Numbered(g) /\ (g.k = "REJ" => g \in Finals)
         /\ Side(x, q, s \o out, Tail(a), FALSE)
         /\ Side(q, x, Tail(a), s \o out, FALSE)
<1> DEFINE f == Head(a)
<1>1. d.state \in Established /\ prims = Alarm((f.k # "I" /\ Unexpected(d, f)) \/ SeqError(d, f.nr))
  BY DEF RxTaken
<1>2. Direction(d, q, s, a) /\ AtMostOne(s, IFrames) /\ OnePoll(s, a)
  BY <1>1 DEF Side
<1>3. f \in Within(a)
  BY TailParts
<1>4. prims = {}
  BY <1>1, <1>2, <1>3, NoAlarm DEF Alarm
<1>5. PICK y, answer : Handles(d, y, answer, f) /\ x = SendI(y).d /\ out = answer \o SendI(y).out
  BY DEF RxTaken
<1> DEFINE o == SendI(y).out
<1>6. /\ Direction(x, q, s \o out, Tail(a)) /\ AtMostOne(s \o out, IFrames)
      /\ y \in Datalinks /\ y.state \in Established /\ answer \in Seq(Frames) /\ o \in Seq(Frames)
      /\ GoesOn(o, y.vr)
      /\ x.vr = y.vr /\ x.rcv = y.rcv
  <2>1. Handles(d, y, answer, f)
    BY <1>5
  <2>2. /\ Direction(SendI(y).d, q, s \o (answer \o SendI(y).out), Tail(a))
        /\ AtMostOne(s \o (answer \o SendI(y).out), IFrames)
        /\ y \in Datalinks /\ y.state \in Established
        /\ answer \in Seq(Frames) /\ SendI(y).out \in Seq(Frames)
        /\ GoesOn(SendI(y).out, y.vr)
        /\ SendI(y).d.vr = y.vr /\ SendI(y).d.rcv = y.rcv
    <3>1. d.state \in Established /\ Direction(d, q, s, a) /\ AtMostOne(s, IFrames)
      BY <1>1, <1>2
    <3>2. Handles(d, y, answer, Head(a))
      BY <2>1
    <3> HIDE DEF f, o
    <3>3. /\ Direction(SendI(y).d, q, s \o (answer \o SendI(y).out), Tail(a))
          /\ AtMostOne(s \o (answer \o SendI(y).out), IFrames)
      BY <3>1, <3>2, OwnDirection
    <3>4. /\ y \in Datalinks /\ y.state \in Established
          /\ answer \in Seq(Frames) /\ SendI(y).out \in Seq(Frames)
      BY <3>1, <3>2, OwnDirection
    <3>5. GoesOn(SendI(y).out, y.vr)
      BY <3>1, <3>2, OwnDirection
    <3>6. SendI(y).d.vr = y.vr /\ SendI(y).d.rcv = y.rcv
      BY <3>4, SendIKeeps
    <3> QED
      BY <3>3, <3>4, <3>5, <3>6
  <2> QED
    BY <1>5, <2>2
<1>7. x \in Datalinks /\ x.state \in Established
  BY <1>5, <1>6, SendIKeeps
<1>8. out = answer \o o
  BY <1>5
<1> HIDE DEF o, f
<1>9. out \in Seq(Frames) /\ Replies(out, f, y.vr) /\ AtMostOne(out, Finals)
  <2>1. Handles(d, y, answer, Head(a))
    BY <1>5 DEF f
  <2>2. /\ answer \o o \in Seq(Frames) /\ Replies(answer \o o, Head(a), y.vr)
        /\ AtMostOne(answer \o o, Finals)
    BY <1>6, <2>1, TakenParts
  <2> QED
    BY <1>8, <2>2 DEF f
<1>10. Side(x, q, s \o out, Tail(a), FALSE)
  <2>1. \A g \in Within(out) : g \notin Polls
    BY <1>9 DEF Replies
  <2> QED
    BY <1>2, <1>6, <1>7, <1>9, <2>1, TakenOwn
<1>11. q.state \in Established => Direction(q, x, Tail(a), s \o out)
  <2>1. q.state \in Established => Direction(q, d, a, s)
    BY DEF Side
  <2>2. AtMostOne(a, IFrames) /\ AtMostOne(a, Polls)
    BY DEF Side, OnePoll
  <2> QED
    BY <1>5, <1>6, <1>7, <1>8, <2>1, <2>2, PeersDirection DEF f
<1>12. Hears(d, x, f)
  BY <1>5, <1>6 DEF Handles, Hears, SameReceiver
<1>13. Side(q, x, Tail(a), s \o out, FALSE)
  <2>1. \A g \in Within(out) : g \in Finals => Head(a) \in Polls
    BY <1>9 DEF Replies, f
  <2> QED
    BY <1>1, <1>9, <1>11, <1>12, <2>1, TakenPeers DEF f
<1> QED
  BY <1>4, <1>7, <1>9, <1>10, <1>13 DEF Replies

-----------------------------------------------------------------------------
(* Control, when the mobile receives a frame. *)

LEMMA LacksParts ==
  ASSUME NEW s \in Seq(Frames), NEW t \in Seq(Frames), NEW K
  PROVE  /\ Lacks(<<>>, K)
         /\ Lacks(s \o t, K) <=> Lacks(s, K) /\ Lacks(t, K)
         /\ s # <<>> /\ Lacks(s, K) => Lacks(Tail(s), K)
         /\ s # <<>> /\ Lacks(s, K) => Head(s).k \notin K
<1>1. Within(s \o t) = Within(s) \cup Within(t) /\ Within(<<>>) = {}
  BY JoinParts, NoFrame
<1>2. s # <<>> => Within(Tail(s)) \subseteq Within(s) /\ Head(s) \in Within(s)
  BY TailParts
<1> QED
  BY <1>1, <1>2 DEF Lacks

LEMMA TailLacks ==
  ASSUME NEW s \in Seq(Frames), NEW t \in Seq(Frames), s # <<>>, NEW K, Lacks(Tail(s), K), Lacks(t, K)
  PROVE  Lacks(Tail(s \o t), K)
<1>1. Tail(s \o t) = Tail(s) \o t /\ Tail(s) \in Seq(Frames)
  OBVIOUS
<1>2. Lacks(Tail(s) \o t, K)
  BY <1>1, LacksParts
<1> QED
  BY <1>1, <1>2

LEMMA OneParts ==
  ASSUME NEW s, NEW k, One(s, k)
  PROVE  /\ s \in Seq(Frames) /\ s # <<>> /\ Head(s).k = k /\ Tail(s) = <<>>
         /\ \A g \in Within(s) : g.k = k
<1>1. PICK g \in Frames : g.k = k /\ s = <<g>>
  BY DEF One
<1>2. s \in Seq(Frames) /\ Within(s) = {g}
  BY <1>1, OneFrame
<1>3. s # <<>> /\ Head(s) = g /\ Tail(s) = <<>>
  BY <1>1
<1> QED
  BY <1>1, <1>2, <1>3

(* Order of the frames in front of a UA when the first frame is gone. *)
LEMMA UaBehind ==
  ASSUME NEW a \in Seq(Frames), a # <<>>,
         \A i, j \in 1..Len(a) : i < j /\ a[j].k = "UA" => a[i].k = "I"
  PROVE  /\ \A i, j \in 1..Len(Tail(a)) : i < j /\ Tail(a)[j].k = "UA" => Tail(a)[i].k = "I"
         /\ ~Lacks(Tail(a), {"UA"}) => Head(a).k = "I"
<1>1. /\ Len(a) \in Nat \ {0} /\ Head(a) = a[1] /\ Len(Tail(a)) = Len(a) - 1
      /\ \A i \in 1..Len(Tail(a)) : Tail(a)[i] = a[i + 1]
  OBVIOUS
<1>2. \A i \in 1..Len(Tail(a)) : i + 1 \in 1..Len(a)
  BY <1>1
<1>3. ASSUME NEW i \in 1..Len(Tail(a)), NEW j \in 1..Len(Tail(a)), i < j, Tail(a)[j].k = "UA"
      PROVE  Tail(a)[i].k = "I"
  <2>1. i + 1 < j + 1
    BY <1>3
  <2> QED
    BY <1>1, <1>2, <1>3, <2>1
<1>4. ASSUME NEW j \in 1..Len(Tail(a)), Tail(a)[j].k = "UA"
      PROVE  Head(a).k = "I"
  <2>1. 1 \in 1..Len(a) /\ 1 < j + 1
    BY <1>1
  <2> QED
    BY <1>1, <1>2, <1>4, <2>1
<1> QED
  BY <1>3, <1>4 DEF Lacks, Within

LEMMA MsControl ==
  ASSUME NEW m, NEW n, NEW s \in Seq(Frames), NEW a \in Seq(Frames), a # <<>>,
         Alone(m, n, s, a), Control(m, n, s, a, FALSE, FALSE),
         NEW x, x.state # "DISC_SENT", NEW out \in Seq(Frames), NEW c,
         Lacks(out, {"SABM", "DISC"}), RejFinal(out),
         n.state \in Established => Lacks(out, {"UA"}),
         x.state \in Established => \A g \in Within(out) : Numbered(g),
         x.state = "SABM_SENT" => Kept(m, x) /\ out = <<>> /\ ~c,
         m.state = "SABM_SENT" /\ x.state # "SABM_SENT" =>
           Head(a).k \in {"DM", "DISC", "UA"} /\ (Head(a).k = "DISC" => x.state = "IDLE"),
         m.state \notin Established /\ m.state # "SABM_SENT" => x.state = "IDLE"
  PROVE  Control(x, n, s \o out, Tail(a), c, FALSE)
<1>1. /\ s \o out \in Seq(Frames) /\ Within(s \o out) = Within(s) \cup Within(out)
      /\ \A K : Lacks(s \o out, K) <=> Lacks(s, K) /\ Lacks(out, K)
  BY JoinParts, LacksParts
<1>2. /\ Tail(a) \in Seq(Frames) /\ Within(Tail(a)) \subseteq Within(a) /\ Head(a) \in Within(a)
      /\ \A K : Lacks(a, K) => Lacks(Tail(a), K)
  BY TailParts, LacksParts
<1>3. Lacks(out, {"SABM"}) /\ Lacks(out, {"DISC"})
  BY DEF Lacks
<1>4. /\ MsAnswers(m, s) /\ SabmLate(m, n, s, FALSE) /\ Waits(m, n, s, a, FALSE, FALSE)
      /\ UaFirst(m, a) /\ BtsOpen(n, s, a) /\ MsOpen(m, s) /\ RejFinal(s) /\ RejFinal(a)
  BY DEF Control
<1>5. MsAnswers(x, s \o out)
  BY <1>1, <1>3, <1>4 DEF MsAnswers
<1>6. m.state = "SABM_SENT" /\ Head(a).k \in {"DM", "UA"} => s = <<>>
  BY <1>2, <1>4 DEF Waits
<1>7. SabmLate(x, n, s \o out, FALSE)
  <2> SUFFICES ASSUME ~Lacks(s, {"SABM"}), x.state # "SABM_SENT"
               PROVE  x.state = "IDLE" /\ n.state = "DISC_SENT" /\ Lacks(Tail(s \o out), {"SABM"})
    BY <1>1, <1>3 DEF SabmLate
  <2>1. s # <<>>
    <3>1. Lacks(<<>>, {"SABM"})
      BY NoFrame DEF Lacks
    <3> QED
      BY <3>1
  <2>3. Lacks(Tail(s), {"SABM"}) => Lacks(Tail(s \o out), {"SABM"})
    BY <1>3, <2>1, TailLacks
  <2>4. CASE m.state = "SABM_SENT"
    <3>1. Head(a).k = "DISC" /\ x.state = "IDLE"
      BY <1>6, <2>1, <2>4
    <3>2. n.state = "DISC_SENT"
      BY <1>2, <1>4, <2>4, <3>1 DEF Waits
    <3>3. Lacks(Tail(s), {"SABM"})
      <4>1. One(s, "SABM")
        BY <2>1, <2>4 DEF Alone
      <4>2. Tail(s) = <<>>
        BY <4>1, OneParts
      <4> QED
        BY <4>2, NoFrame DEF Lacks
    <3> QED
      BY <2>3, <3>1, <3>2, <3>3
  <2>5. CASE m.state # "SABM_SENT"
    <3>1. m.state = "IDLE" /\ n.state = "DISC_SENT" /\ Lacks(Tail(s), {"SABM"})
      BY <1>4, <2>5 DEF SabmLate
    <3> QED
      BY <2>3, <2>5, <3>1 DEF Established
  <2> QED
    BY <2>4, <2>5
<1>8. Waits(x, n, s \o out, Tail(a), c, FALSE)
  <2> SUFFICES ASSUME x.state = "SABM_SENT"
               PROVE  Waits(x, n, s \o out, Tail(a), c, FALSE)
    BY DEF Waits
  <2>1. Kept(m, x) /\ out = <<>> /\ ~c
    OBVIOUS
  <2>2. s \o out = s
    BY <2>1
  <2> QED
    BY <1>2, <1>4, <2>1, <2>2 DEF Waits, Kept, SameData, SameReceiver
<1>9. UaFirst(x, Tail(a))
  <2>1. /\ \A i, j \in 1..Len(Tail(a)) : i < j /\ Tail(a)[j].k = "UA" => Tail(a)[i].k = "I"
        /\ ~Lacks(Tail(a), {"UA"}) => Head(a).k = "I"
    BY <1>4, UaBehind DEF UaFirst
  <2> QED
    BY <1>2, <1>4, <2>1 DEF UaFirst
<1>10. BtsOpen(n, s \o out, Tail(a))
  BY <1>1, <1>2, <1>4 DEF BtsOpen
<1>11. MsOpen(x, s \o out)
  <2> SUFFICES ASSUME x.state \in Established
               PROVE  \A g \in Within(s \o out) : Numbered(g)
    BY DEF MsOpen
  <2>1. CASE m.state \in Established
    BY <1>1, <1>4, <2>1 DEF MsOpen
  <2>2. CASE m.state = "SABM_SENT"
    <3>1. s = <<>>
      BY <1>6, <2>2 DEF Established
    <3> QED
      BY <1>1, <3>1, NoFrame
  <2> QED
    BY <2>1, <2>2 DEF Established
<1>12. RejFinal(s \o out) /\ RejFinal(Tail(a))
  BY <1>1, <1>2, <1>4 DEF RejFinal
<1> QED
  BY <1>5, <1>7, <1>8, <1>9, <1>10, <1>11, <1>12 DEF Control

-----------------------------------------------------------------------------
(* Both sides of the link. *)

Linked(m, n, s, a, bm, bn) ==
  Control(m, n, s, a, bm, bn) /\ Side(m, n, s, a, bm) /\ Side(n, m, a, s, bn)

LEMMA KeptSides ==
  ASSUME NEW d, NEW q, NEW s \in Seq(Frames), NEW a \in Seq(Frames),
         Side(d, q, s, a, FALSE), Side(q, d, a, s, FALSE), a # <<>>,
         NEW x, Kept(d, x), NEW out \in Seq(Frames), \A g \in Within(out) : ~Numbered(g),
         NEW c, c => NoPoll(s, Tail(a)),
         \/ Lacks(out, {"DM"})
         \/ Head(a) \in Polls /\ One(out, "DM")
         \/ q.state \notin Established
  PROVE  /\ Side(x, q, s \o out, Tail(a), c)
         /\ Side(q, x, Tail(a), s \o out, FALSE)
<1>1. x.state = d.state /\ SameReceiver(d, x)
  BY DEF Kept, SameData
<1>2. x.state \in Established => Direction(x, q, s \o out, Tail(a)) /\ q.vr \in {x.va, x.vs}
  BY KeptDirection
<1>3. x.state = "IDLE" /\ q.state \notin {"IDLE", "DISC_SENT"} => NoPoll(s, Tail(a))
  <2>1. NoPoll(s, a) => NoPoll(s, Tail(a))
    BY PollsKeep, NoFrame
  <2> QED
    BY <1>1, <2>1 DEF Side
<1>4. Side(x, q, s \o out, Tail(a), c)
  BY <1>2, <1>3, OwnSide
<1>5. Side(q, x, Tail(a), s \o out, FALSE)
  BY <1>1, PeerSide
<1> QED
  BY <1>4, <1>5

LEMMA ClosedSides ==
  ASSUME NEW d, NEW q, NEW s \in Seq(Frames), NEW a \in Seq(Frames),
         Side(d, q, s, a, FALSE), Side(q, d, a, s, FALSE), a # <<>>,
         NEW x, Closed(d, x), NEW out \in Seq(Frames), \A g \in Within(out) : ~Numbered(g),
         q.state \notin {"IDLE", "DISC_SENT"} => NoPoll(s, Tail(a)),
         Lacks(out, {"DM"}) \/ q.state \notin Established
  PROVE  /\ Side(x, q, s \o out, Tail(a), FALSE)
         /\ Side(q, x, Tail(a), s \o out, FALSE)
<1>1. x.state = "IDLE" /\ SameReceiver(d, x)
  BY DEF Closed
<1>2. x.state \notin Established
  BY <1>1 DEF Established
<1>3. Side(x, q, s \o out, Tail(a), FALSE)
  BY <1>1, <1>2, OwnSide
<1>4. Side(q, x, Tail(a), s \o out, FALSE)
  BY <1>1, PeerSide
<1> QED
  BY <1>3, <1>4

(* The mobile receives a frame. *)

LEMMA MsIgnores ==
  ASSUME NEW m \in Datalinks, NEW n \in Datalinks, NEW s \in Seq(Frames), NEW a \in Seq(Frames), a # <<>>,
         Alone(m, n, s, a), Linked(m, n, s, a, FALSE, FALSE),
         NEW x, Kept(m, x)
  PROVE  Linked(x, n, s \o <<>>, Tail(a), FALSE, FALSE)
<1>1. x.state = m.state
  BY DEF Kept
<1>2. <<>> \in Seq(Frames) /\ Within(<<>>) = {}
  BY NoFrame
<1>3. /\ \A K : Lacks(<<>>, K)
      /\ RejFinal(<<>>) /\ \A g \in Within(<<>>) : Numbered(g) /\ ~Numbered(g)
  BY <1>2 DEF Lacks, RejFinal
<1>4. Side(x, n, s \o <<>>, Tail(a), FALSE) /\ Side(n, x, Tail(a), s \o <<>>, FALSE)
  BY <1>2, <1>3, KeptSides DEF Linked
<1>5. m.state # "DISC_SENT"
  BY DEF Linked, Control, MsAnswers
<1>6. m.state \in States
  BY DEF Datalinks
<1>7. Control(x, n, s \o <<>>, Tail(a), FALSE, FALSE)
  BY <1>1, <1>2, <1>3, <1>5, <1>6, MsControl DEF Linked, States, Established
<1> QED
  BY <1>4, <1>7 DEF Linked

(* Frames without numbers that the mobile may send in answer. *)
LEMMA UAnswer ==
  ASSUME NEW out, NEW k \in {"UA", "DM"}, One(out, k)
  PROVE  /\ out \in Seq(Frames) /\ \A g \in Within(out) : ~Numbered(g) /\ g.k = k
         /\ Lacks(out, {"SABM", "DISC"}) /\ RejFinal(out)
         /\ k = "UA" => Lacks(out, {"DM"})
         /\ k = "DM" => Lacks(out, {"UA"})
<1>1. out \in Seq(Frames) /\ \A g \in Within(out) : g.k = k
  BY OneParts
<1> QED
  BY <1>1 DEF Lacks, Numbered, RejFinal

LEMMA MsDm ==
  ASSUME NEW m \in Datalinks, NEW n \in Datalinks, NEW s \in Seq(Frames), NEW a \in Seq(Frames), a # <<>>,
         Alone(m, n, s, a), Linked(m, n, s, a, FALSE, FALSE), Head(a).k = "DM",
         NEW x \in Datalinks, NEW out, NEW prims, RxDm(m, Head(a), x, out, prims)
  PROVE  Linked(x, n, s \o out, Tail(a), "MDL_ERROR" \in prims, FALSE)
<1> DEFINE f == Head(a)
<1>1. f \in Within(a) /\ f \in Frames /\ f \in Endings
  BY TailParts DEF Endings
<1>2. m.state # "DISC_SENT"
  BY DEF Linked, Control, MsAnswers
<1>3. m.state # "MF_EST"
  <2>1. m.state = "MF_EST" => Direction(m, n, s, a)
    BY DEF Linked, Side, Established
  <2> QED
    BY <1>1, <2>1 DEF Direction, Recovery
<1>4. out = <<>>
  BY DEF RxDm
<1> HIDE DEF f
<1>5. CASE Kept(m, x) /\ prims = {}
  <2>1. Linked(x, n, s \o <<>>, Tail(a), FALSE, FALSE)
    BY <1>5, MsIgnores
  <2>2. ("MDL_ERROR" \in prims) = FALSE
    BY <1>5
  <2> QED
    BY <1>4, <2>1, <2>2
<1>6. CASE m.state \in {"SABM_SENT", "TIMER_RECOV"} /\ Closed(m, x) /\ prims = {"REL_IND"}
  <2>1. ("MDL_ERROR" \in prims) = FALSE
    BY <1>6
  <2>2. <<>> \in Seq(Frames) /\ \A g \in Within(<<>>) : Numbered(g) /\ ~Numbered(g)
    BY NoFrame
  <2>3. (\A K : Lacks(<<>>, K)) /\ RejFinal(<<>>)
    BY NoFrame DEF Lacks, RejFinal
  <2>4. n.state \notin {"IDLE", "DISC_SENT"} => NoPoll(s, Tail(a))
    <3>1. CASE m.state = "SABM_SENT"
      <4>1. n.state \notin Established
        BY <1>1 DEF Linked, Control, BtsOpen, Lacks, f
      <4> QED
        BY <4>1 DEF Datalinks, States, Established, Alone
    <3>2. CASE m.state = "TIMER_RECOV"
      <4>1. Recovery(m, n, s, a)
        BY <3>2 DEF Linked, Side, Established, Direction
      <4>2. Within(s) \cap Polls = {} /\ Within(Tail(a)) \cap Endings = {}
        BY <1>1, <4>1, TailParts DEF Recovery, f
      <4> QED
        BY <4>2 DEF NoPoll, Endings
    <3> QED
      BY <1>6, <3>1, <3>2
  <2>5. Side(x, n, s \o <<>>, Tail(a), FALSE) /\ Side(n, x, Tail(a), s \o <<>>, FALSE)
    BY <1>6, <2>2, <2>3, <2>4, ClosedSides DEF Linked
  <2>6. x.state = "IDLE"
    BY <1>6 DEF Closed
  <2>7. Control(x, n, s \o <<>>, Tail(a), FALSE, FALSE)
    BY <2>2, <2>3, <2>6, MsControl DEF Linked
  <2> QED
    BY <1>4, <2>1, <2>5, <2>7 DEF Linked
<1> QED
  BY <1>2, <1>3, <1>5, <1>6 DEF RxDm

LEMMA MsDisc ==
  ASSUME NEW m \in Datalinks, NEW n \in Datalinks, NEW s \in Seq(Frames), NEW a \in Seq(Frames), a # <<>>,
         Alone(m, n, s, a), Linked(m, n, s, a, FALSE, FALSE), Head(a).k = "DISC",
         NEW x \in Datalinks, NEW out, NEW prims, RxDisc(m, Head(a), x, out, prims)
  PROVE  Linked(x, n, s \o out, Tail(a), "MDL_ERROR" \in prims, FALSE)
<1>1. Head(a) \in Within(a)
  BY TailParts
<1>2. m.state # "DISC_SENT"
  BY DEF Linked, Control, MsAnswers
<1>3. n.state \notin Established
  BY <1>1 DEF Linked, Control, BtsOpen, Lacks
<1>4. n.state \in {"IDLE", "DISC_SENT"}
  BY <1>3 DEF Datalinks, States, Established, Alone
<1>5. Closed(m, x) /\ x.state = "IDLE" /\ ("MDL_ERROR" \in prims) = FALSE
  BY DEF RxDisc, Closed
<1>6. PICK k \in {"UA", "DM"} : One(out, k)
  BY <1>2 DEF RxDisc
<1>7. /\ out \in Seq(Frames) /\ \A g \in Within(out) : ~Numbered(g) /\ g.k = k
      /\ Lacks(out, {"SABM", "DISC"}) /\ RejFinal(out)
  BY <1>6, UAnswer
<1>8. Side(x, n, s \o out, Tail(a), FALSE) /\ Side(n, x, Tail(a), s \o out, FALSE)
  BY <1>3, <1>4, <1>5, <1>7, ClosedSides DEF Linked
<1>9. Control(x, n, s \o out, Tail(a), FALSE, FALSE)
  BY <1>3, <1>5, <1>7, MsControl DEF Linked, Established
<1> QED
  BY <1>5, <1>8, <1>9 DEF Linked

(* Nothing waits to be sent when the link is established. *)
LEMMA NothingWaits ==
  ASSUME NEW m \in Datalinks, m.queue = <<>>, m.buf = "none", NEW c \in Datalinks, Joined(m, c)
  PROVE  /\ SendI(c).out = <<>> /\ SendI(c).d \in Datalinks
         /\ SendI(c).d.state = "MF_EST" /\ SendI(c).d.vs = 0 /\ SendI(c).d.va = 0
         /\ SendI(c).d.buf = "none" /\ SendI(c).d.queue = <<>> /\ \A h \in 1..2 : SendI(c).d.hist[h] = None
         /\ SendI(c).d.vr = 0 /\ SendI(c).d.rcv = m.rcv
<1>1. c.state \in Established /\ Window(c)
  BY DEF Joined, Established, Window
<1>2. \/ SendsNothing(c, SendI(c).d, SendI(c).out)
      \/ \E k, i : Sends(c, SendI(c).d, SendI(c).out, k, i)
  BY <1>1, SendICases
<1>3. ~ \E k, i : Sends(c, SendI(c).d, SendI(c).out, k, i)
  BY DEF Sends, Loads, Joined
<1>4. SendI(c).d.vr = c.vr /\ SendI(c).d.rcv = c.rcv /\ SendI(c).d \in Datalinks
  BY SendIKeeps, SendIType
<1> QED
  BY <1>2, <1>3, <1>4 DEF SendsNothing, Joined

LEMMA MsUa ==
  ASSUME NEW m \in Datalinks, NEW n \in Datalinks, NEW s \in Seq(Frames), NEW a \in Seq(Frames), a # <<>>,
         Alone(m, n, s, a), Linked(m, n, s, a, FALSE, FALSE), Head(a).k = "UA",
         NEW x \in Datalinks, NEW out, NEW prims, RxUa(m, Head(a), x, out, prims)
  PROVE  Linked(x, n, s \o out, Tail(a), "MDL_ERROR" \in prims, FALSE)
<1>1. Head(a) \in Within(a) /\ Tail(a) \in Seq(Frames) /\ Within(Tail(a)) \subseteq Within(a)
  BY TailParts
<1>2. m.state = "SABM_SENT" /\ Lacks(a, {"DM"})
  BY <1>1 DEF Linked, Control, UaFirst, Lacks
<1>3. s = <<>>
  BY <1>1, <1>2 DEF Alone, Lacks
<1>4. /\ m.vr = 0 /\ m.rcv = <<>> /\ m.queue = <<>> /\ m.buf = "none" /\ n.vr = 0 /\ n.rcv = <<>>
      /\ \A f \in Within(a) : (Numbered(f) => f.nr = 0) /\ f \notin Finals
  BY <1>2 DEF Linked, Control, Waits
<1>5. <<>> \in Seq(Frames) /\ Within(<<>>) = {}
  BY NoFrame
<1>6. (\A K : Lacks(<<>>, K)) /\ RejFinal(<<>>) /\ \A g \in Within(<<>>) : Numbered(g) /\ ~Numbered(g)
  BY <1>5 DEF Lacks, RejFinal
<1>7. CASE Kept(m, x) /\ out = <<>> /\ prims = {}
  <2>1. Linked(x, n, s \o <<>>, Tail(a), FALSE, FALSE)
    BY <1>7, MsIgnores
  <2>2. ("MDL_ERROR" \in prims) = FALSE
    BY <1>7
  <2> QED
    BY <1>7, <2>1, <2>2
<1>8. CASE Closed(m, x) /\ out = <<>> /\ prims = {"REL_IND"}
  <2>1. ("MDL_ERROR" \in prims) = FALSE
    BY <1>8
  <2>2. NoPoll(s, Tail(a))
    BY <1>1, <1>3, <1>4, <1>5 DEF NoPoll
  <2>3. Side(x, n, s \o <<>>, Tail(a), FALSE) /\ Side(n, x, Tail(a), s \o <<>>, FALSE)
    BY <1>5, <1>6, <1>8, <2>2, ClosedSides DEF Linked
  <2>4. x.state = "IDLE"
    BY <1>8 DEF Closed
  <2>5. Control(x, n, s \o <<>>, Tail(a), FALSE, FALSE)
    BY <1>5, <1>6, <2>4, MsControl DEF Linked, Established
  <2> QED
    BY <1>8, <2>1, <2>3, <2>5 DEF Linked
<1>9. ASSUME NEW c \in Datalinks, Joined(m, c), x = SendI(c).d, out = SendI(c).out, prims = {"EST_CONF"}
      PROVE  Linked(x, n, s \o out, Tail(a), "MDL_ERROR" \in prims, FALSE)
  <2>1. /\ out = <<>> /\ x.state = "MF_EST" /\ x.vs = 0 /\ x.va = 0 /\ x.buf = "none"
        /\ \A h \in 1..2 : x.hist[h] = None
        /\ x.vr = 0 /\ x.rcv = <<>>
    BY <1>4, <1>9, NothingWaits
  <2>2. ("MDL_ERROR" \in prims) = FALSE
    BY <1>9
  <2>3. \A g \in Within(Tail(a)) : g \notin Endings /\ (Numbered(g) => g.nr = 0)
    BY <1>1, <1>2, <1>4 DEF Endings, Lacks
  <2>4. s \o <<>> = <<>> /\ \A f \in Within(<<>>) : f.k # "I" /\ f \notin Polls
    BY <1>3, <1>5
  <2>5. Direction(x, n, s \o <<>>, Tail(a))
    BY <1>1, <1>4, <1>5, <2>1, <2>3, <2>4, DirectionStarts
  <2>6. Side(x, n, s \o <<>>, Tail(a), FALSE)
    BY <1>4, <1>5, <1>6, <2>1, <2>5, OwnSide DEF Linked
  <2>7. Side(n, x, Tail(a), s \o <<>>, FALSE)
    <3>1. SameReceiver(m, x)
      BY <1>4, <2>1 DEF SameReceiver
    <3> QED
      BY <1>2, <1>5, <1>6, <3>1, PeerSide DEF Linked
  <2>8. Control(x, n, s \o <<>>, Tail(a), FALSE, FALSE)
    BY <1>2, <1>5, <1>6, <2>1, MsControl DEF Linked, Established
  <2> QED
    BY <2>1, <2>2, <2>6, <2>7, <2>8 DEF Linked
<1> QED
  BY <1>2, <1>7, <1>8, <1>9 DEF RxUa, Established

LEMMA MsDropped ==
  ASSUME NEW m \in Datalinks, NEW n \in Datalinks, NEW s \in Seq(Frames), NEW a \in Seq(Frames), a # <<>>,
         Alone(m, n, s, a), Linked(m, n, s, a, FALSE, FALSE), Numbered(Head(a)),
         NEW x \in Datalinks, NEW out, NEW prims, RxDropped(m, Head(a), x, out, prims)
  PROVE  Linked(x, n, s \o out, Tail(a), "MDL_ERROR" \in prims, FALSE)
<1> DEFINE f == Head(a)
           c == "MDL_ERROR" \in prims
<1>1. f \in Within(a) /\ f \in Frames
  BY TailParts
<1>2. m.state \in {"IDLE", "SABM_SENT"}
  BY DEF RxDropped, Linked, Control, MsAnswers, Datalinks, States, Established
<1>3. m.state = "SABM_SENT" => f \notin Finals
  BY <1>1 DEF Linked, Control, Waits
<1>4. Kept(m, x) /\ (f \notin Finals => prims = {})
  BY DEF RxDropped
<1>5. CASE ~(m.state = "IDLE" /\ f.f)
  <2>1. out = <<>>
    BY <1>5 DEF RxDropped
  <2>2. f \notin Finals
    BY <1>2, <1>3, <1>5 DEF Finals
  <2>3. Linked(x, n, s \o <<>>, Tail(a), FALSE, FALSE)
    BY <1>4, MsIgnores
  <2>4. ("MDL_ERROR" \in prims) = FALSE
    BY <1>4, <2>2
  <2> QED
    BY <2>1, <2>3, <2>4
<1>6. CASE m.state = "IDLE" /\ f.f
  <2>1. One(out, "DM")
    BY <1>6 DEF RxDropped
  <2>2. /\ out \in Seq(Frames) /\ \A g \in Within(out) : ~Numbered(g) /\ g.k = "DM"
        /\ Lacks(out, {"SABM", "DISC"}) /\ RejFinal(out) /\ Lacks(out, {"UA"})
    BY <2>1, UAnswer
  <2>3. c => NoPoll(s, Tail(a))
    <3>1. c => f \in Finals
      BY <1>4
    <3>2. OnePoll(s, a)
      BY DEF Linked, Side
    <3>3. f \in Finals => Within(s) \cap Polls = {} /\ Within(Tail(a)) \cap Finals = {}
      BY <1>1, <3>2, TailParts DEF OnePoll
    <3> QED
      BY <3>1, <3>3 DEF NoPoll
  <2>4. n.state \in Established => f \in Polls
    <3> SUFFICES ASSUME n.state \in Established PROVE f \in Polls
      OBVIOUS
    <3>1. NoPoll(s, a)
      BY <1>6 DEF Linked, Side, Established
    <3>2. f \notin Finals
      BY <1>1, <3>1 DEF NoPoll
    <3>3. f.k # "REJ"
      BY <1>1, <3>2 DEF Linked, Control, RejFinal
    <3>4. f.k = "RR" => f.cmd
      BY <1>1, <1>6, <3>2 DEF Finals
    <3> QED
      BY <1>1, <1>6, <3>3, <3>4 DEF Polls, Numbered
  <2> HIDE DEF c
  <2>5. Side(x, n, s \o out, Tail(a), c) /\ Side(n, x, Tail(a), s \o out, FALSE)
    BY <1>4, <2>1, <2>2, <2>3, <2>4, KeptSides DEF Linked, f
  <2>6. x.state = "IDLE"
    BY <1>4, <1>6 DEF Kept
  <2>7. Control(x, n, s \o out, Tail(a), c, FALSE)
    BY <1>6, <2>2, <2>6, MsControl DEF Linked, Established
  <2> QED
    BY <2>5, <2>7 DEF Linked, c
<1> QED
  BY <1>5, <1>6

LEMMA MsTaken ==
  ASSUME NEW m \in Datalinks, NEW n \in Datalinks, NEW s \in Seq(Frames), NEW a \in Seq(Frames), a # <<>>,
         Alone(m, n, s, a), Linked(m, n, s, a, FALSE, FALSE), Numbered(Head(a)),
         NEW x \in Datalinks, NEW out, NEW prims, RxTaken(m, Head(a), x, out, prims)
  PROVE  Linked(x, n, s \o out, Tail(a), "MDL_ERROR" \in prims, FALSE)
<1>1. Head(a) \in Within(a)
  BY TailParts
<1>2. Head(a).k = "REJ" => Head(a) \in Finals
  BY <1>1 DEF Linked, Control, RejFinal
<1>3. Side(m, n, s, a, FALSE) /\ Side(n, m, a, s, FALSE) /\ Control(m, n, s, a, FALSE, FALSE)
  BY DEF Linked
<1>4. /\ prims = {} /\ out \in Seq(Frames) /\ x.state \in Established
      /\ \A g \in Within(out) : Numbered(g) /\ (g.k = "REJ" => g \in Finals)
      /\ Side(x, n, s \o out, Tail(a), FALSE) /\ Side(n, x, Tail(a), s \o out, FALSE)
  BY <1>2, <1>3, TakenSides
<1>5. /\ Lacks(out, {"SABM", "DISC"}) /\ Lacks(out, {"UA"}) /\ RejFinal(out)
      /\ \A g \in Within(out) : Numbered(g)
  BY <1>4 DEF Lacks, RejFinal, Numbered
<1>6. m.state \in Established
  BY DEF RxTaken
<1>7. Control(x, n, s \o out, Tail(a), FALSE, FALSE)
  BY <1>3, <1>4, <1>5, <1>6, MsControl DEF Established
<1>8. ("MDL_ERROR" \in prims) = FALSE
  BY <1>4
<1> QED
  BY <1>4, <1>7, <1>8 DEF Linked

LEMMA MsOutcome ==
  ASSUME NEW m \in Datalinks, NEW n \in Datalinks, NEW s \in Seq(Frames), NEW a \in Seq(Frames), a # <<>>,
         Alone(m, n, s, a), Linked(m, n, s, a, FALSE, FALSE),
         NEW x \in Datalinks, NEW out, NEW prims, Rx(m, Head(a), x, out, prims)
  PROVE  Linked(x, n, s \o out, Tail(a), "MDL_ERROR" \in prims, FALSE)
<1>1. Head(a).k # "SABM"
  BY TailParts DEF Alone, Lacks
<1> QED
  BY <1>1, MsDm, MsDisc, MsUa, MsDropped, MsTaken DEF Rx

(* The base station receives a frame. *)

LEMMA BtsControl ==
  ASSUME NEW m, NEW n, NEW s \in Seq(Frames), NEW a \in Seq(Frames), s # <<>>,
         Control(m, n, s, a, FALSE, FALSE), m.state # "SABM_SENT",
         NEW y, NEW out \in Seq(Frames), NEW c, Lacks(out, {"UA"}), RejFinal(out),
         y.state \in Established => n.state \in Established /\ Lacks(out, {"DISC", "DM"})
  PROVE  Control(m, y, Tail(s), a \o out, FALSE, c)
<1>1. /\ a \o out \in Seq(Frames) /\ Within(a \o out) = Within(a) \cup Within(out)
      /\ \A K : Lacks(a \o out, K) <=> Lacks(a, K) /\ Lacks(out, K)
  BY JoinParts, LacksParts
<1>2. /\ Tail(s) \in Seq(Frames) /\ Within(Tail(s)) \subseteq Within(s) /\ Head(s) \in Within(s)
      /\ \A K : Lacks(s, K) => Lacks(Tail(s), K)
  BY TailParts, LacksParts
<1>3. /\ MsAnswers(m, s) /\ SabmLate(m, n, s, FALSE)
      /\ UaFirst(m, a) /\ BtsOpen(n, s, a) /\ MsOpen(m, s) /\ RejFinal(s) /\ RejFinal(a)
  BY DEF Control
<1>4. MsAnswers(m, Tail(s)) /\ SabmLate(m, y, Tail(s), c) /\ MsOpen(m, Tail(s))
  BY <1>2, <1>3 DEF MsAnswers, SabmLate, MsOpen
<1>5. Waits(m, y, Tail(s), a \o out, FALSE, c)
  BY DEF Waits
<1>6. UaFirst(m, a \o out)
  <2>1. Lacks(a \o out, {"UA"})
    BY <1>1, <1>3 DEF UaFirst
  <2>2. \A i \in 1..Len(a \o out) : (a \o out)[i] \in Within(a \o out)
    BY DEF Within
  <2> QED
    BY <2>1, <2>2 DEF UaFirst, Lacks
<1>7. BtsOpen(y, Tail(s), a \o out)
  BY <1>1, <1>2, <1>3 DEF BtsOpen
<1>8. RejFinal(Tail(s)) /\ RejFinal(a \o out)
  BY <1>1, <1>2, <1>3 DEF RejFinal
<1> QED
  BY <1>4, <1>5, <1>6, <1>7, <1>8 DEF Control

LEMMA BtsIgnores ==
  ASSUME NEW m \in Datalinks, NEW n \in Datalinks, NEW s \in Seq(Frames), NEW a \in Seq(Frames), s # <<>>,
         Linked(m, n, s, a, FALSE, FALSE), m.state # "SABM_SENT",
         NEW y, Kept(n, y)
  PROVE  Linked(m, y, Tail(s), a \o <<>>, FALSE, FALSE)
<1>1. y.state = n.state
  BY DEF Kept
<1>2. <<>> \in Seq(Frames) /\ Within(<<>>) = {}
  BY NoFrame
<1>3. /\ \A K : Lacks(<<>>, K)
      /\ RejFinal(<<>>) /\ \A g \in Within(<<>>) : Numbered(g) /\ ~Numbered(g)
  BY <1>2 DEF Lacks, RejFinal
<1>4. Side(y, m, a \o <<>>, Tail(s), FALSE) /\ Side(m, y, Tail(s), a \o <<>>, FALSE)
  BY <1>2, <1>3, KeptSides DEF Linked
<1>5. Control(m, y, Tail(s), a \o <<>>, FALSE, FALSE)
  BY <1>1, <1>2, <1>3, BtsControl DEF Linked
<1> QED
  BY <1>4, <1>5 DEF Linked

LEMMA BtsCloses ==
  ASSUME NEW m \in Datalinks, NEW n \in Datalinks, NEW s \in Seq(Frames), NEW a \in Seq(Frames), s # <<>>,
         Linked(m, n, s, a, FALSE, FALSE), m.state = "IDLE",
         NEW y, Closed(n, y)
  PROVE  Linked(m, y, Tail(s), a \o <<>>, FALSE, FALSE)
<1>1. y.state = "IDLE"
  BY DEF Closed
<1>2. <<>> \in Seq(Frames) /\ Within(<<>>) = {}
  BY NoFrame
<1>3. /\ \A K : Lacks(<<>>, K)
      /\ RejFinal(<<>>) /\ \A g \in Within(<<>>) : Numbered(g) /\ ~Numbered(g)
  BY <1>2 DEF Lacks, RejFinal
<1>4. Side(y, m, a \o <<>>, Tail(s), FALSE) /\ Side(m, y, Tail(s), a \o <<>>, FALSE)
  BY <1>2, <1>3, ClosedSides DEF Linked
<1>5. Control(m, y, Tail(s), a \o <<>>, FALSE, FALSE)
  BY <1>1, <1>2, <1>3, BtsControl DEF Linked, Established
<1> QED
  BY <1>4, <1>5 DEF Linked

(* A frame other than SABM, or a late one: the mobile waits for nothing. *)
LEMMA MsWaits ==
  ASSUME NEW m \in Datalinks, NEW n \in Datalinks, NEW s \in Seq(Frames), NEW a, s # <<>>,
         Alone(m, n, s, a), Control(m, n, s, a, FALSE, FALSE), Head(s).k # "SABM"
  PROVE  /\ m.state # "SABM_SENT" /\ m.state \in {"IDLE", "MF_EST", "TIMER_RECOV"}
         /\ ~Numbered(Head(s)) => m.state = "IDLE"
<1>1. m.state # "SABM_SENT"
  BY OneParts DEF Alone
<1>2. m.state \in {"IDLE", "MF_EST", "TIMER_RECOV"}
  BY <1>1 DEF Control, MsAnswers, Datalinks, States
<1>3. Head(s) \in Within(s)
  BY TailParts
<1> QED
  BY <1>1, <1>2, <1>3 DEF Control, MsOpen, Established

LEMMA BtsDm ==
  ASSUME NEW m \in Datalinks, NEW n \in Datalinks, NEW s \in Seq(Frames), NEW a \in Seq(Frames), s # <<>>,
         Alone(m, n, s, a), Linked(m, n, s, a, FALSE, FALSE), Head(s).k = "DM",
         NEW y \in Datalinks, NEW out, NEW prims, RxDm(n, Head(s), y, out, prims)
  PROVE  Linked(m, y, Tail(s), a \o out, FALSE, "MDL_ERROR" \in prims)
<1>1. Head(s) \in Within(s) /\ Head(s) \in Endings
  BY TailParts DEF Endings
<1>2. m.state = "IDLE"
  BY MsWaits DEF Linked, Numbered
<1>3. n.state # "MF_EST"
  <2>1. n.state = "MF_EST" => Direction(n, m, a, s)
    BY DEF Linked, Side, Established
  <2> QED
    BY <1>1, <2>1 DEF Direction, Recovery
<1>4. out = <<>> /\ ("MDL_ERROR" \in prims) = FALSE
  BY <1>3 DEF RxDm
<1>5. Kept(n, y) \/ Closed(n, y)
  BY DEF RxDm
<1>6. Linked(m, y, Tail(s), a \o <<>>, FALSE, FALSE)
  BY <1>2, <1>5, BtsIgnores, BtsCloses
<1> QED
  BY <1>4, <1>6

LEMMA BtsUa ==
  ASSUME NEW m \in Datalinks, NEW n \in Datalinks, NEW s \in Seq(Frames), NEW a \in Seq(Frames), s # <<>>,
         Alone(m, n, s, a), Linked(m, n, s, a, FALSE, FALSE), Head(s).k = "UA",
         NEW y \in Datalinks, NEW out, NEW prims, RxUa(n, Head(s), y, out, prims)
  PROVE  Linked(m, y, Tail(s), a \o out, FALSE, "MDL_ERROR" \in prims)
<1>1. Head(s) \in Within(s)
  BY TailParts
<1>2. m.state = "IDLE"
  BY MsWaits DEF Linked, Numbered
<1>3. n.state \notin Established /\ n.state # "SABM_SENT"
  BY <1>1 DEF Linked, Control, BtsOpen, Lacks, Alone
<1>4. out = <<>> /\ ("MDL_ERROR" \in prims) = FALSE /\ (Kept(n, y) \/ Closed(n, y))
  BY <1>3 DEF RxUa
<1>5. Linked(m, y, Tail(s), a \o <<>>, FALSE, FALSE)
  BY <1>2, <1>4, BtsIgnores, BtsCloses
<1> QED
  BY <1>4, <1>5

LEMMA BtsDropped ==
  ASSUME NEW m \in Datalinks, NEW n \in Datalinks, NEW s \in Seq(Frames), NEW a \in Seq(Frames), s # <<>>,
         Alone(m, n, s, a), Linked(m, n, s, a, FALSE, FALSE), Numbered(Head(s)),
         NEW y \in Datalinks, NEW out, NEW prims, RxDropped(n, Head(s), y, out, prims)
  PROVE  Linked(m, y, Tail(s), a \o out, FALSE, "MDL_ERROR" \in prims)
<1> DEFINE f == Head(s)
           c == "MDL_ERROR" \in prims
<1>1. f \in Within(s) /\ f \in Frames
  BY TailParts
<1>2. m.state # "SABM_SENT" /\ m.state \in {"IDLE", "MF_EST", "TIMER_RECOV"}
  BY MsWaits DEF Linked, Numbered
<1>3. Kept(n, y) /\ (f \notin Finals => prims = {}) /\ n.state \notin Established
  BY DEF RxDropped
<1>4. c => NoPoll(a, Tail(s))
  <2>1. c => f \in Finals
    BY <1>3
  <2>2. OnePoll(a, s)
    BY DEF Linked, Side
  <2>3. f \in Finals => Within(a) \cap Polls = {} /\ Within(Tail(s)) \cap Finals = {}
    BY <1>1, <2>2, TailParts DEF OnePoll
  <2> QED
    BY <2>1, <2>3 DEF NoPoll
<1>5. n.state = "IDLE" /\ m.state \in Established /\ f.f => f \in Polls
  <2> SUFFICES ASSUME n.state = "IDLE", m.state \in Established, f.f PROVE f \in Polls
    OBVIOUS
  <2>1. NoPoll(a, s)
    BY DEF Linked, Side, Established
  <2>2. f \notin Finals
    BY <1>1, <2>1 DEF NoPoll
  <2>3. f.k # "REJ"
    BY <1>1, <2>2 DEF Linked, Control, RejFinal
  <2>4. f.k = "RR" => f.cmd
    BY <1>1, <2>2 DEF Finals
  <2> QED
    BY <1>1, <2>3, <2>4 DEF Polls, Numbered
<1> HIDE DEF c
<1>6. ASSUME out \in Seq(Frames), \A g \in Within(out) : ~Numbered(g), Lacks(out, {"UA"}), RejFinal(out),
             Lacks(out, {"DM"}) \/ (f \in Polls /\ One(out, "DM")) \/ m.state \notin Established
      PROVE  Linked(m, y, Tail(s), a \o out, FALSE, c)
  <2>1. Side(y, m, a \o out, Tail(s), c) /\ Side(m, y, Tail(s), a \o out, FALSE)
    BY <1>3, <1>4, <1>6, KeptSides DEF Linked
  <2>2. y.state \notin Established
    BY <1>3 DEF Kept
  <2>3. Control(m, y, Tail(s), a \o out, FALSE, c)
    BY <1>2, <1>6, <2>2, BtsControl DEF Linked
  <2> QED
    BY <2>1, <2>3 DEF Linked
<1>7. CASE n.state = "IDLE" /\ f.f /\ One(out, "DM")
  <2>1. /\ out \in Seq(Frames) /\ \A g \in Within(out) : ~Numbered(g)
        /\ RejFinal(out) /\ Lacks(out, {"UA"})
    BY <1>7, UAnswer
  <2> QED
    BY <1>5, <1>6, <1>7, <2>1 DEF c
<1>8. CASE out = <<>>
  <2>1. <<>> \in Seq(Frames) /\ \A g \in Within(<<>>) : ~Numbered(g)
    BY NoFrame
  <2>2. (\A K : Lacks(<<>>, K)) /\ RejFinal(<<>>)
    BY NoFrame DEF Lacks, RejFinal
  <2> QED
    BY <1>6, <1>8, <2>1, <2>2 DEF c
<1> QED
  BY <1>7, <1>8 DEF RxDropped

LEMMA BtsTaken ==
  ASSUME NEW m \in Datalinks, NEW n \in Datalinks, NEW s \in Seq(Frames), NEW a \in Seq(Frames), s # <<>>,
         Alone(m, n, s, a), Linked(m, n, s, a, FALSE, FALSE), Numbered(Head(s)),
         NEW y \in Datalinks, NEW out, NEW prims, RxTaken(n, Head(s), y, out, prims)
  PROVE  Linked(m, y, Tail(s), a \o out, FALSE, "MDL_ERROR" \in prims)
<1>1. Head(s) \in Within(s)
  BY TailParts
<1>2. Head(s).k = "REJ" => Head(s) \in Finals
  BY <1>1 DEF Linked, Control, RejFinal
<1>3. Side(m, n, s, a, FALSE) /\ Side(n, m, a, s, FALSE) /\ Control(m, n, s, a, FALSE, FALSE)
  BY DEF Linked
<1>4. /\ prims = {} /\ out \in Seq(Frames) /\ y.state \in Established
      /\ \A g \in Within(out) : Numbered(g) /\ (g.k = "REJ" => g \in Finals)
      /\ Side(y, m, a \o out, Tail(s), FALSE) /\ Side(m, y, Tail(s), a \o out, FALSE)
  BY <1>2, <1>3, TakenSides
<1>5. Lacks(out, {"UA"}) /\ Lacks(out, {"DISC", "DM"}) /\ RejFinal(out)
  BY <1>4 DEF Lacks, RejFinal, Numbered
<1>6. n.state \in Established
  BY DEF RxTaken
<1>7. m.state # "SABM_SENT"
  BY <1>3, MsWaits DEF Numbered
<1>8. Control(m, y, Tail(s), a \o out, FALSE, FALSE)
  BY <1>3, <1>4, <1>5, <1>6, <1>7, BtsControl
<1>9. ("MDL_ERROR" \in prims) = FALSE
  BY <1>4
<1> QED
  BY <1>4, <1>8, <1>9 DEF Linked

(* A SABM that comes too late: the base station is releasing the link. *)
LEMMA BtsLateSabm ==
  ASSUME NEW m \in Datalinks, NEW n \in Datalinks, NEW s \in Seq(Frames), NEW a \in Seq(Frames), s # <<>>,
         Linked(m, n, s, a, FALSE, FALSE), Head(s).k = "SABM", m.state # "SABM_SENT",
         NEW y \in Datalinks, NEW out, NEW prims, RxSabm(n, Head(s), y, out, prims)
  PROVE  Linked(m, y, Tail(s), a \o out, FALSE, "MDL_ERROR" \in prims)
<1>1. Head(s) \in Within(s)
  BY TailParts
<1>2. m.state = "IDLE" /\ n.state = "DISC_SENT"
  BY <1>1 DEF Linked, Control, SabmLate, Lacks
<1>3. Kept(n, y) /\ One(out, "DM") /\ ("MDL_ERROR" \in prims) = FALSE
  BY <1>2 DEF RxSabm
<1>4. /\ out \in Seq(Frames) /\ \A g \in Within(out) : ~Numbered(g)
      /\ RejFinal(out) /\ Lacks(out, {"UA"})
  BY <1>3, UAnswer
<1>5. m.state \notin Established /\ y.state \notin Established
  BY <1>2, <1>3 DEF Established, Kept
<1>6. Side(y, m, a \o out, Tail(s), FALSE) /\ Side(m, y, Tail(s), a \o out, FALSE)
  BY <1>3, <1>4, <1>5, KeptSides DEF Linked
<1>7. Control(m, y, Tail(s), a \o out, FALSE, FALSE)
  BY <1>2, <1>4, <1>5, BtsControl DEF Linked
<1> QED
  BY <1>3, <1>6, <1>7 DEF Linked

(* The SABM that the mobile waits for: the base station becomes y and answers
   with out. *)
LEMMA OpeningControl ==
  ASSUME NEW m, NEW n, NEW s \in Seq(Frames), NEW a \in Seq(Frames), s # <<>>,
         Alone(m, n, s, a), Control(m, n, s, a, FALSE, FALSE), m.state = "SABM_SENT",
         NEW y, NEW out, NEW c, y.vr = 0, y.rcv = <<>>, y.state # "IDLE",
         y.state = "DISC_SENT" <=> n.state = "DISC_SENT",
         y.state = "DISC_SENT" => One(out, "DM") /\ ~c,
         y.state # "DISC_SENT" => out = <<>> \/ One(out, "UA")
  PROVE  Control(m, y, Tail(s), a \o out, FALSE, c)
<1>1. Tail(s) = <<>> /\ Lacks(a, {"UA"})
  BY OneParts DEF Alone
<1>2. out \in Seq(Frames) /\ Len(out) <= 1 /\ \A g \in Within(out) : g.k \in {"UA", "DM"}
  <2>1. CASE out = <<>>
    BY <2>1, NoFrame
  <2>2. CASE One(out, "UA") \/ One(out, "DM")
    <3>1. out \in Seq(Frames) /\ \A g \in Within(out) : g.k \in {"UA", "DM"}
      BY <2>2, OneParts
    <3>2. PICK g : out = <<g>>
      BY <2>2 DEF One
    <3>3. Len(<<g>>) = 1
      OBVIOUS
    <3> QED
      BY <3>1, <3>2, <3>3
  <2> QED
    BY <2>1, <2>2
<1>3. y.state # "DISC_SENT" => \A g \in Within(out) : g.k = "UA"
  BY OneParts, NoFrame
<1>4. y.state = "DISC_SENT" => \A g \in Within(out) : g.k = "DM"
  BY OneParts
<1>5. /\ a \o out \in Seq(Frames) /\ Within(a \o out) = Within(a) \cup Within(out)
      /\ \A K : Lacks(a \o out, K) <=> Lacks(a, K) /\ Lacks(out, K)
  BY <1>2, JoinParts, LacksParts
<1>6. /\ m.vr = 0 /\ m.rcv = <<>> /\ m.queue = <<>> /\ m.buf = "none"
      /\ \A f \in Within(a) : /\ Numbered(f) => f.nr = 0
                              /\ f \notin Finals /\ f.k # "REJ"
                              /\ f.k = "DISC" => n.state = "DISC_SENT"
                              /\ f.k = "DISC" \/ (f.k = "I" /\ ~f.f)
  BY DEF Control, Waits
<1>7. MsAnswers(m, <<>>) /\ SabmLate(m, y, <<>>, c) /\ MsOpen(m, <<>>) /\ RejFinal(<<>>)
  BY NoFrame DEF Control, MsAnswers, SabmLate, MsOpen, RejFinal, Lacks
<1>8. Waits(m, y, <<>>, a \o out, FALSE, c)
  <2>1. ASSUME NEW f \in Within(a \o out)
        PROVE  /\ Numbered(f) => f.nr = 0
               /\ f \notin Finals /\ f.k # "REJ"
               /\ f.k = "DISC" => y.state = "DISC_SENT"
    <3>1. CASE f \in Within(a)
      BY <1>6, <3>1
    <3>2. CASE f \in Within(out)
      BY <1>2, <3>2 DEF Numbered, Finals
    <3> QED
      BY <1>5, <2>1, <3>1, <3>2
  <2> QED
    BY <1>6, <2>1 DEF Waits
<1>9. UaFirst(m, a \o out)
  <2>1. ASSUME NEW i \in 1..Len(a \o out), NEW j \in 1..Len(a \o out), i < j, (a \o out)[j].k = "UA"
        PROVE  (a \o out)[i].k = "I"
    <3>1. /\ Len(a) \in Nat /\ Len(out) \in Nat /\ Len(a \o out) = Len(a) + Len(out)
          /\ \A k \in 1..Len(a \o out) : (a \o out)[k] = IF k <= Len(a) THEN a[k] ELSE out[k - Len(a)]
      BY <1>2
    <3>2. \A k \in 1..Len(a) : a[k] \in Within(a)
      BY DEF Within
    <3>3. ~(j <= Len(a))
      BY <1>1, <2>1, <3>1, <3>2 DEF Lacks
    <3>4. i <= Len(a) /\ j - Len(a) = 1 /\ 1 \in 1..Len(out)
      <4>1. PICK p \in Nat : p = Len(a)
        BY <3>1
      <4>2. PICK q \in Nat : q = Len(out) /\ q <= 1
        BY <1>2, <3>1
      <4>3. i \in 1..p + q /\ j \in 1..p + q /\ ~(j <= p)
        BY <2>1, <3>1, <3>3, <4>1, <4>2
      <4>4. i <= p /\ j - p = 1 /\ q = 1
        BY <2>1, <4>2, <4>3
      <4> QED
        BY <4>1, <4>2, <4>4
    <3>5. out[1].k = "UA" /\ out[1] \in Within(out)
      BY <2>1, <3>1, <3>3, <3>4 DEF Within
    <3>6. y.state # "DISC_SENT"
      BY <1>4, <3>5
    <3>7. a[i] \in Within(a) /\ a[i].k # "DISC"
      BY <1>6, <2>1, <3>1, <3>2, <3>4, <3>6
    <3> QED
      BY <1>6, <2>1, <3>1, <3>4, <3>7
  <2>2. ~Lacks(a \o out, {"UA"}) => Lacks(a \o out, {"DM"})
    <3>1. Lacks(a, {"DM"})
      BY <1>6 DEF Lacks
    <3>2. ~Lacks(out, {"UA"}) => Lacks(out, {"DM"})
      BY <1>3, <1>4 DEF Lacks
    <3> QED
      BY <1>1, <1>5, <3>1, <3>2
  <2> QED
    BY <2>1, <2>2 DEF UaFirst
<1>10. BtsOpen(y, <<>>, a \o out)
  BY <1>3, <1>5, <1>6, NoFrame DEF BtsOpen, Lacks, Established
<1>11. RejFinal(a \o out)
  BY <1>2, <1>5, <1>6 DEF RejFinal
<1> QED
  BY <1>1, <1>7, <1>8, <1>9, <1>10, <1>11 DEF Control

LEMMA BtsSabm ==
  ASSUME NEW m \in Datalinks, NEW n \in Datalinks, NEW s \in Seq(Frames), NEW a \in Seq(Frames), s # <<>>,
         Alone(m, n, s, a), Linked(m, n, s, a, FALSE, FALSE), Head(s).k = "SABM", m.state = "SABM_SENT",
         NEW y \in Datalinks, NEW out, NEW prims, RxSabm(n, Head(s), y, out, prims)
  PROVE  Linked(m, y, Tail(s), a \o out, FALSE, "MDL_ERROR" \in prims)
<1> DEFINE c == "MDL_ERROR" \in prims
<1>1. Tail(s) = <<>> /\ <<>> \in Seq(Frames) /\ Within(<<>>) = {}
  BY OneParts, NoFrame DEF Alone
<1>2. /\ m.vr = 0 /\ m.rcv = <<>> /\ n.vr = 0 /\ n.rcv = <<>>
      /\ n.state = "IDLE" => Flushed(n) /\ Within(a) = {}
      /\ \A f \in Within(a) : f.k = "DISC" \/ (f.k = "I" /\ ~f.f)
  BY DEF Linked, Control, Waits
<1>3. NoPoll(a, Tail(s))
  BY <1>1, <1>2 DEF NoPoll, Polls
<1>4. n.state # "SABM_SENT" /\ m.state \notin Established
  BY DEF Alone, Established
<1>5. CASE Joined(n, y) /\ One(out, "UA") /\ n.state \in {"IDLE", "MF_EST"} /\ (n.state = "IDLE" => ~c)
           /\ (n.state = "MF_EST" => c)
  <2>1. /\ out \in Seq(Frames) /\ \A g \in Within(out) : ~Numbered(g) /\ g.k = "UA"
        /\ Lacks(out, {"DM"})
    BY <1>5, UAnswer
  <2>2. /\ y.state = "MF_EST" /\ y.vr = 0 /\ y.va = 0 /\ y.vs = 0 /\ y.rcv = <<>> /\ SameReceiver(n, y)
        /\ \A h \in 1..2 : y.hist[h] = None
        /\ y.buf = n.buf
    BY <1>2, <1>5 DEF Joined, SameReceiver
  <2> HIDE DEF c
  <2>3. Control(m, y, Tail(s), a \o out, FALSE, c)
    BY <1>5, <2>2, OpeningControl DEF Linked
  <2>4. Side(m, y, Tail(s), a \o out, FALSE)
    BY <1>4, <2>1, <2>2, PeerSide DEF Linked
  <2>5. ~c => Direction(y, m, a \o out, Tail(s))
    <3> SUFFICES ASSUME ~c PROVE Direction(y, m, a \o out, Tail(s))
      OBVIOUS
    <3>1. n.state = "IDLE" /\ Within(a) = {} /\ y.buf = "none"
      BY <1>2, <1>5, <2>2 DEF Flushed
    <3>2. a \o out \in Seq(Frames) /\ Within(a \o out) = Within(a) \cup Within(out)
      BY <2>1, JoinParts
    <3>3. \A f \in Within(a \o out) : f.k # "I" /\ f \notin Polls
      BY <2>1, <3>1, <3>2 DEF Polls
    <3> QED
      BY <1>1, <1>2, <2>2, <3>1, <3>2, <3>3, DirectionStarts
  <2>6. Side(y, m, a \o out, Tail(s), c)
    BY <1>2, <1>3, <2>1, <2>2, <2>5, OwnSide DEF Linked
  <2> QED
    BY <2>3, <2>4, <2>6 DEF Linked, c
<1>6. CASE /\ Kept(n, y) /\ n.state \in {"MF_EST", "TIMER_RECOV", "DISC_SENT"}
           /\ n.state = "DISC_SENT" => One(out, "DM") /\ ~c
           /\ n.state # "DISC_SENT" => out = <<>> \/ One(out, "UA")
  <2>1. out \in Seq(Frames) /\ \A g \in Within(out) : ~Numbered(g)
    BY <1>1, <1>6, UAnswer
  <2>2. y.state = n.state /\ y.vr = 0 /\ y.rcv = <<>>
    BY <1>2, <1>6 DEF Kept, SameData, SameReceiver
  <2> HIDE DEF c
  <2>3. Side(y, m, a \o out, Tail(s), c) /\ Side(m, y, Tail(s), a \o out, FALSE)
    BY <1>3, <1>4, <1>6, <2>1, KeptSides DEF Linked
  <2>4. Control(m, y, Tail(s), a \o out, FALSE, c)
    BY <1>6, <2>2, OpeningControl DEF Linked
  <2> QED
    BY <2>3, <2>4 DEF Linked, c
<1> QED
  BY <1>4, <1>5, <1>6 DEF RxSabm

LEMMA BtsOutcome ==
  ASSUME NEW m \in Datalinks, NEW n \in Datalinks, NEW s \in Seq(Frames), NEW a \in Seq(Frames), s # <<>>,
         Alone(m, n, s, a), Linked(m, n, s, a, FALSE, FALSE),
         NEW y \in Datalinks, NEW out, NEW prims, Rx(n, Head(s), y, out, prims)
  PROVE  Linked(m, y, Tail(s), a \o out, FALSE, "MDL_ERROR" \in prims)
<1>1. Head(s).k # "DISC"
  BY TailParts DEF Linked, Control, MsAnswers, Lacks
<1> QED
  BY <1>1, BtsSabm, BtsLateSabm, BtsDm, BtsUa, BtsDropped, BtsTaken DEF Rx

-----------------------------------------------------------------------------
(* An entity sends frames of its own accord. *)

(* d becomes x, which is not established. *)
LEMMA SentSides ==
  ASSUME NEW d, NEW q, NEW s \in Seq(Frames), NEW a \in Seq(Frames), NEW b, NEW e,
         Side(d, q, s, a, b), Side(q, d, a, s, e),
         NEW x, SameReceiver(d, x), x.state \notin Established, NEW c,
         NEW out \in Seq(Frames), \A g \in Within(out) : ~Numbered(g), Lacks(out, {"DM"}),
         c \/ (x.state = "IDLE" /\ q.state \notin {"IDLE", "DISC_SENT"}) => NoPoll(s, a),
         q.state = "IDLE" /\ x.state \notin {"IDLE", "DISC_SENT"} => NoPoll(a, s)
  PROVE  /\ Side(x, q, s \o out, a, c)
         /\ Side(q, x, a, s \o out, e)
<1>1. /\ OnePoll(s \o out, a) /\ (NoPoll(s, a) => NoPoll(s \o out, a))
      /\ OnePoll(a, s \o out) /\ (NoPoll(a, s) => NoPoll(a, s \o out))
  BY PollsKeep DEF Side
<1>2. AtMostOne(s \o out, IFrames) /\ \A f \in Within(s \o out) : f.k = "I" /\ ~f.f => f.ns = q.vr
  BY IFramesKeep DEF Side
<1>3. Side(x, q, s \o out, a, c)
  BY <1>1, <1>2 DEF Side
<1>4. ASSUME q.state \in Established, ~e PROVE Direction(q, x, a, s \o out)
  <2>1. Direction(q, d, a, s)
    BY <1>4 DEF Side
  <2>2. \A g \in Within(out) : g \notin Endings /\ ~Numbered(g)
    BY DEF Endings, Finals, Lacks, Numbered
  <2>3. Direction(q, d, a, s \o out)
    BY <2>1, <2>2, AnswerAdded
  <2>4. SameSender(q, q)
    BY DEF SameSender
  <2> QED
    BY <2>3, <2>4, DirectionFields
<1>5. Side(q, x, a, s \o out, e)
  BY <1>1, <1>4 DEF Side, SameReceiver
<1> QED
  BY <1>3, <1>5

(* Established d becomes established x. *)
LEMMA DataSides ==
  ASSUME NEW d, NEW q, NEW s \in Seq(Frames), NEW a \in Seq(Frames),
         d.state \in Established,
         Side(d, q, s, a, FALSE), Side(q, d, a, s, FALSE),
         NEW x, SameReceiver(d, x), x.state \in Established,
         NEW out \in Seq(Frames), \A g \in Within(out) : g \notin Finals /\ Numbered(g) /\ g.nr = x.vr,
         Direction(x, q, s \o out, a), AtMostOne(s \o out, IFrames), OnePoll(s \o out, a)
  PROVE  /\ Side(x, q, s \o out, a, FALSE)
         /\ Side(q, x, a, s \o out, FALSE)
<1>1. /\ Within(s \o out) = Within(s) \cup Within(out) /\ Within(out) \cap Finals = {}
      /\ OnePoll(a, s)
  BY JoinParts DEF Side
<1>2. AtMostOne(s \o out, Finals)
  BY <1>1, JoinParts DEF OnePoll
<1>3. OnePoll(a, s \o out)
  BY <1>1, <1>2 DEF OnePoll
<1>4. Side(x, q, s \o out, a, FALSE)
  <2>1. q.vr \in {x.va, x.vs}
    BY DEF Direction, Acks
  <2>2. \A f \in Within(s \o out) : f.k = "I" /\ ~f.f => f.ns = q.vr
    BY DEF Direction, Data, Carried
  <2> QED
    BY <2>1, <2>2 DEF Side, Established
<1>5. q.state = "IDLE" => NoPoll(a, s \o out)
  <2>1. d.state \notin {"IDLE", "DISC_SENT"}
    BY DEF Established
  <2>2. q.state = "IDLE" => NoPoll(a, s)
    BY <2>1 DEF Side
  <2> QED
    BY <1>1, <2>2 DEF NoPoll
<1>6. q.state \in Established => Direction(q, x, a, s \o out)
  <2> SUFFICES ASSUME q.state \in Established PROVE Direction(q, x, a, s \o out)
    OBVIOUS
  <2>1. Direction(q, d, a, s) /\ SameSender(q, q)
    BY DEF Side, SameSender
  <2>2. Direction(q, x, a, s)
    BY <2>1, DirectionFields
  <2>3. \A g \in Within(out) : g \notin Endings /\ (Numbered(g) => g.nr = x.vr)
    BY DEF Endings, Numbered
  <2> QED
    BY <2>2, <2>3, AnswerAdded
<1>7. Side(q, x, a, s \o out, FALSE)
  BY <1>3, <1>5, <1>6 DEF Side, SameReceiver
<1> QED
  BY <1>4, <1>7

(* Control, when the mobile sends, and when it sends its SABM. *)
LEMMA MsSends ==
  ASSUME NEW m, NEW n, NEW s \in Seq(Frames), NEW a \in Seq(Frames), NEW bm, NEW bn,
         Control(m, n, s, a, bm, bn),
         NEW x, NEW out \in Seq(Frames), NEW c, Lacks(out, {"UA"}), Lacks(out, {"DISC"}), Lacks(out, {"SABM"}),
         RejFinal(out), m.state # "SABM_SENT" \/ (s = <<>> /\ a = <<>>),
         x.state = "IDLE" \/ (x.state \in Established /\ m.state \in Established /\ \A g \in Within(out) : Numbered(g))
  PROVE  Control(x, n, s \o out, a, c, bn)
<1>1. /\ s \o out \in Seq(Frames) /\ Within(s \o out) = Within(s) \cup Within(out)
      /\ \A K : Lacks(s \o out, K) <=> Lacks(s, K) /\ Lacks(out, K)
      /\ \A K : Lacks(<<>>, K)
  BY JoinParts, LacksParts
<1>2. /\ MsAnswers(m, s) /\ SabmLate(m, n, s, bn)
      /\ UaFirst(m, a) /\ BtsOpen(n, s, a) /\ MsOpen(m, s) /\ RejFinal(s) /\ RejFinal(a)
  BY DEF Control
<1>3. x.state \notin {"SABM_SENT", "DISC_SENT"}
  BY DEF Established
<1>4. MsAnswers(x, s \o out) /\ Waits(x, n, s \o out, a, c, bn)
  BY <1>1, <1>2, <1>3 DEF MsAnswers, Waits
<1>5. SabmLate(x, n, s \o out, bn)
  <2> SUFFICES ASSUME ~Lacks(s, {"SABM"})
               PROVE  x.state = "IDLE" /\ n.state = "DISC_SENT" /\ ~bn /\ Lacks(Tail(s \o out), {"SABM"})
    BY <1>1 DEF SabmLate
  <2>1. s # <<>> /\ m.state # "SABM_SENT"
    BY <1>1
  <2>2. m.state = "IDLE" /\ n.state = "DISC_SENT" /\ ~bn /\ Lacks(Tail(s), {"SABM"})
    BY <1>2, <2>1 DEF SabmLate
  <2>3. Lacks(Tail(s \o out), {"SABM"})
    BY <2>1, <2>2, TailLacks
  <2> QED
    BY <2>2, <2>3 DEF Established
<1>6. UaFirst(x, a)
  BY <1>1, <1>2 DEF UaFirst
<1>7. BtsOpen(n, s \o out, a)
  BY <1>1, <1>2 DEF BtsOpen
<1>8. MsOpen(x, s \o out)
  BY <1>1, <1>2 DEF MsOpen, Established
<1>9. RejFinal(s \o out)
  BY <1>1, <1>2 DEF RejFinal
<1> QED
  BY <1>2, <1>4, <1>5, <1>6, <1>7, <1>8, <1>9 DEF Control

LEMMA MsOpens ==
  ASSUME NEW n, NEW x, x.state = "SABM_SENT",
         x.vr = 0, x.rcv = <<>>, x.queue = <<>>, x.buf = "none", n.vr = 0, n.rcv = <<>>,
         n.state = "IDLE" => Flushed(n), NEW out, One(out, "SABM")
  PROVE  Control(x, n, out, <<>>, FALSE, FALSE)
<1>1. \A g \in Within(out) : g.k = "SABM"
  BY OneParts
<1>2. Within(<<>>) = {}
  BY NoFrame
<1> QED
  BY <1>1, <1>2
  DEF Control, MsAnswers, SabmLate, Waits, UaFirst, BtsOpen, MsOpen, RejFinal, Lacks, Established

(* Control, when the base station sends. *)
LEMMA BtsSends ==
  ASSUME NEW m, NEW n, NEW s \in Seq(Frames), NEW a \in Seq(Frames), NEW bm, NEW bn,
         Control(m, n, s, a, bm, bn),
         NEW y, SameReceiver(n, y), NEW out \in Seq(Frames), NEW c, Lacks(out, {"UA"}), Lacks(out, {"DM"}),
         RejFinal(out), y.state \in Established => n.state \in Established /\ Lacks(out, {"DISC"}),
         m.state # "SABM_SENT" => Lacks(s, {"SABM"}),
         \A g \in Within(out) : /\ Numbered(g) => g.nr = y.vr
                                /\ g \notin Finals /\ g.k # "REJ"
                                /\ g.k = "DISC" => y.state = "DISC_SENT",
         m.state = "SABM_SENT" =>
           /\ n.state = "DISC_SENT" /\ a # <<>> => y.state = "DISC_SENT"
           /\ c => y.state # "DISC_SENT" /\ s = <<>>
           /\ y.state = "IDLE" => Flushed(y)
           /\ s # <<>> => y.state # "IDLE" /\ \A g \in Within(out) : g.k = "DISC" \/ (g.k = "I" /\ ~g.f)
  PROVE  Control(m, y, s, a \o out, bm, c)
<1>1. /\ a \o out \in Seq(Frames) /\ Within(a \o out) = Within(a) \cup Within(out)
      /\ \A K : Lacks(a \o out, K) <=> Lacks(a, K) /\ Lacks(out, K)
  BY JoinParts, LacksParts
<1>2. /\ MsAnswers(m, s) /\ Waits(m, n, s, a, bm, bn)
      /\ UaFirst(m, a) /\ BtsOpen(n, s, a) /\ MsOpen(m, s) /\ RejFinal(s) /\ RejFinal(a)
  BY DEF Control
<1>3. SabmLate(m, y, s, c)
  BY DEF SabmLate
<1>4. Waits(m, y, s, a \o out, bm, c)
  <2> SUFFICES ASSUME m.state = "SABM_SENT" PROVE Waits(m, y, s, a \o out, bm, c)
    BY DEF Waits
  <2>1. /\ ~bm /\ m.vr = 0 /\ m.rcv = <<>> /\ m.queue = <<>> /\ m.buf = "none"
        /\ n.vr = 0 /\ n.rcv = <<>>
        /\ \A f \in Within(a) : /\ Numbered(f) => f.nr = 0
                                /\ f \notin Finals /\ f.k # "REJ"
                                /\ f.k = "DISC" => n.state = "DISC_SENT"
        /\ s # <<>> => \A f \in Within(a) : f.k = "DISC" \/ (f.k = "I" /\ ~f.f)
    BY <1>2 DEF Waits
  <2>2. y.vr = 0 /\ y.rcv = <<>>
    BY <2>1 DEF SameReceiver
  <2>3. ASSUME NEW f \in Within(a) PROVE a # <<>>
    BY NoFrame
  <2>4. \A f \in Within(a \o out) : /\ Numbered(f) => f.nr = 0
                                    /\ f \notin Finals /\ f.k # "REJ"
                                    /\ f.k = "DISC" => y.state = "DISC_SENT"
    BY <1>1, <2>1, <2>2, <2>3
  <2>5. s # <<>> => \A f \in Within(a \o out) : y.state # "IDLE" /\ (f.k = "DISC" \/ (f.k = "I" /\ ~f.f))
    BY <1>1, <2>1
  <2> QED
    BY <2>1, <2>2, <2>4, <2>5 DEF Waits
<1>5. UaFirst(m, a \o out)
  <2>1. ASSUME NEW i \in 1..Len(a \o out), NEW j \in 1..Len(a \o out), i < j, (a \o out)[j].k = "UA"
        PROVE  (a \o out)[i].k = "I"
    <3>1. /\ Len(a) \in Nat /\ Len(out) \in Nat /\ Len(a \o out) = Len(a) + Len(out)
          /\ \A k \in 1..Len(a \o out) : IF k <= Len(a) THEN k \in 1..Len(a) /\ (a \o out)[k] = a[k]
                                         ELSE k - Len(a) \in 1..Len(out) /\ (a \o out)[k] = out[k - Len(a)]
      OBVIOUS
    <3>2. j <= Len(a)
      BY <2>1, <3>1 DEF Lacks, Within
    <3>3. i <= Len(a)
      BY <2>1, <3>1, <3>2
    <3> QED
      BY <1>2, <2>1, <3>1, <3>2, <3>3 DEF UaFirst
  <2> QED
    BY <1>1, <1>2, <2>1 DEF UaFirst
<1>6. BtsOpen(y, s, a \o out)
  <2>1. y.state \in Established => Lacks(out, {"DISC", "DM"})
    BY DEF Lacks
  <2> QED
    BY <1>1, <1>2, <2>1 DEF BtsOpen
<1>7. RejFinal(a \o out)
  BY <1>1, <1>2 DEF RejFinal
<1> QED
  BY <1>2, <1>3, <1>4, <1>5, <1>6, <1>7 DEF Control

(* dl_data_req, whatever the rest of the queue is. *)
LEMMA DataSent ==
  ASSUME NEW d \in Datalinks, NEW q \in Datalinks, NEW s \in Seq(Frames), NEW a \in Seq(Frames),
         d.state \in Established, Side(d, q, s, a, FALSE), Side(q, d, a, s, FALSE),
         NEW b \in Datalinks, SameSender(d, b), SameReceiver(d, b)
  PROVE  /\ Side(SendI(b).d, q, s \o SendI(b).out, a, FALSE)
         /\ Side(q, SendI(b).d, a, s \o SendI(b).out, FALSE)
         /\ SendI(b).d.state = d.state /\ SameReceiver(d, SendI(b).d)
         /\ SendI(b).out \in Seq(Frames) /\ GoesOn(SendI(b).out, d.vr)
<1>1. /\ SendI(b).d \in Datalinks /\ SendI(b).out \in Seq(Frames)
      /\ SendI(b).d.state = d.state /\ SameReceiver(d, SendI(b).d)
  BY SendIKeeps, SendIType DEF SameSender, SameReceiver
<1>2. b.state \in Established /\ b.vr = d.vr
  BY DEF SameSender, SameReceiver
<1>3. Direction(b, q, s, a) /\ AtMostOne(s, IFrames)
  <2>1. Direction(d, q, s, a) /\ SameReceiver(q, q)
    BY DEF Side, SameReceiver
  <2> QED
    BY <2>1, DirectionFields DEF Side
<1>4. /\ Direction(SendI(b).d, q, s \o SendI(b).out, a)
      /\ AtMostOne(s \o SendI(b).out, IFrames)
      /\ GoesOn(SendI(b).out, d.vr)
  BY <1>2, <1>3, SegmentSent
<1> DEFINE out == SendI(b).out
           x == SendI(b).d
<1> HIDE DEF out, x
<1>5. /\ x.state \in Established /\ SameReceiver(d, x) /\ x.state = d.state
      /\ out \in Seq(Frames) /\ GoesOn(out, d.vr)
      /\ Direction(x, q, s \o out, a) /\ AtMostOne(s \o out, IFrames)
  BY <1>1, <1>4 DEF out, x
<1>6. \A g \in Within(out) : g \notin Finals /\ Numbered(g) /\ g.nr = x.vr /\ g \notin Polls
  BY <1>5 DEF GoesOn, Finals, Polls, Numbered, SameReceiver
<1>7. OnePoll(s \o out, a)
  <2>1. Within(out) \cap Polls = {} /\ Within(s \o out) = Within(s) \cup Within(out) /\ OnePoll(s, a)
    BY <1>5, <1>6, JoinParts DEF Side
  <2>2. AtMostOne(s \o out, Polls)
    BY <1>5, <2>1, JoinParts DEF OnePoll
  <2> QED
    BY <2>1, <2>2 DEF OnePoll
<1>8. Side(x, q, s \o out, a, FALSE) /\ Side(q, x, a, s \o out, FALSE)
  BY <1>5, <1>6, <1>7, DataSides
<1> QED
  BY <1>5, <1>8 DEF out, x

LEMMA MsData ==
  ASSUME NEW m \in Datalinks, NEW n \in Datalinks, NEW s \in Seq(Frames), NEW a \in Seq(Frames),
         Linked(m, n, s, a, FALSE, FALSE), m.state \in Established,
         NEW b \in Datalinks, SameSender(m, b), SameReceiver(m, b)
  PROVE  Linked(SendI(b).d, n, s \o SendI(b).out, a, FALSE, FALSE)
<1> DEFINE out == SendI(b).out
           x == SendI(b).d
<1>1. /\ Side(x, n, s \o out, a, FALSE) /\ Side(n, x, a, s \o out, FALSE)
      /\ x.state = m.state /\ out \in Seq(Frames) /\ GoesOn(out, m.vr)
  BY DataSent DEF Linked
<1> HIDE DEF x, out
<1>2. /\ Lacks(out, {"UA"}) /\ Lacks(out, {"DISC"}) /\ Lacks(out, {"SABM"}) /\ RejFinal(out)
      /\ \A g \in Within(out) : Numbered(g)
  BY <1>1 DEF GoesOn, Lacks, RejFinal, Numbered
<1>3. Control(x, n, s \o out, a, FALSE, FALSE)
  BY <1>1, <1>2, MsSends DEF Linked, Established
<1> QED
  BY <1>1, <1>3 DEF Linked, x, out

LEMMA BtsData ==
  ASSUME NEW m \in Datalinks, NEW n \in Datalinks, NEW s \in Seq(Frames), NEW a \in Seq(Frames),
         Linked(m, n, s, a, FALSE, FALSE), n.state \in Established,
         NEW b \in Datalinks, SameSender(n, b), SameReceiver(n, b)
  PROVE  Linked(m, SendI(b).d, s, a \o SendI(b).out, FALSE, FALSE)
<1> DEFINE out == SendI(b).out
           y == SendI(b).d
<1>1. /\ Side(y, m, a \o out, s, FALSE) /\ Side(m, y, s, a \o out, FALSE)
      /\ y.state = n.state /\ SameReceiver(n, y) /\ out \in Seq(Frames) /\ GoesOn(out, n.vr)
  BY DataSent DEF Linked
<1> HIDE DEF y, out
<1>2. /\ Lacks(out, {"UA"}) /\ Lacks(out, {"DISC"}) /\ Lacks(out, {"DM"}) /\ RejFinal(out)
      /\ \A g \in Within(out) : /\ Numbered(g) => g.nr = y.vr
                                /\ g \notin Finals /\ g.k # "REJ" /\ g.k # "DISC"
                                /\ g.k = "I" /\ ~g.f
  BY <1>1 DEF GoesOn, Lacks, RejFinal, Finals, SameReceiver
<1>3. m.state # "SABM_SENT" => Lacks(s, {"SABM"})
  BY DEF Linked, Control, SabmLate, Established
<1>4. y.state # "IDLE" /\ n.state # "DISC_SENT"
  BY <1>1 DEF Established
<1>5. Control(m, y, s, a \o out, FALSE, FALSE)
  BY <1>1, <1>2, <1>3, <1>4, BtsSends DEF Linked
<1> QED
  BY <1>1, <1>5 DEF Linked, y, out

(* T200 while the link is established: z polls with the frame of y. *)
LEMMA PollSides ==
  ASSUME NEW d \in Datalinks, NEW q \in Datalinks, d.state \in Established,
         Side(d, q, <<>>, <<>>, FALSE), Side(q, d, <<>>, <<>>, FALSE),
         NEW y \in Datalinks, y.state = "TIMER_RECOV", SameReceiver(d, y),
         y.vs = d.vs, y.va = d.va, y.hist = d.hist, y.buf = d.buf, y.out = d.out,
         NEW z, SameSender(y, z), SameReceiver(y, z)
  PROVE  /\ Side(z, q, <<>> \o Poll(y), <<>>, FALSE)
         /\ Side(q, z, <<>>, <<>> \o Poll(y), FALSE)
         /\ Poll(y) \in Seq(Frames)
         /\ \A f \in Within(Poll(y)) : f.nr = z.vr /\ f.k \in {"I", "RR"} /\ f \notin Finals
<1> DEFINE out == Poll(y)
<1>1. Direction(d, q, <<>>, <<>>) /\ <<>> \in Seq(Frames) /\ Within(<<>>) = {}
  BY NoFrame DEF Side
<1>2. /\ Direction(y, q, out, <<>>) /\ out \in Seq(Frames)
      /\ AtMostOne(out, IFrames) /\ AtMostOne(out, Polls)
      /\ \A f \in Within(out) : /\ f \in Polls /\ f.nr = y.vr
                                /\ f.k \in {"I", "RR"} /\ (f.k = "RR" => f.cmd)
  BY <1>1, PollSent
<1> HIDE DEF out
<1>3. <<>> \o out = out
  BY <1>2
<1>4. Direction(z, q, <<>> \o out, <<>>)
  <2>1. SameReceiver(q, q)
    BY DEF SameReceiver
  <2> QED
    BY <1>2, <1>3, <2>1, DirectionFields
<1>5. \A f \in Within(out) : f \notin Finals /\ Numbered(f) /\ f.nr = z.vr /\ f.k \in {"I", "RR"}
  BY <1>2 DEF Finals, Numbered, SameReceiver
<1>6. OnePoll(<<>> \o out, <<>>)
  <2>1. AtMostOne(<<>>, Finals)
    BY DEF AtMostOne
  <2> QED
    BY <1>1, <1>2, <1>3, <2>1 DEF OnePoll
<1>7. z.state \in Established /\ SameReceiver(d, z)
  BY DEF SameSender, SameReceiver, Established
<1>8. AtMostOne(<<>> \o out, IFrames)
  BY <1>2, <1>3
<1>9. Side(z, q, <<>> \o out, <<>>, FALSE) /\ Side(q, z, <<>>, <<>> \o out, FALSE)
  BY <1>1, <1>2, <1>4, <1>5, <1>6, <1>7, <1>8, DataSides
<1> QED
  BY <1>2, <1>5, <1>9 DEF out

LEMMA MsPolls ==
  ASSUME NEW m \in Datalinks, NEW n \in Datalinks, m.state \in Established,
         Linked(m, n, <<>>, <<>>, FALSE, FALSE),
         NEW y \in Datalinks, y.state = "TIMER_RECOV", SameReceiver(m, y),
         y.vs = m.vs, y.va = m.va, y.hist = m.hist, y.buf = m.buf, y.out = m.out,
         NEW z, SameSender(y, z), SameReceiver(y, z)
  PROVE  Linked(z, n, <<>> \o Poll(y), <<>>, FALSE, FALSE)
<1> DEFINE out == Poll(y)
<1>1. /\ Side(z, n, <<>> \o out, <<>>, FALSE) /\ Side(n, z, <<>>, <<>> \o out, FALSE)
      /\ out \in Seq(Frames) /\ \A f \in Within(out) : f.k \in {"I", "RR"}
  BY PollSides DEF Linked
<1> HIDE DEF out
<1>2. /\ Lacks(out, {"UA"}) /\ Lacks(out, {"DISC"}) /\ Lacks(out, {"SABM"}) /\ RejFinal(out)
      /\ \A g \in Within(out) : Numbered(g)
  BY <1>1 DEF Lacks, RejFinal, Numbered
<1>3. Control(z, n, <<>> \o out, <<>>, FALSE, FALSE)
  BY <1>1, <1>2, MsSends, NoFrame DEF Linked, SameSender, Established
<1> QED
  BY <1>1, <1>3 DEF Linked, out

LEMMA BtsPolls ==
  ASSUME NEW m \in Datalinks, NEW n \in Datalinks, n.state \in Established,
         Linked(m, n, <<>>, <<>>, FALSE, FALSE),
         NEW y \in Datalinks, y.state = "TIMER_RECOV", SameReceiver(n, y),
         y.vs = n.vs, y.va = n.va, y.hist = n.hist, y.buf = n.buf, y.out = n.out,
         NEW z, SameSender(y, z), SameReceiver(y, z)
  PROVE  Linked(m, z, <<>>, <<>> \o Poll(y), FALSE, FALSE)
<1> DEFINE out == Poll(y)
<1>1. /\ Side(z, m, <<>> \o out, <<>>, FALSE) /\ Side(m, z, <<>>, <<>> \o out, FALSE)
      /\ out \in Seq(Frames)
      /\ \A f \in Within(out) : f.nr = z.vr /\ f.k \in {"I", "RR"} /\ f \notin Finals
  BY PollSides DEF Linked
<1> HIDE DEF out
<1>2. /\ Lacks(out, {"UA"}) /\ Lacks(out, {"DISC"}) /\ Lacks(out, {"DM"}) /\ RejFinal(out)
      /\ Lacks(<<>>, {"SABM"})
  BY <1>1, NoFrame DEF Lacks, RejFinal
<1>3. z.state = "TIMER_RECOV" /\ SameReceiver(n, z)
  BY DEF SameSender, SameReceiver
<1>4. Control(m, z, <<>>, <<>> \o out, FALSE, FALSE)
  BY <1>1, <1>2, <1>3, BtsSends, NoFrame DEF Linked
<1> QED
  BY <1>1, <1>4 DEF Linked, out

(* T200 has expired too often: the link is given up, or left in recovery. *)
LEMMA GivenUpSides ==
  ASSUME NEW d, NEW q, Side(d, q, <<>>, <<>>, FALSE), Side(q, d, <<>>, <<>>, FALSE),
         NEW x, SameReceiver(d, x), x.state \in {"IDLE", "TIMER_RECOV"},
         x.state = "TIMER_RECOV" => d.state \in Established /\ x.va = d.va /\ x.vs = d.vs
  PROVE  Side(x, q, <<>>, <<>>, TRUE) /\ Side(q, x, <<>>, <<>>, FALSE)
<1>1. Within(<<>>) = {} /\ NoPoll(<<>>, <<>>)
  BY NoFrame DEF NoPoll
<1>2. x.state \in Established => q.vr \in {x.va, x.vs}
  BY DEF Side, Established
<1>3. q.state \in Established => Direction(q, x, <<>>, <<>>)
  <2>1. SameSender(q, q)
    BY DEF SameSender
  <2> QED
    BY <2>1, DirectionFields DEF Side
<1> QED
  BY <1>1, <1>2, <1>3 DEF Side, SameReceiver

LEMMA MsGivesUp ==
  ASSUME NEW m, NEW n, Linked(m, n, <<>>, <<>>, FALSE, FALSE),
         NEW x, SameReceiver(m, x), x.state \in {"IDLE", "TIMER_RECOV"},
         x.state = "TIMER_RECOV" => m.state \in Established /\ x.va = m.va /\ x.vs = m.vs
  PROVE  Linked(x, n, <<>>, <<>>, TRUE, FALSE)
<1>1. Side(x, n, <<>>, <<>>, TRUE) /\ Side(n, x, <<>>, <<>>, FALSE)
  BY GivenUpSides DEF Linked
<1>2. Control(x, n, <<>>, <<>>, TRUE, FALSE)
  BY NoFrame DEF Control, MsAnswers, SabmLate, Waits, UaFirst, BtsOpen, MsOpen, RejFinal, Lacks
<1> QED
  BY <1>1, <1>2 DEF Linked

LEMMA BtsGivesUp ==
  ASSUME NEW m, NEW n, Linked(m, n, <<>>, <<>>, FALSE, FALSE),
         NEW y, SameReceiver(n, y), y.state \in {"IDLE", "TIMER_RECOV"},
         y.state = "TIMER_RECOV" => n.state \in Established /\ y.va = n.va /\ y.vs = n.vs,
         y.state = "IDLE" => Flushed(y)
  PROVE  Linked(m, y, <<>>, <<>>, FALSE, TRUE)
<1>1. Side(y, m, <<>>, <<>>, TRUE) /\ Side(m, y, <<>>, <<>>, FALSE)
  BY GivenUpSides DEF Linked
<1>2. /\ m.state = "SABM_SENT" => /\ m.vr = 0 /\ m.rcv = <<>> /\ m.queue = <<>> /\ m.buf = "none"
                                  /\ y.vr = 0 /\ y.rcv = <<>>
      /\ m.state # "DISC_SENT"
  BY DEF Linked, Control, Waits, MsAnswers, SameReceiver
<1>3. Control(m, y, <<>>, <<>>, FALSE, TRUE)
  BY <1>2, NoFrame DEF Control, MsAnswers, SabmLate, Waits, UaFirst, BtsOpen, MsOpen, RejFinal, Lacks
<1> QED
  BY <1>1, <1>3 DEF Linked

(* The mobile sends its SABM, for the first time or again. *)
LEMMA MsCalls ==
  ASSUME NEW m, NEW n, Linked(m, n, <<>>, <<>>, FALSE, FALSE),
         NEW x, SameReceiver(m, x), x.state = "SABM_SENT",
         x.vr = 0, x.rcv = <<>>, x.queue = <<>>, x.buf = "none", n.vr = 0, n.rcv = <<>>,
         n.state = "IDLE" => Flushed(n), NEW out, One(out, "SABM")
  PROVE  Linked(x, n, <<>> \o out, <<>>, FALSE, FALSE)
<1>1. out \in Seq(Frames) /\ \A g \in Within(out) : g.k = "SABM"
  BY OneParts
<1>2. <<>> \o out = out /\ <<>> \in Seq(Frames) /\ NoPoll(<<>>, <<>>)
  BY <1>1, NoFrame DEF NoPoll
<1>3. (\A g \in Within(out) : ~Numbered(g)) /\ Lacks(out, {"DM"}) /\ x.state \notin Established
  BY <1>1 DEF Numbered, Lacks, Established
<1>4. Side(x, n, <<>> \o out, <<>>, FALSE) /\ Side(n, x, <<>>, <<>> \o out, FALSE)
  BY <1>1, <1>2, <1>3, SentSides DEF Linked
<1>5. Control(x, n, out, <<>>, FALSE, FALSE)
  BY MsOpens
<1> QED
  BY <1>2, <1>4, <1>5 DEF Linked

(* The base station sends its DISC, for the first time or again. *)
LEMMA BtsReleases ==
  ASSUME NEW m, NEW n, NEW s \in Seq(Frames), NEW a \in Seq(Frames), Linked(m, n, s, a, FALSE, FALSE),
         NEW y, SameReceiver(n, y), y.state = "DISC_SENT",
         n.state \in Established \/ (n.state = "DISC_SENT" /\ s = <<>>),
         NEW out, One(out, "DISC")
  PROVE  Linked(m, y, s, a \o out, FALSE, FALSE)
<1>1. out \in Seq(Frames) /\ \A g \in Within(out) : g.k = "DISC"
  BY OneParts
<1>2. /\ \A g \in Within(out) : ~Numbered(g)
      /\ Lacks(out, {"DM"}) /\ Lacks(out, {"UA"}) /\ RejFinal(out)
      /\ y.state \notin Established
  BY <1>1 DEF Numbered, Lacks, RejFinal, Established
<1>3. Side(y, m, a \o out, s, FALSE) /\ Side(m, y, s, a \o out, FALSE)
  BY <1>1, <1>2, SentSides DEF Linked
<1>4. m.state # "SABM_SENT" => Lacks(s, {"SABM"})
  BY NoFrame DEF Linked, Control, SabmLate, Established, Lacks
<1>5. \A g \in Within(out) : g \notin Finals /\ g.k # "REJ"
  BY <1>1 DEF Finals
<1>6. Control(m, y, s, a \o out, FALSE, FALSE)
  BY <1>1, <1>2, <1>4, <1>5, BtsSends DEF Linked
<1> QED
  BY <1>3, <1>6 DEF Linked

(* Layer 3 releases the link locally. *)
LEMMA MsReleased ==
  ASSUME NEW m, NEW n, NEW s \in Seq(Frames), NEW a \in Seq(Frames), NEW bn, Linked(m, n, s, a, TRUE, bn),
         NEW x, SameReceiver(m, x), x.state = "IDLE"
  PROVE  Linked(x, n, s \o <<>>, a, FALSE, bn)
<1>1. <<>> \in Seq(Frames) /\ Within(<<>>) = {}
  BY NoFrame
<1>2. (\A K : Lacks(<<>>, K)) /\ RejFinal(<<>>)
  BY <1>1 DEF Lacks, RejFinal
<1>3. m.state # "SABM_SENT"
  BY DEF Linked, Control, Waits
<1>4. NoPoll(s, a)
  BY DEF Linked, Side
<1>5. Side(x, n, s \o <<>>, a, FALSE) /\ Side(n, x, a, s \o <<>>, bn)
  BY <1>1, <1>2, <1>4, SentSides DEF Linked, Established
<1>6. Control(x, n, s \o <<>>, a, FALSE, bn)
  BY <1>1, <1>2, <1>3, MsSends DEF Linked
<1> QED
  BY <1>5, <1>6 DEF Linked

LEMMA BtsReleased ==
  ASSUME NEW m, NEW n, NEW s \in Seq(Frames), NEW a \in Seq(Frames), NEW bm, Linked(m, n, s, a, bm, TRUE),
         NEW y, SameReceiver(n, y), y.state = "IDLE", Flushed(n) \/ n.state # "IDLE" => Flushed(y)
  PROVE  Linked(m, y, s, a \o <<>>, bm, FALSE)
<1>1. <<>> \in Seq(Frames) /\ Within(<<>>) = {}
  BY NoFrame
<1>2. (\A K : Lacks(<<>>, K)) /\ RejFinal(<<>>)
  BY <1>1 DEF Lacks, RejFinal
<1>3. NoPoll(a, s)
  BY DEF Linked, Side
<1>4. Side(y, m, a \o <<>>, s, FALSE) /\ Side(m, y, s, a \o <<>>, bm)
  BY <1>1, <1>2, <1>3, SentSides DEF Linked, Established
<1>5. m.state # "SABM_SENT" => Lacks(s, {"SABM"})
  BY DEF Linked, Control, SabmLate
<1>6. m.state = "SABM_SENT" => n.state # "DISC_SENT" /\ s = <<>> /\ Flushed(y)
  BY DEF Linked, Control, Waits
<1>7. Control(m, y, s, a \o <<>>, bm, FALSE)
  BY <1>1, <1>2, <1>5, <1>6, BtsSends DEF Linked, Established
<1> QED
  BY <1>4, <1>7 DEF Linked

(* A frame is lost. *)
LEMMA MsLost ==
  ASSUME NEW m \in Datalinks, NEW n \in Datalinks, NEW s \in Seq(Frames), NEW a \in Seq(Frames), s # <<>>,
         Alone(m, n, s, a), Linked(m, n, s, a, FALSE, FALSE)
  PROVE  Linked(m, n, Tail(s), a, FALSE, FALSE)
<1>1. Kept(n, n) /\ a \o <<>> = a
  BY DEF Kept, SameData, SameReceiver
<1>2. CASE m.state # "SABM_SENT"
  BY <1>1, <1>2, BtsIgnores
<1>3. CASE m.state = "SABM_SENT"
  <2>1. Tail(s) = <<>> /\ <<>> \in Seq(Frames) /\ Within(<<>>) = {}
    BY <1>3, OneParts, NoFrame DEF Alone
  <2>2. (\A K : Lacks(<<>>, K)) /\ \A g \in Within(<<>>) : ~Numbered(g)
    BY <2>1 DEF Lacks
  <2>3. Side(n, m, a \o <<>>, Tail(s), FALSE) /\ Side(m, n, Tail(s), a \o <<>>, FALSE)
    BY <1>1, <2>1, <2>2, KeptSides DEF Linked
  <2>4. Control(m, n, <<>>, a, FALSE, FALSE)
    BY <1>3, <2>1
    DEF Linked, Control, MsAnswers, SabmLate, Waits, BtsOpen, MsOpen, RejFinal, Lacks, Established
  <2> QED
    BY <1>1, <2>1, <2>3, <2>4 DEF Linked
<1> QED
  BY <1>2, <1>3

LEMMA BtsLost ==
  ASSUME NEW m \in Datalinks, NEW n \in Datalinks, NEW s \in Seq(Frames), NEW a \in Seq(Frames), a # <<>>,
         Alone(m, n, s, a), Linked(m, n, s, a, FALSE, FALSE)
  PROVE  Linked(m, n, s, Tail(a), FALSE, FALSE)
<1>1. Kept(m, m) /\ s \o <<>> = s
  BY DEF Kept, SameData, SameReceiver
<1> QED
  BY <1>1, MsIgnores

(* The SABM of another mobile takes the place of that of the mobile. *)
LEMMA Swapped ==
  ASSUME NEW s \in Seq(Frames), NEW h \in Frames, s # <<>>, h.k = "SABM", Head(s).k = "SABM"
  PROVE  /\ <<h>> \o Tail(s) \in Seq(Frames) /\ <<h>> \o Tail(s) # <<>>
         /\ Tail(<<h>> \o Tail(s)) = Tail(s)
         /\ Within(s) = {Head(s)} \cup Within(Tail(s))
         /\ Within(<<h>> \o Tail(s)) = {h} \cup Within(Tail(s))
         /\ \A S : AtMostOne(s, S) /\ h \notin S /\ Head(s) \notin S => AtMostOne(<<h>> \o Tail(s), S)
         /\ \A v : Settles(s, v) => Settles(<<h>> \o Tail(s), v)
<1> DEFINE t == <<h>> \o Tail(s)
<1>1. /\ Tail(s) \in Seq(Frames) /\ t \in Seq(Frames) /\ Len(s) \in Nat /\ Len(s) >= 1 /\ Len(t) = Len(s)
      /\ Tail(t) = Tail(s) /\ Head(s) = s[1] /\ t[1] = h
      /\ \A i \in 2..Len(s) : t[i] = s[i]
      /\ \A i \in 1..Len(Tail(s)) : Tail(s)[i] = s[i + 1]
      /\ Len(Tail(s)) = Len(s) - 1
  OBVIOUS
<1>2. \A i \in 1..Len(s) : i = 1 \/ i \in 2..Len(s)
  BY <1>1
<1>3. t # <<>>
  BY <1>1
<1>4. \A i \in 2..Len(s) : i - 1 \in 1..Len(Tail(s)) /\ (i - 1) + 1 = i
  BY <1>1
<1>5. \A i \in 1..Len(Tail(s)) : i + 1 \in 1..Len(s)
  BY <1>1
<1>6. 1 \in 1..Len(s)
  BY <1>1
<1> HIDE DEF t
<1>7. Within(s) = {Head(s)} \cup Within(Tail(s))
  BY <1>1, <1>2, <1>4, <1>5, <1>6 DEF Within
<1>8. Within(t) = {h} \cup Within(Tail(s))
  <2>1. \A i \in 1..Len(Tail(s)) : i + 1 \in 2..Len(s)
    BY <1>1
  <2> QED
    BY <1>1, <1>2, <1>4, <1>5, <1>6, <2>1 DEF Within
<1>9. ASSUME NEW S, AtMostOne(s, S), h \notin S, Head(s) \notin S PROVE AtMostOne(t, S)
  <2> SUFFICES ASSUME NEW i \in 1..Len(t), NEW j \in 1..Len(t), t[i] \in S, t[j] \in S PROVE i = j
    BY DEF AtMostOne
  <2>1. i \in 2..Len(s) /\ j \in 2..Len(s)
    BY <1>1, <1>2, <1>9
  <2>2. s[i] \in S /\ s[j] \in S
    BY <1>1, <2>1
  <2> QED
    BY <1>1, <1>9, <2>2 DEF AtMostOne
<1>10. ASSUME NEW v, Settles(s, v) PROVE Settles(t, v)
  <2> SUFFICES ASSUME NEW i \in 1..Len(t), NEW j \in 1..Len(t), i < j,
                      Numbered(t[i]), Numbered(t[j]), t[i].nr = v
               PROVE  t[j].nr = v
    BY DEF Settles
  <2>1. i # 1 /\ j # 1
    BY <1>1 DEF Numbered
  <2>2. t[i] = s[i] /\ t[j] = s[j]
    BY <1>1, <1>2, <2>1
  <2> QED
    BY <1>1, <1>10, <2>2 DEF Settles
<1> QED
  BY <1>1, <1>3, <1>7, <1>8, <1>9, <1>10 DEF t

LEMMA MsCollides ==
  ASSUME NEW m, NEW n, NEW s \in Seq(Frames), NEW a \in Seq(Frames), s # <<>>,
         Linked(m, n, s, a, FALSE, FALSE),
         NEW h \in Frames, h.k = "SABM", Head(s).k = "SABM"
  PROVE  Linked(m, n, <<h>> \o Tail(s), a, FALSE, FALSE)
<1> DEFINE t == <<h>> \o Tail(s)
<1>1. /\ t \in Seq(Frames) /\ t # <<>> /\ Tail(t) = Tail(s)
      /\ Within(s) = {Head(s)} \cup Within(Tail(s)) /\ Within(t) = {h} \cup Within(Tail(s))
      /\ \A S : AtMostOne(s, S) /\ h \notin S /\ Head(s) \notin S => AtMostOne(t, S)
      /\ \A v : Settles(s, v) => Settles(t, v)
  BY Swapped
<1> HIDE DEF t
<1>2. h \notin Polls \cup Finals \cup Endings \cup IFrames /\ Head(s) \notin Polls \cup Finals \cup Endings \cup IFrames
  BY DEF Polls, Finals, Endings, IFrames
<1>3. /\ AtMostOne(s, IFrames) => AtMostOne(t, IFrames)
      /\ AtMostOne(s, Polls) => AtMostOne(t, Polls)
      /\ AtMostOne(s, Finals) => AtMostOne(t, Finals)
      /\ AtMostOne(s, Endings) => AtMostOne(t, Endings)
  BY <1>1, <1>2
<1>4. /\ Within(t) \cap Polls = Within(s) \cap Polls /\ Within(t) \cap Finals = Within(s) \cap Finals
      /\ Within(t) \cap Endings = Within(s) \cap Endings
      /\ \A f \in Within(t) : f \in Within(s) \/ f.k = "SABM"
  BY <1>1, <1>2
<1>5. /\ OnePoll(s, a) => OnePoll(t, a)
      /\ OnePoll(a, s) => OnePoll(a, t)
      /\ NoPoll(s, a) => NoPoll(t, a)
      /\ NoPoll(a, s) => NoPoll(a, t)
  BY <1>3, <1>4 DEF OnePoll, NoPoll
<1>6. m.state \notin Established
  BY <1>1 DEF Linked, Control, MsOpen, Numbered
<1>7. Side(m, n, t, a, FALSE)
  BY <1>3, <1>4, <1>5, <1>6 DEF Linked, Side
<1>8. n.state \in Established => Direction(n, m, a, t)
  <2> SUFFICES ASSUME n.state \in Established PROVE Direction(n, m, a, t)
    OBVIOUS
  <2>1. Direction(n, m, a, s)
    BY DEF Linked, Side
  <2>2. Acks(n, m, t)
    BY <1>1, <1>4, <2>1 DEF Direction, Acks, Numbered
  <2>3. Recovery(n, m, a, t)
    BY <1>3, <1>4, <2>1 DEF Direction, Recovery
  <2> QED
    BY <2>1, <2>2, <2>3 DEF Direction
<1>9. Side(n, m, a, t, FALSE)
  BY <1>5, <1>8 DEF Linked, Side
<1>10. Control(m, n, t, a, FALSE, FALSE)
  <2>1. /\ MsAnswers(m, s) /\ SabmLate(m, n, s, FALSE) /\ Waits(m, n, s, a, FALSE, FALSE)
        /\ UaFirst(m, a) /\ BtsOpen(n, s, a) /\ MsOpen(m, s) /\ RejFinal(s) /\ RejFinal(a)
    BY DEF Linked, Control
  <2>2. ~Lacks(s, {"SABM"})
    BY <1>1 DEF Lacks
  <2>3. MsAnswers(m, t) /\ SabmLate(m, n, t, FALSE) /\ Waits(m, n, t, a, FALSE, FALSE)
    BY <1>1, <1>4, <2>1, <2>2 DEF MsAnswers, SabmLate, Waits, Lacks
  <2>4. BtsOpen(n, t, a) /\ MsOpen(m, t) /\ RejFinal(t)
    BY <1>4, <1>6, <2>1 DEF BtsOpen, MsOpen, RejFinal, Lacks
  <2> QED
    BY <2>1, <2>3, <2>4 DEF Control
<1> QED
  BY <1>7, <1>9, <1>10 DEF Linked, t

-----------------------------------------------------------------------------
(* The state of the link. *)

LinkInv ==
  Linked(dl["ms"], dl["bts"], pipe["ms"], pipe["bts"], failed["ms"], failed["bts"])

LEMMA LinkEnds ==
  ASSUME TypeInv, OpenInv
  PROVE  /\ dl["ms"] \in Datalinks /\ dl["bts"] \in Datalinks
         /\ pipe["ms"] \in Seq(Frames) /\ pipe["bts"] \in Seq(Frames)
         /\ failed["ms"] \in BOOLEAN /\ failed["bts"] \in BOOLEAN
         /\ Alone(dl["ms"], dl["bts"], pipe["ms"], pipe["bts"])
<1>1. /\ dl["ms"] \in Datalinks /\ dl["bts"] \in Datalinks
      /\ pipe["ms"] \in Seq(Frames) /\ pipe["bts"] \in Seq(Frames)
      /\ failed["ms"] \in BOOLEAN /\ failed["bts"] \in BOOLEAN
  BY DEF TypeInv, Entities
<1>2. dl["bts"].state # "SABM_SENT" /\ Lacks(pipe["bts"], {"SABM"})
  BY DEF OpenInv, Flying, Lacks
<1>3. ASSUME dl["ms"].state = "SABM_SENT", pipe["ms"] # <<>>
      PROVE  One(pipe["ms"], "SABM") /\ Lacks(pipe["bts"], {"UA"})
  <2>1. PICK info : /\ pipe["ms"] = <<U("SABM", TRUE, info)>>
                    /\ \A f \in Flying("bts") : f.k # "UA"
    BY <1>3 DEF OpenInv, SabmAlone, Opening
  <2>2. Head(pipe["ms"]) = U("SABM", TRUE, info) /\ Head(pipe["ms"]) \in Frames
    <3> DEFINE h == U("SABM", TRUE, info)
    <3>1. pipe["ms"] = <<h>>
      BY <2>1
    <3>2. Head(pipe["ms"]) \in Frames
      BY <1>1, <1>3, TailParts
    <3> HIDE DEF h
    <3>3. Head(<<h>>) = h
      OBVIOUS
    <3>4. Head(pipe["ms"]) = h
      BY <3>1, <3>3
    <3> QED
      BY <3>2, <3>4 DEF h
  <2>3. U("SABM", TRUE, info).k = "SABM"
    BY DEF U
  <2> QED
    BY <2>1, <2>2, <2>3 DEF One, Flying, Lacks
<1> QED
  BY <1>1, <1>2, <1>3 DEF Alone

(* Both data links are idle and nothing is under way. *)
LEMMA LinkUntouched ==
  ASSUME dl["ms"] = Datalink, dl["bts"] = Datalink, pipe["ms"] = <<>>, pipe["bts"] = <<>>,
         failed["ms"] = FALSE, failed["bts"] = FALSE
  PROVE  LinkInv
<1>1. Side(Datalink, Datalink, <<>>, <<>>, FALSE)
  BY NoFrame DEF Side, Datalink, Established, AtMostOne, OnePoll, NoPoll
<1>2. Control(Datalink, Datalink, <<>>, <<>>, FALSE, FALSE)
  BY NoFrame DEF Control, MsAnswers, SabmLate, Waits, UaFirst, BtsOpen, MsOpen, RejFinal, Lacks, Datalink, Established
<1> QED
  BY <1>1, <1>2 DEF LinkInv, Linked

LEMMA LinkInit == LapdInit => LinkInv
  BY LinkUntouched DEF LapdInit, Entities

LEMMA LinkReceive ==
  ASSUME TypeInv, OpenInv, LinkInv, NEW e \in Entities, Receive(e)
  PROVE  LinkInv'
<1> DEFINE f == Head(pipe[Peer(e)])
<1>1. /\ dl["ms"] \in Datalinks /\ dl["bts"] \in Datalinks
      /\ pipe["ms"] \in Seq(Frames) /\ pipe["bts"] \in Seq(Frames)
      /\ Alone(dl["ms"], dl["bts"], pipe["ms"], pipe["bts"])
  BY LinkEnds
<1>2. pipe[Peer(e)] # <<>> /\ Attended
  BY DEF Receive
<1>3. f.k = "REJ" => ~f.cmd
  <2>1. RejFinal(pipe["ms"]) /\ RejFinal(pipe["bts"])
    BY DEF LinkInv, Linked, Control
  <2>2. RejFinal(pipe[Peer(e)]) /\ pipe[Peer(e)] \in Seq(Frames)
    BY <1>1, <2>1 DEF Peer
  <2>3. f \in Within(pipe[Peer(e)])
    BY <1>2, <2>2, TailParts
  <2> QED
    BY <2>2, <2>3 DEF RejFinal, Finals
<1>4. PICK x, out, prims : Reply(e, x, out, prims) /\ Rx(dl[e], f, x, out, prims)
  BY <1>3, ReceiveCases
<1>5. ~failed["ms"] /\ ~failed["bts"] /\ failed["ms"] \in BOOLEAN /\ failed["bts"] \in BOOLEAN
  BY <1>2, LinkEnds DEF Attended, Entities
<1>6. Linked(dl["ms"], dl["bts"], pipe["ms"], pipe["bts"], FALSE, FALSE)
  BY <1>5 DEF LinkInv
<1>7. /\ dl'[e] = x /\ dl'[Peer(e)] = dl[Peer(e)] /\ x \in Datalinks
      /\ pipe'[e] = pipe[e] \o out /\ pipe'[Peer(e)] = Tail(pipe[Peer(e)])
      /\ failed'[e] = ("MDL_ERROR" \in prims) /\ failed'[Peer(e)] = FALSE
  <2>1. TypeInv'
    BY TypeReceive
  <2>2. Peer(e) \in Entities /\ Peer(e) # e
    BY Peers
  <2>3. dl'[e] = x /\ dl'[Peer(e)] = dl[Peer(e)]
    BY <1>4, <2>2 DEF Reply, TypeInv
  <2>4. pipe'[e] = pipe[e] \o out /\ pipe'[Peer(e)] = Tail(pipe[Peer(e)])
    BY <1>4, <2>2 DEF Reply, TypeInv
  <2>5. failed'[e] = (failed[e] \/ "MDL_ERROR" \in prims) /\ failed'[Peer(e)] = failed[Peer(e)]
    BY <1>4, <2>2 DEF Reply, Tell, TypeInv
  <2>6. failed[e] = FALSE /\ failed[Peer(e)] = FALSE
    BY <1>5, <2>2 DEF Entities, Peer
  <2>7. dl'[e] \in Datalinks
    BY <2>1 DEF TypeInv
  <2> QED
    BY <2>3, <2>4, <2>5, <2>6, <2>7
<1>8. CASE e = "ms"
  <2>1. Peer(e) = "bts"
    BY <1>8 DEF Peer
  <2>2. Linked(x, dl["bts"], pipe["ms"] \o out, Tail(pipe["bts"]), "MDL_ERROR" \in prims, FALSE)
    BY <1>1, <1>2, <1>4, <1>6, <1>7, <1>8, <2>1, MsOutcome
  <2> QED
    BY <1>7, <1>8, <2>1, <2>2 DEF LinkInv
<1>9. CASE e = "bts"
  <2>1. Peer(e) = "ms"
    BY <1>9 DEF Peer
  <2>2. Linked(dl["ms"], x, Tail(pipe["ms"]), pipe["bts"] \o out, FALSE, "MDL_ERROR" \in prims)
    BY <1>1, <1>2, <1>4, <1>6, <1>7, <1>9, <2>1, BtsOutcome
  <2> QED
    BY <1>7, <1>9, <2>1, <2>2 DEF LinkInv
<1> QED
  BY <1>8, <1>9 DEF Entities

(* An entity sends: what its handler leaves. *)
LEMMA LinkSent ==
  ASSUME TypeInv, NEW e \in Entities, NEW d, NEW out, Send(e, d, out)
  PROVE  /\ dl'[e] = d /\ dl'[Peer(e)] = dl[Peer(e)]
         /\ pipe'[e] = pipe[e] \o out /\ pipe'[Peer(e)] = pipe[Peer(e)]
<1>1. Peer(e) \in Entities /\ Peer(e) # e
  BY Peers
<1>2. dl'[e] = d /\ dl'[Peer(e)] = dl[Peer(e)]
  BY <1>1 DEF Send, TypeInv
<1>3. pipe'[e] = pipe[e] \o out /\ pipe'[Peer(e)] = pipe[Peer(e)]
  BY <1>1 DEF Send, TypeInv
<1> QED
  BY <1>2, <1>3

LEMMA LinkAttended ==
  ASSUME TypeInv, LinkInv, Attended
  PROVE  /\ failed["ms"] = FALSE /\ failed["bts"] = FALSE
         /\ Linked(dl["ms"], dl["bts"], pipe["ms"], pipe["bts"], FALSE, FALSE)
<1>1. failed["ms"] = FALSE /\ failed["bts"] = FALSE
  BY DEF TypeInv, Attended, Entities
<1> QED
  BY <1>1 DEF LinkInv

LEMMA LinkDataReq ==
  ASSUME TypeInv, OpenInv, LinkInv, NEW e \in Entities, NEW k \in Msgs, DataReq(e, k)
  PROVE  LinkInv'
<1> DEFINE b == [dl[e] EXCEPT !.queue = Append(@, k)]
<1>1. dl[e] \in Datalinks /\ dl[e].state \in Established
  BY DEF TypeInv, DataReq, Established
<1>2. b \in Datalinks /\ SameSender(dl[e], b) /\ SameReceiver(dl[e], b)
  <2>1. Append(dl[e].queue, k) \in Seq(Msgs)
    BY <1>1 DEF Datalinks
  <2> QED
    BY <1>1, <2>1 DEF Datalinks, SameSender, SameReceiver
<1>3. Send(e, SendI(b).d, SendI(b).out) /\ failed' = failed /\ Attended
  BY DEF DataReq
<1> HIDE DEF b
<1>4. /\ dl'[e] = SendI(b).d /\ dl'[Peer(e)] = dl[Peer(e)]
      /\ pipe'[e] = pipe[e] \o SendI(b).out /\ pipe'[Peer(e)] = pipe[Peer(e)]
  BY <1>3, LinkSent
<1>5. /\ failed["ms"] = FALSE /\ failed["bts"] = FALSE
      /\ Linked(dl["ms"], dl["bts"], pipe["ms"], pipe["bts"], FALSE, FALSE)
  BY <1>3, LinkAttended
<1>6. /\ dl["ms"] \in Datalinks /\ dl["bts"] \in Datalinks
      /\ pipe["ms"] \in Seq(Frames) /\ pipe["bts"] \in Seq(Frames)
  BY LinkEnds
<1>7. CASE e = "ms"
  <2>1. Linked(SendI(b).d, dl["bts"], pipe["ms"] \o SendI(b).out, pipe["bts"], FALSE, FALSE)
    BY <1>1, <1>2, <1>5, <1>6, <1>7, MsData
  <2> QED
    BY <1>3, <1>4, <1>5, <1>7, <2>1 DEF LinkInv, Peer
<1>8. CASE e = "bts"
  <2>1. Linked(dl["ms"], SendI(b).d, pipe["ms"], pipe["bts"] \o SendI(b).out, FALSE, FALSE)
    BY <1>1, <1>2, <1>5, <1>6, <1>8, BtsData
  <2> QED
    BY <1>3, <1>4, <1>5, <1>8, <2>1 DEF LinkInv, Peer
<1> QED
  BY <1>7, <1>8 DEF Entities

LEMMA LinkRelReq ==
  ASSUME TypeInv, OpenInv, LinkInv, OneLink, NEW e \in Entities, RelReq(e)
  PROVE  LinkInv'
<1> DEFINE x == FlushHist(dl[e])
           a == NewState(x, "DISC_SENT")
           d == [a EXCEPT !.vs = 0, !.ctr = 0, !.t200 = TRUE]
           out == <<U("DISC", TRUE, "none")>>
<1>1. dl[e] \in Datalinks
  BY DEF TypeInv
<1>2. Send(e, d, out) /\ failed' = failed /\ Attended
  BY DEF RelReq
<1>3. x \in Datalinks /\ SameReceiver(dl[e], x)
  BY <1>1, FlushType DEF FlushHist, Datalinks, SameReceiver
<1> HIDE DEF x
<1>4. a \in Datalinks /\ a.state = "DISC_SENT" /\ SameReceiver(dl[e], a)
  BY <1>3, NewStateKeeps DEF States, SameReceiver
<1> HIDE DEF a
<1>5. d.state = "DISC_SENT" /\ SameReceiver(dl[e], d)
  BY <1>4 DEF Datalinks, SameReceiver
<1> HIDE DEF d
<1>6. One(out, "DISC")
  <2>1. U("DISC", TRUE, "none") \in Frames /\ U("DISC", TRUE, "none").k = "DISC"
    BY <1>1, FramesMade DEF U
  <2> QED
    BY <2>1 DEF One
<1> HIDE DEF out
<1>7. e = "bts" /\ dl[e].state \in Established
  <2>1. asked["ms"] # 0
    <3>1. CASE e = "ms"
      BY <3>1 DEF RelReq, OpenInv, Untouched
    <3>2. CASE e = "bts"
      BY <3>2 DEF RelReq, OpenInv, Untouched, Datalink
    <3> QED
      BY <3>1, <3>2 DEF Entities
  <2>2. asked["ms"] \in 0..1
    BY DEF OneLink, TypeInv, Entities
  <2>3. e = "bts"
    BY <2>1, <2>2 DEF RelReq, OneLink, Entities
  <2> QED
    BY <2>3 DEF RelReq, OpenInv, Established
<1>8. /\ dl'[e] = d /\ dl'[Peer(e)] = dl[Peer(e)]
      /\ pipe'[e] = pipe[e] \o out /\ pipe'[Peer(e)] = pipe[Peer(e)]
  BY <1>2, LinkSent
<1>9. /\ failed["ms"] = FALSE /\ failed["bts"] = FALSE
      /\ Linked(dl["ms"], dl["bts"], pipe["ms"], pipe["bts"], FALSE, FALSE)
  BY <1>2, LinkAttended
<1>10. pipe["ms"] \in Seq(Frames) /\ pipe["bts"] \in Seq(Frames)
  BY LinkEnds
<1>11. Linked(dl["ms"], d, pipe["ms"], pipe["bts"] \o out, FALSE, FALSE)
  BY <1>5, <1>6, <1>7, <1>9, <1>10, BtsReleases
<1> QED
  BY <1>2, <1>7, <1>8, <1>9, <1>11 DEF LinkInv, Peer

LEMMA LinkLocalRelease ==
  ASSUME TypeInv, OpenInv, LinkInv, NEW e \in Entities, LocalRelease(e)
  PROVE  LinkInv'
<1> DEFINE d == IF dl[e].state = "IDLE" THEN dl[e] ELSE ToIdle(dl[e])
<1>1. dl[e] \in Datalinks
  BY DEF TypeInv
<1>2. /\ SameReceiver(dl[e], d) /\ d.state = "IDLE"
      /\ Flushed(dl[e]) \/ dl[e].state # "IDLE" => Flushed(d)
  BY <1>1, HandlerStates DEF Closed, SameReceiver
<1>3. Send(e, d, <<>>) /\ failed[e] /\ failed' = [failed EXCEPT ![e] = FALSE]
  BY DEF LocalRelease
<1> HIDE DEF d
<1>4. /\ dl'[e] = d /\ dl'[Peer(e)] = dl[Peer(e)]
      /\ pipe'[e] = pipe[e] \o <<>> /\ pipe'[Peer(e)] = pipe[Peer(e)]
  BY <1>3, LinkSent
<1>5. failed[e] = TRUE /\ failed'[e] = FALSE /\ failed'[Peer(e)] = failed[Peer(e)]
  BY <1>3, Peers DEF TypeInv
<1>6. pipe["ms"] \in Seq(Frames) /\ pipe["bts"] \in Seq(Frames)
  BY LinkEnds
<1>7. CASE e = "ms"
  <2>1. Linked(dl["ms"], dl["bts"], pipe["ms"], pipe["bts"], TRUE, failed["bts"])
    BY <1>5, <1>7 DEF LinkInv
  <2>2. Linked(d, dl["bts"], pipe["ms"] \o <<>>, pipe["bts"], FALSE, failed["bts"])
    BY <1>2, <1>6, <1>7, <2>1, MsReleased
  <2> QED
    BY <1>4, <1>5, <1>7, <2>2 DEF LinkInv, Peer
<1>8. CASE e = "bts"
  <2>1. Linked(dl["ms"], dl["bts"], pipe["ms"], pipe["bts"], failed["ms"], TRUE)
    BY <1>5, <1>8 DEF LinkInv
  <2>2. Linked(dl["ms"], d, pipe["ms"], pipe["bts"] \o <<>>, failed["ms"], FALSE)
    BY <1>2, <1>6, <1>8, <2>1, BtsReleased
  <2> QED
    BY <1>4, <1>5, <1>8, <2>2 DEF LinkInv, Peer
<1> QED
  BY <1>7, <1>8 DEF Entities

LEMMA LinkLose ==
  ASSUME TypeInv, OpenInv, LinkInv, NEW e \in Entities, Lose(e)
  PROVE  LinkInv'
<1>1. /\ dl["ms"] \in Datalinks /\ dl["bts"] \in Datalinks
      /\ pipe["ms"] \in Seq(Frames) /\ pipe["bts"] \in Seq(Frames)
      /\ Alone(dl["ms"], dl["bts"], pipe["ms"], pipe["bts"])
  BY LinkEnds
<1>2. /\ failed["ms"] = FALSE /\ failed["bts"] = FALSE
      /\ Linked(dl["ms"], dl["bts"], pipe["ms"], pipe["bts"], FALSE, FALSE)
  BY LinkAttended DEF Lose
<1>3. /\ pipe[e] # <<>> /\ dl' = dl /\ failed' = failed
      /\ pipe'[e] = Tail(pipe[e]) /\ pipe'[Peer(e)] = pipe[Peer(e)]
  BY Peers DEF Lose, TypeInv
<1>4. CASE e = "ms"
  BY <1>1, <1>2, <1>3, <1>4, MsLost DEF LinkInv, Peer
<1>5. CASE e = "bts"
  BY <1>1, <1>2, <1>3, <1>5, BtsLost DEF LinkInv, Peer
<1> QED
  BY <1>4, <1>5 DEF Entities

LEMMA LinkCollide ==
  ASSUME TypeInv, OpenInv, LinkInv, Collide
  PROVE  LinkInv'
<1> DEFINE h == U("SABM", TRUE, "other")
           t == <<h>> \o Tail(pipe["ms"])
<1>1. h \in Frames /\ h.k = "SABM"
  BY DEF U, Frames
<1>2. /\ failed["ms"] = FALSE /\ failed["bts"] = FALSE
      /\ Linked(dl["ms"], dl["bts"], pipe["ms"], pipe["bts"], FALSE, FALSE)
  BY LinkAttended DEF Collide
<1>3. /\ pipe["ms"] # <<>> /\ Head(pipe["ms"]).k = "SABM" /\ dl' = dl /\ failed' = failed
      /\ pipe' = [pipe EXCEPT !["ms"] = t]
  BY DEF Collide
<1> HIDE DEF h
<1>4. Linked(dl["ms"], dl["bts"], t, pipe["bts"], FALSE, FALSE)
  BY <1>1, <1>2, <1>3, LinkEnds, MsCollides
<1> HIDE DEF t
<1>5. pipe'["ms"] = t /\ pipe'["bts"] = pipe["bts"]
  BY <1>3 DEF TypeInv, Entities
<1> QED
  BY <1>2, <1>3, <1>4, <1>5 DEF LinkInv

(* T200 has expired, with nothing under way: no error is unanswered. *)
LEMMA LinkExpires ==
  ASSUME TypeInv, LinkInv, NEW e, MayExpire(e), NoneUnderWay
  PROVE  /\ failed["ms"] = FALSE /\ failed["bts"] = FALSE
         /\ pipe["ms"] = <<>> /\ pipe["bts"] = <<>>
         /\ Linked(dl["ms"], dl["bts"], <<>>, <<>>, FALSE, FALSE)
<1>1. /\ failed["ms"] = FALSE /\ failed["bts"] = FALSE
      /\ Linked(dl["ms"], dl["bts"], pipe["ms"], pipe["bts"], FALSE, FALSE)
  BY LinkAttended DEF MayExpire
<1>2. pipe["ms"] = <<>> /\ pipe["bts"] = <<>>
  BY DEF NoneUnderWay, Entities
<1> QED
  BY <1>1, <1>2

(* Entity e gives up. *)
LEMMA LinkGivenUp ==
  ASSUME TypeInv, LinkInv, NEW e \in Entities, MayExpire(e), NoneUnderWay,
         NEW d, NEW prims, Send(e, d, <<>>), Tell(e, prims), "MDL_ERROR" \in prims,
         SameReceiver(dl[e], d), d.state \in {"IDLE", "TIMER_RECOV"},
         d.state = "TIMER_RECOV" => dl[e].state \in Established /\ d.va = dl[e].va /\ d.vs = dl[e].vs,
         d.state = "IDLE" => Flushed(d)
  PROVE  LinkInv'
<1>1. /\ failed["ms"] = FALSE /\ failed["bts"] = FALSE
      /\ pipe["ms"] = <<>> /\ pipe["bts"] = <<>>
      /\ Linked(dl["ms"], dl["bts"], <<>>, <<>>, FALSE, FALSE)
  BY LinkExpires
<1>2. <<>> \in Seq(Frames) /\ <<>> \o <<>> = <<>>
  BY ShortSequences
<1>3. /\ dl'[e] = d /\ dl'[Peer(e)] = dl[Peer(e)]
      /\ pipe'[e] = pipe[e] \o <<>> /\ pipe'[Peer(e)] = pipe[Peer(e)]
  BY LinkSent
<1>4. failed'[e] = TRUE /\ failed'[Peer(e)] = failed[Peer(e)]
  <2>1. failed' = [failed EXCEPT ![e] = @ \/ "MDL_ERROR" \in prims]
    BY DEF Tell
  <2> QED
    BY <2>1, Peers DEF TypeInv
<1>5. CASE e = "ms"
  <2>1. Linked(d, dl["bts"], <<>>, <<>>, TRUE, FALSE)
    BY <1>1, <1>5, MsGivesUp
  <2> QED
    BY <1>1, <1>2, <1>3, <1>4, <1>5, <2>1 DEF LinkInv, Peer
<1>6. CASE e = "bts"
  <2>1. Linked(dl["ms"], d, <<>>, <<>>, FALSE, TRUE)
    BY <1>1, <1>6, BtsGivesUp
  <2> QED
    BY <1>1, <1>2, <1>3, <1>4, <1>6, <2>1 DEF LinkInv, Peer
<1> QED
  BY <1>5, <1>6 DEF Entities

LEMMA LinkT200EstRel ==
  ASSUME TypeInv, OpenInv, LinkInv, NEW e \in Entities, T200EstRel(e), NoneUnderWay
  PROVE  LinkInv'
<1> DEFINE d == Stop(dl[e])
           again == [d EXCEPT !.ctr = @ + 1, !.t200 = TRUE]
           u == U(IF d.state = "SABM_SENT" THEN "SABM" ELSE "DISC", TRUE, d.content)
           end == {"MDL_ERROR", IF d.state = "SABM_SENT" THEN "REL_IND" ELSE "REL_CONF"}
<1>1. dl[e] \in Datalinks
  BY DEF TypeInv
<1>2. d \in Datalinks /\ Kept(dl[e], d)
  BY <1>1, HandlerStates
<1>3. /\ MayExpire(e)
      /\ d.state \in {"SABM_SENT", "DISC_SENT"}
      /\ \/ Send(e, ToIdle(d), <<>>) /\ Tell(e, end)
         \/ Send(e, again, <<u>>) /\ failed' = failed
  BY DEF T200EstRel
<1>4. "MDL_ERROR" \in end
  OBVIOUS
<1> HIDE DEF d, end
<1>5. CASE Send(e, ToIdle(d), <<>>) /\ Tell(e, end)
  <2>1. SameReceiver(dl[e], ToIdle(d)) /\ ToIdle(d).state = "IDLE" /\ Flushed(ToIdle(d))
    BY <1>2, HandlerStates DEF Closed, Kept, SameData, SameReceiver
  <2> QED
    BY <1>3, <1>4, <1>5, <2>1, LinkGivenUp
<1>6. CASE Send(e, again, <<u>>) /\ failed' = failed
  <2>1. again.state = dl[e].state /\ SameData(dl[e], again)
    BY <1>2 DEF Datalinks, Kept, SameData, SameReceiver
  <2> HIDE DEF again
  <2>2. u \in Frames /\ u.k = IF d.state = "SABM_SENT" THEN "SABM" ELSE "DISC"
    <3>1. d.content \in Contents \cup {"none"}
      BY <1>2 DEF Datalinks
    <3> QED
      BY <1>2, <3>1, FramesMade DEF U
  <2> HIDE DEF u
  <2>3. One(<<u>>, IF d.state = "SABM_SENT" THEN "SABM" ELSE "DISC")
    BY <2>2 DEF One
  <2>4. /\ failed["ms"] = FALSE /\ failed["bts"] = FALSE
        /\ pipe["ms"] = <<>> /\ pipe["bts"] = <<>>
        /\ Linked(dl["ms"], dl["bts"], <<>>, <<>>, FALSE, FALSE)
    BY <1>3, LinkExpires
  <2>5. /\ dl'[e] = again /\ dl'[Peer(e)] = dl[Peer(e)]
        /\ pipe'[e] = pipe[e] \o <<u>> /\ pipe'[Peer(e)] = pipe[Peer(e)]
    BY <1>6, LinkSent
  <2>6. CASE e = "ms"
    <3>1. dl["ms"].state = "SABM_SENT" /\ d.state = "SABM_SENT"
      BY <1>2, <1>3, <2>4, <2>6 DEF Linked, Control, MsAnswers, Kept
    <3>2. /\ dl["ms"].vr = 0 /\ dl["ms"].rcv = <<>> /\ dl["ms"].queue = <<>> /\ dl["ms"].buf = "none"
          /\ dl["bts"].vr = 0 /\ dl["bts"].rcv = <<>>
          /\ dl["bts"].state = "IDLE" => Flushed(dl["bts"])
      BY <2>4, <3>1 DEF Linked, Control, Waits
    <3>3. /\ SameReceiver(dl["ms"], again) /\ again.state = "SABM_SENT" /\ again.vr = 0
          /\ again.rcv = <<>> /\ again.queue = <<>> /\ again.buf = "none"
      BY <2>1, <2>6, <3>1, <3>2 DEF SameData, SameReceiver
    <3>4. One(<<u>>, "SABM")
      BY <2>3, <3>1
    <3>5. Linked(again, dl["bts"], <<>> \o <<u>>, <<>>, FALSE, FALSE)
      BY <2>4, <3>2, <3>3, <3>4, MsCalls
    <3> QED
      BY <1>6, <2>4, <2>5, <2>6, <3>5 DEF LinkInv, Peer
  <2>7. CASE e = "bts"
    <3>1. dl["bts"].state = "DISC_SENT" /\ d.state = "DISC_SENT"
      BY <1>2, <1>3, <2>7 DEF OpenInv, Kept
    <3>2. again.state = "DISC_SENT" /\ SameReceiver(dl["bts"], again) /\ One(<<u>>, "DISC")
      BY <2>1, <2>3, <2>7, <3>1 DEF SameData
    <3>3. <<>> \in Seq(Frames)
      BY ShortSequences
    <3>4. Linked(dl["ms"], again, <<>>, <<>> \o <<u>>, FALSE, FALSE)
      BY <2>4, <3>1, <3>2, <3>3, BtsReleases
    <3> QED
      BY <1>6, <2>4, <2>5, <2>7, <3>4 DEF LinkInv, Peer
  <2> QED
    BY <2>6, <2>7 DEF Entities
<1> QED
  BY <1>3, <1>5, <1>6

LEMMA LinkT200Recovery ==
  ASSUME TypeInv, OpenInv, LinkInv, NEW e \in Entities, T200Recovery(e), NoneUnderWay
  PROVE  LinkInv'
<1> DEFINE d == InRecovery(dl[e])
           again == [d EXCEPT !.t200 = TRUE]
           out == Poll(d)
           end == {"MDL_ERROR"}
<1>1. dl[e] \in Datalinks /\ dl[e].state \in Established
  BY RecoveryCases DEF TypeInv
<1>2. /\ d \in Datalinks /\ d.state = "TIMER_RECOV" /\ SameReceiver(dl[e], d)
      /\ d.vs = dl[e].vs /\ d.va = dl[e].va /\ d.hist = dl[e].hist
      /\ d.buf = dl[e].buf /\ d.out = dl[e].out
  BY <1>1, InRecoveryFields DEF SameReceiver
<1>3. /\ MayExpire(e)
      /\ \/ Send(e, d, <<>>) /\ Tell(e, end)
         \/ Send(e, again, out) /\ failed' = failed
  BY RecoveryCases
<1> HIDE DEF d
<1>4. SameSender(d, again) /\ SameReceiver(d, again)
  BY <1>2 DEF Datalinks, SameSender, SameReceiver
<1> HIDE DEF again
<1>5. CASE Send(e, d, <<>>) /\ Tell(e, end)
  BY <1>1, <1>2, <1>3, <1>5, LinkGivenUp
<1>6. CASE Send(e, again, out) /\ failed' = failed
  <2>1. /\ failed["ms"] = FALSE /\ failed["bts"] = FALSE
        /\ pipe["ms"] = <<>> /\ pipe["bts"] = <<>>
        /\ Linked(dl["ms"], dl["bts"], <<>>, <<>>, FALSE, FALSE)
    BY <1>3, LinkExpires
  <2>2. /\ dl'[e] = again /\ dl'[Peer(e)] = dl[Peer(e)]
        /\ pipe'[e] = pipe[e] \o out /\ pipe'[Peer(e)] = pipe[Peer(e)]
    BY <1>6, LinkSent
  <2>3. dl["ms"] \in Datalinks /\ dl["bts"] \in Datalinks
    BY LinkEnds
  <2>4. CASE e = "ms"
    <3>1. Linked(again, dl["bts"], <<>> \o out, <<>>, FALSE, FALSE)
      BY <1>1, <1>2, <1>4, <2>1, <2>3, <2>4, MsPolls
    <3> QED
      BY <1>6, <2>1, <2>2, <2>4, <3>1 DEF LinkInv, Peer
  <2>5. CASE e = "bts"
    <3>1. Linked(dl["ms"], again, <<>>, <<>> \o out, FALSE, FALSE)
      BY <1>1, <1>2, <1>4, <2>1, <2>3, <2>5, BtsPolls
    <3> QED
      BY <1>6, <2>1, <2>2, <2>5, <3>1 DEF LinkInv, Peer
  <2> QED
    BY <2>4, <2>5 DEF Entities
<1> QED
  BY <1>3, <1>5, <1>6

LEMMA LinkEstReq ==
  ASSUME TypeInv, OpenInv, LinkInv, OneLink, NEW e \in Entities, EstReq(e)
  PROVE  LinkInv'
<1>1. e = "ms" /\ asked["ms"] = 0 /\ Untouched
  BY DEF EstReq, OneLink, OpenInv, TypeInv
<1>2. PICK c \in Contents :
        /\ LET d == [FlushHist(FlushSend(dl[e])) EXCEPT !.rcv = <<>>, !.vs = 0, !.ctr = 0] IN
           Send(e, [NewState(d, "SABM_SENT") EXCEPT !.content = c, !.t200 = TRUE], <<U("SABM", TRUE, c)>>)
        /\ Attended /\ failed' = [failed EXCEPT ![e] = FALSE]
  BY DEF EstReq
<1> DEFINE x == FlushHist(FlushSend(dl["ms"]))
           d == Opened(x, c)
           out == <<U("SABM", TRUE, c)>>
<1>3. Send("ms", d, out) /\ failed' = [failed EXCEPT !["ms"] = FALSE]
  BY <1>1, <1>2 DEF Opened
<1>4. dl["ms"] = Datalink /\ dl["bts"] = Datalink /\ pipe["ms"] = <<>> /\ pipe["bts"] = <<>>
  BY <1>1 DEF Untouched, Entities
<1>5. x \in Datalinks /\ x.vr = 0 /\ x.queue = <<>> /\ x.buf = "none"
  <2>1. x \in Datalinks
    BY FlushType DEF TypeInv, Entities
  <2> QED
    BY <1>4, <2>1 DEF FlushHist, FlushSend, Datalink
<1> HIDE DEF x
<1>6. d.state = "SABM_SENT" /\ d.vr = 0 /\ d.rcv = <<>> /\ d.queue = <<>> /\ d.buf = "none"
  <2>1. PICK k \in {"none", x.contres} :
          d = [x EXCEPT !.rcv = <<>>, !.vs = 0, !.ctr = 0, !.state = "SABM_SENT",
                        !.contres = k, !.content = c, !.t200 = TRUE]
    BY <1>5, OpenedFields, ZenonT(60)
  <2> HIDE DEF d
  <2> QED
    BY <1>5, <2>1 DEF Datalinks
<1> HIDE DEF d
<1>7. One(out, "SABM")
  <2>1. U("SABM", TRUE, c) \in Frames /\ U("SABM", TRUE, c).k = "SABM"
    BY DEF U, Frames
  <2> QED
    BY <2>1 DEF One
<1> HIDE DEF out
<1>8. /\ dl'["ms"] = d /\ dl'["bts"] = dl["bts"]
      /\ pipe'["ms"] = pipe["ms"] \o out /\ pipe'["bts"] = pipe["bts"]
  BY <1>3, LinkSent DEF Entities, Peer
<1>9. /\ failed["ms"] = FALSE /\ failed["bts"] = FALSE
      /\ Linked(dl["ms"], dl["bts"], <<>>, <<>>, FALSE, FALSE)
  BY <1>2, <1>4, LinkAttended
<1>10. failed'["ms"] = FALSE /\ failed'["bts"] = FALSE
  BY <1>3, <1>9 DEF TypeInv, Entities
<1>11. /\ SameReceiver(dl["ms"], d) /\ dl["bts"].vr = 0 /\ dl["bts"].rcv = <<>> /\ Flushed(dl["bts"])
  BY <1>4, <1>6 DEF SameReceiver, Flushed, Datalink
<1>12. Linked(d, dl["bts"], <<>> \o out, <<>>, FALSE, FALSE)
  BY <1>6, <1>7, <1>9, <1>11, MsCalls
<1> QED
  BY <1>4, <1>8, <1>10, <1>12 DEF LinkInv

LEMMA LinkInvStep ==
  ASSUME TypeInv, LateInv, OpenInv, LinkInv, OneLink, [LapdNext]_vars, late' = 0
  PROVE  LinkInv'
<1>1. ASSUME NEW e \in Entities, T200(e) PROVE LinkInv'
  <2>1. NoneUnderWay
    BY <1>1, InTimeExpiry DEF T200, T200EstRel, T200Recovery
  <2> QED
    BY <1>1, <2>1, LinkT200EstRel, LinkT200Recovery DEF T200
<1>2. CASE UNCHANGED vars
  BY <1>2 DEF vars, LinkInv
<1>3. ASSUME NEW e \in Entities, NEW m \in Msgs, DataReq(e, m) PROVE LinkInv'
  BY <1>3, LinkDataReq
<1>4. ASSUME NEW e \in Entities, EstReq(e) \/ RelReq(e) \/ LocalRelease(e) PROVE LinkInv'
  BY <1>4, LinkEstReq, LinkRelReq, LinkLocalRelease
<1>5. ASSUME NEW e \in Entities, Receive(e) \/ Lose(e) PROVE LinkInv'
  BY <1>5, LinkReceive, LinkLose
<1>6. CASE Collide
  BY <1>6, LinkCollide
<1> QED
  BY <1>1, <1>2, <1>3, <1>4, <1>5, <1>6 DEF LapdNext, InTime

(* The next frame that an end of an established link expects is the next its
   peer sends or the one it would repeat, and no entity repeats a command more
   often than allowed: neither losses nor timeouts, an error that layer 3
   answers with a local release, nor a release that crosses data make the
   sequence numbers of the two ends disagree (lapd_send_i, lapd_acknowledge,
   lapd_rx_i, lapd_t200_cb), for every range of the numbers, every limit of
   repetitions and any number of losses, when the mobile establishes the link
   once and as long as T200 has not expired with a frame still under way. *)
THEOREM InStepAlways ==
  OneLink => (Spec => [](late = 0 => TypeOK))
<1> SUFFICES ASSUME OneLink PROVE Spec => [](late = 0 => TypeOK)
  OBVIOUS
<1>1. TypeInv /\ LateInv /\ (late = 0 => OpenInv) /\ [LapdNext]_vars => (late = 0 => OpenInv)'
  BY OpenStep, LateStep
<1>2. TypeInv /\ LateInv /\ (late = 0 => OpenInv /\ LinkInv) /\ [LapdNext]_vars => (late = 0 => LinkInv)'
  BY LinkInvStep, LateStep
<1>3. TypeInv /\ LateInv /\ LinkInv => TypeOK
  <2> SUFFICES ASSUME TypeInv, LateInv, LinkInv PROVE TypeOK
    OBVIOUS
  <2>1. ASSUME dl["ms"].state \in Established, dl["bts"].state \in Established
        PROVE  /\ dl["bts"].vr \in {dl["ms"].va, dl["ms"].vs}
               /\ dl["ms"].vr \in {dl["bts"].va, dl["bts"].vs}
    BY <2>1 DEF LinkInv, Linked, Side
  <2>2. InStep
    BY <2>1 DEF InStep, Established, Entities, Peer
  <2>3. \A e \in Entities : dl[e].state \in {"SABM_SENT", "DISC_SENT"} => dl[e].ctr <= N200EstRel
    BY DEF TypeInv, Fit
  <2> QED
    BY <2>2, <2>3 DEF TypeInv, LateInv, TypeOK
<1> QED
  BY <1>1, <1>2, <1>3, OpenInit, LinkInit, TypesHold, PTL DEF Spec

-----------------------------------------------------------------------------
(* The link as long as no frame is lost: m and n are the data links of the
   mobile and of the base station, s and a the frames that they have under way. *)

(* T200 runs only while an answer is due. *)
Due(d) == d.t200 => d.vs # d.va
Timed(d) ==
  /\ d.state # "TIMER_RECOV"
  /\ d.state = "IDLE" => ~d.t200
  /\ d.state = "MF_EST" => Due(d)

(* Nothing is refused, and nothing polls. *)
Plain(s) == \A f \in Within(s) : f.k \notin {"DM", "REJ"} /\ (f.f <=> ~Numbered(f))

(* A mobile that waits for its UA has its SABM or the UA under way. *)
Called(m, n, s, a) ==
  /\ \A f \in Within(s) : f.k = "SABM" => m.state = "SABM_SENT" /\ f.info = m.content
  /\ m.state = "SABM_SENT" =>
       \/ s # <<>> /\ n.state = "IDLE" /\ a = <<>>
       \/ s = <<>> /\ a # <<>> /\ Head(a).k = "UA" /\ Head(a).info = m.content /\ n.state # "IDLE"

(* A base station that waits for its UA has its DISC or the UA under way. *)
Discs == {f \in Frames : f.k = "DISC"}
Left(m, n, s, a) ==
  /\ n.state = "DISC_SENT" => ~Lacks(a, {"DISC"}) \/ ~Lacks(s, {"UA"})
  /\ ~Lacks(a, {"DISC"}) => n.state = "DISC_SENT" /\ m.state \in {"SABM_SENT", "MF_EST"}
  /\ m.state = "MF_EST" => n.state = "MF_EST" \/ ~Lacks(a, {"DISC"})
  /\ n.state = "MF_EST" => m.state \in {"SABM_SENT", "MF_EST"}
  /\ ~Lacks(s, {"UA"}) => m.state = "IDLE"
  /\ AtMostOne(a, Discs)

(* d, which has sent an I frame, has that or its acknowledgement under way,
   unless its peer q has given up the link. *)
AckUnderWay(d, a) == \E g \in Within(a) : Numbered(g) /\ g.nr = d.vs
Moves(d, q, s, a) ==
  d.state = "MF_EST" /\ d.vs # d.va =>
    \/ q.vr = d.va /\ ~Lacks(s, {"I"})
    \/ AckUnderWay(d, a)
    \/ ~Lacks(a, {"DISC"})

Calm(m, n, s, a) ==
  /\ Timed(m) /\ Timed(n) /\ Plain(s) /\ Plain(a)
  /\ Called(m, n, s, a) /\ Left(m, n, s, a)
  /\ Moves(m, n, s, a) /\ Moves(n, m, a, s)

(* lapd_acknowledge stops T200 when all is acknowledged. *)
LEMMA AcknowledgeDue ==
  ASSUME NEW d \in Datalinks, d.state # "TIMER_RECOV", Window(d), Due(d),
         NEW f, f.nr \in Numbers, f.nr \in {d.va, d.vs}, f.k # "REJ",
         Acknowledge(d, f).t200
  PROVE  d.vs # f.nr
<1> DEFINE b == [Acked(d, f.nr) EXCEPT !.va = f.nr]
<1>1. /\ d.va \in Numbers /\ d.vs \in Numbers /\ d.hist \in [1..2 -> Segment \cup {None}]
      /\ d.t200 \in BOOLEAN
  BY DEF Datalinks
<1>2. b \in Datalinks /\ b.hist = Acked(d, f.nr).hist /\ b.t200 = d.t200
  <2>1. /\ Acked(d, f.nr).hist \in [1..2 -> Segment \cup {None}]
        /\ Acked(d, f.nr) = [d EXCEPT !.hist = Acked(d, f.nr).hist]
    BY AckedFields
  <2> DEFINE h == Acked(d, f.nr).hist
  <2>2. b = [[d EXCEPT !.hist = h] EXCEPT !.va = f.nr]
    BY <2>1
  <2>3. h \in [1..2 -> Segment \cup {None}]
    BY <2>1
  <2> HIDE DEF h, b
  <2>4. b \in Datalinks /\ b.hist = h /\ b.t200 = d.t200
    BY <2>2, <2>3 DEF Datalinks
  <2> QED
    BY <2>4 DEF h
<1>3. Acknowledge(d, f) =
        [b EXCEPT !.t200 = IF f.nr # d.va THEN b.hist[H(Dec(d.vs))] # None ELSE b.t200]
  BY DEF Acknowledge
<1> HIDE DEF b
<1>4. Acknowledge(d, f).t200 = IF f.nr # d.va THEN b.hist[H(Dec(d.vs))] # None ELSE d.t200
  BY <1>2, <1>3 DEF Datalinks
<1>5. CASE f.nr = d.va
  BY <1>4, <1>5 DEF Due
<1>6. CASE f.nr # d.va
  <2>1. \A h \in 1..2 : b.hist[h] = None
    BY <1>2, <1>6, AckedAll
  <2>2. H(Dec(d.vs)) \in 1..2
    BY <1>1, NumbersWrap
  <2> QED
    BY <1>4, <1>6, <2>1, <2>2
<1> QED
  BY <1>5, <1>6

(* lapd_send_i starts T200 when it sends. *)
LEMMA SendIDue ==
  ASSUME NEW d \in Datalinks, d.state = "MF_EST", Window(d), Due(d)
  PROVE  Timed(SendI(d).d)
<1> DEFINE x == SendI(d).d
<1>1. x.state = "MF_EST"
  BY SendIKeeps
<1>2. CASE SendsNothing(d, x, SendI(d).out)
  <2>1. x.t200 = d.t200
    <3>1. Loaded(d).t200 = d.t200
      BY DEF Loaded, Datalinks
    <3>2. SendI(d).out = <<>>
      BY <1>2 DEF SendsNothing
    <3>3. \A i : <<i>> # <<>>
      OBVIOUS
    <3> QED
      BY <3>1, <3>2, <3>3 DEF SendI
  <2> QED
    BY <1>1, <1>2, <2>1 DEF SendsNothing, Timed, Due
<1>3. ASSUME NEW m, NEW n, Sends(d, x, SendI(d).out, m, n) PROVE x.vs # x.va
  BY <1>3, NumbersWrap DEF Sends, Datalinks
<1> QED
  BY <1>1, <1>2, <1>3, SendICases DEF Timed, Due, Established

(* An established entity takes a supervisory or I frame of such a link. *)
Takes(d, f, x, out) ==
  \E y, answer : /\ Handles(d, y, answer, f) /\ Due(y)
                 /\ x = SendI(y).d /\ out = answer \o SendI(y).out
                 /\ f.k = "I" => out # <<>>
LEMMA CalmTakes ==
  ASSUME TypeInv, NEW e \in Entities, pipe[Peer(e)] # <<>>, Supervisory(e) \/ Information(e),
         dl[e].state = "MF_EST", Timed(dl[e]), Window(dl[e]),
         NEW f, f = Head(pipe[Peer(e)]), f.k # "REJ", f.k = "I" => f.ns = dl[e].vr,
         f.nr \in {dl[e].va, dl[e].vs}
  PROVE  \E x, out : /\ Takes(dl[e], f, x, out)
                     /\ Reply(e, x, out, Alarm((f.k # "I" /\ Unexpected(dl[e], f)) \/ SeqError(dl[e], f.nr)))
<1> DEFINE d == dl[e]
           c == (f.k # "I" /\ Unexpected(d, f)) \/ SeqError(d, f.nr)
<1>1. f \in Frames /\ d \in Datalinks /\ d.state \in Established /\ d.state \notin Inactive /\ d.state = "MF_EST"
  BY HeadType DEF TypeInv, Established, Inactive
<1>2. Window(d) /\ Due(d) /\ f.nr \in {d.va, d.vs} /\ f.nr \in Numbers
  BY <1>1 DEF Timed, Datalinks
<1>3. CASE Supervisory(e)
  <2>1. /\ f.k = "RR"
        /\ Reply(e, SendI(AfterRR(d, f)).d, AnswerRR(d, f) \o SendI(AfterRR(d, f)).out,
                 Alarm(Unexpected(d, f) \/ SeqError(d, f.nr)))
    BY <1>1, <1>3, SupervisoryCases
  <2>2. (Unexpected(d, f) \/ SeqError(d, f.nr)) = c
    BY <2>1
  <2> HIDE DEF d, c
  <2>3. Handles(d, AfterRR(d, f), AnswerRR(d, f), f)
    BY <1>1, <2>1, HandlesRR
  <2>4. AfterRR(d, f) = Acknowledge(d, f)
    BY <1>1 DEF AfterRR
  <2>5. Due(AfterRR(d, f))
    BY <1>1, <1>2, <2>1, <2>4, AcknowledgeDue, AcknowledgeKeeps DEF Due
  <2>6. Takes(d, f, SendI(AfterRR(d, f)).d, AnswerRR(d, f) \o SendI(AfterRR(d, f)).out)
    BY <2>1, <2>3, <2>5 DEF Takes
  <2> QED
    BY <2>1, <2>2, <2>6 DEF d, c
<1>4. CASE Information(e)
  <2> DEFINE y == AfterNext(d, f)
             o == SendI(y).out
             out == AnswerNext(d, f, o) \o o
  <2>1. f.k = "I" /\ Expected(d, f) /\ Reply(e, SendI(y).d, out, Alarm(SeqError(d, f.nr)))
    BY <1>1, <1>4, InformationCases DEF Expected
  <2>2. SeqError(d, f.nr) = c
    BY <2>1 DEF SeqError
  <2>3. f.seg \in Segment
    BY <1>1, <2>1, FrameKinds DEF IFrames
  <2> HIDE DEF d, c
  <2>4. Handles(d, y, AnswerNext(d, f, o), f) /\ (AnswerNext(d, f, o) # <<>> \/ o # <<>>)
    BY <1>1, <2>1, HandlesNext DEF Expected
  <2>5. AnswerNext(d, f, o) \in Seq(Frames) /\ o \in Seq(Frames)
    BY <2>4, AnswersParts, SendIType DEF Handles
  <2>6. out # <<>>
    BY <2>4, <2>5
  <2>7. Due(y)
    <3> DEFINE v == Inc(d.vr)
               b == [d EXCEPT !.err = 0, !.vr = v]
               z == Acknowledge(b, f)
    <3>1. v \in Numbers
      BY <1>1, NumbersWrap DEF Datalinks
    <3>3. y = [z EXCEPT !.rcv = IF More(f.seg) THEN Append(@, f.seg) ELSE <<>>]
      BY DEF AfterNext
    <3> HIDE DEF v, y, z
    <3>2. /\ b \in Datalinks /\ b.state = d.state /\ b.vs = d.vs /\ b.va = d.va /\ b.hist = d.hist
          /\ b.buf = d.buf /\ b.out = d.out /\ b.t200 = d.t200
      <4>1. 0 \in 0..2
        OBVIOUS
      <4>2. b \in Datalinks
        BY <1>1, <3>1, <4>1 DEF Datalinks
      <4> QED
        BY <1>1, <4>2 DEF Datalinks
    <3> HIDE DEF b
    <3>4. Window(b) /\ Due(b) /\ f.nr \in {b.va, b.vs} /\ b.state # "TIMER_RECOV"
      BY <1>1, <1>2, <3>2 DEF Window, Due, Latest
    <3>5. z.t200 => b.vs # f.nr
      BY <1>2, <2>1, <3>2, <3>4, AcknowledgeDue DEF z
    <3>6. z \in Datalinks /\ z.vs = b.vs /\ z.va = f.nr
      BY <1>2, <3>2, AcknowledgeKeeps DEF z
    <3>7. y.t200 = z.t200 /\ y.vs = z.vs /\ y.va = z.va
      BY <3>3, <3>6 DEF Datalinks
    <3> QED
      BY <3>5, <3>6, <3>7 DEF Due
  <2> HIDE DEF y
  <2>8. Takes(d, f, SendI(y).d, out)
    BY <2>4, <2>6, <2>7 DEF Takes
  <2> QED
    BY <2>1, <2>2, <2>8 DEF d, c
<1> QED
  BY <1>3, <1>4

LEMMA HeadOrTail ==
  ASSUME NEW s \in Seq(Frames), s # <<>>
  PROVE  \A g \in Within(s) : g = Head(s) \/ g \in Within(Tail(s))
<1> SUFFICES ASSUME NEW i \in 1..Len(s), s[i] # Head(s) PROVE s[i] \in Within(Tail(s))
  BY DEF Within
<1>1. i # 1 /\ Len(Tail(s)) = Len(s) - 1
  OBVIOUS
<1>2. i - 1 \in 1..Len(Tail(s)) /\ Tail(s)[i - 1] = s[i]
  BY <1>1
<1> QED
  BY <1>2 DEF Within

(* Frames that acknowledge all up to v. *)
AllNumbered(out) == \A g \in Within(out) : Numbered(g)
Answering(out, v) == \A g \in Within(out) : Numbered(g) /\ g.nr = v

(* Both directions go on. *)
Going(x) == x.state = "MF_EST" /\ Timed(x)
LEMMA TakesMoves ==
  ASSUME NEW d \in Datalinks, NEW q \in Datalinks, NEW s \in Seq(Frames), NEW a \in Seq(Frames),
         d.state = "MF_EST", Side(d, q, s, a, FALSE), Side(q, d, a, s, FALSE), a # <<>>,
         Numbered(Head(a)), Head(a).k # "REJ", ~Head(a).f,
         NEW x, NEW out, Takes(d, Head(a), x, out),
         Moves(d, q, s, a), Moves(q, d, a, s)
  PROVE  /\ out \in Seq(Frames) /\ Going(x)
         /\ Plain(out) /\ AllNumbered(out)
         /\ Moves(x, q, s \o out, Tail(a))
         /\ Moves(q, x, Tail(a), s \o out)
<1> DEFINE f == Head(a)
<1>1. PICK y, answer : /\ Handles(d, y, answer, f) /\ Due(y)
                       /\ x = SendI(y).d /\ out = answer \o SendI(y).out
                       /\ f.k = "I" => out # <<>>
  BY DEF Takes
<1> DEFINE o == SendI(y).out
<1>2. /\ Direction(y, q, s \o answer, Tail(a)) /\ y \in Datalinks /\ y.state = "MF_EST"
      /\ y.vs = d.vs /\ y.va = f.nr
      /\ answer \in Seq(Frames) /\ o \in Seq(Frames)
      /\ x.state = "MF_EST" /\ Timed(x) /\ Hears(d, x, f)
      /\ Plain(answer \o o) /\ Answering(answer \o o, x.vr)
  <2>1. f \in Within(a) /\ f \in Frames /\ f \notin Finals /\ f \notin Polls
    BY TailParts DEF Finals, Polls
  <2>2. d.state \in Established /\ Direction(d, q, s, a) /\ AtMostOne(s, IFrames)
    BY DEF Side, Established
  <2>3. Handles(d, y, answer, Head(a))
    BY <1>1
  <2>4. Direction(y, q, s \o answer, Tail(a)) /\ y \in Datalinks
    BY <2>2, <2>3, OwnDirection
  <2>5. answer \in Seq(Frames) /\ o \in Seq(Frames)
    BY <2>2, <2>3, OwnDirection
  <2>6. GoesOn(o, y.vr)
    BY <2>2, <2>3, OwnDirection
  <2>7. y.state = "MF_EST" /\ y.vs = d.vs /\ y.va = f.nr
    BY <1>1, <2>1 DEF Handles
  <2>8. x.vr = y.vr /\ x.rcv = y.rcv /\ x.state = "MF_EST"
    BY <1>1, <2>4, <2>7, SendIKeeps
  <2>9. Timed(x)
    <3>1. Window(y)
      BY <2>4 DEF Direction
    <3> QED
      BY <1>1, <2>4, <2>7, <3>1, SendIDue
  <2>10. Hears(d, x, f)
    BY <1>1, <2>8 DEF Handles, Hears, SameReceiver
  <2>11. f.k = "I" => f.ns = d.vr
    BY <2>1 DEF Side
  <2>12. ASSUME NEW g \in Within(answer)
         PROVE  g.k = "RR" /\ g.nr = x.vr /\ ~g.f
    <3>1. Answers(d, y, answer, f)
      BY <1>1 DEF Handles
    <3>2. /\ g.k \in {"RR", "REJ"} /\ g.nr = y.vr
          /\ g.f => f \in Polls
          /\ g.k = "REJ" => f.k = "I" /\ f.ns # d.vr
      BY <2>12, <3>1, AnswersParts
    <3> QED
      BY <2>1, <2>8, <2>11, <3>2
  <2>13. Within(answer \o o) = Within(answer) \cup Within(o)
    BY <2>5, WithinParts
  <2>14. \A g \in Within(answer \o o) : g.k \in {"RR", "I"} /\ g.nr = x.vr /\ ~g.f
    BY <2>6, <2>8, <2>12, <2>13 DEF GoesOn
  <2>15. Plain(answer \o o) /\ Answering(answer \o o, x.vr)
    BY <2>14 DEF Plain, Numbered, Answering
  <2> QED
    BY <2>4, <2>5, <2>7, <2>8, <2>9, <2>10, <2>15
<1>3. out = answer \o o /\ out \in Seq(Frames) /\ Plain(out) /\ (\A g \in Within(out) : Numbered(g) /\ g.nr = x.vr)
  BY <1>1, <1>2 DEF Answering
<1>4. /\ f \in Within(a) /\ Tail(a) \in Seq(Frames)
      /\ \A g \in Within(a) : g = f \/ g \in Within(Tail(a))
  BY HeadOrTail, TailParts
<1>5. Within(s \o out) = Within(s) \cup Within(out) /\ Within(out) = Within(answer) \cup Within(o)
  <2>1. Within(s \o out) = Within(s) \cup Within(out)
    BY <1>3, JoinParts
  <2>2. Within(answer \o o) = Within(answer) \cup Within(o)
    BY <1>2, JoinParts
  <2> QED
    BY <1>3, <2>1, <2>2
<1>6. Direction(d, q, s, a) /\ f.nr \in {d.va, d.vs}
  <2>1. Direction(d, q, s, a)
    BY DEF Side, Established
  <2> QED
    BY <1>4, <2>1 DEF Direction, Acks
<1>7. Moves(x, q, s \o out, Tail(a))
  <2>1. CASE SendsNothing(y, x, o)
    <3>1. x.vs = d.vs /\ x.va = f.nr
      BY <1>2, <2>1 DEF SendsNothing
    <3>2. CASE f.nr = d.va /\ d.vs # d.va
      <4>1. ASSUME NEW g \in Within(a), Numbered(g), g.nr = d.vs PROVE g \in Within(Tail(a))
        BY <1>4, <3>2, <4>1
      <4>2. ASSUME NEW g \in Within(a), g.k = "DISC" PROVE g \in Within(Tail(a))
        BY <1>4, <4>2 DEF Numbered
      <4> QED
        BY <1>5, <3>1, <3>2, <4>1, <4>2 DEF Moves, AckUnderWay, Lacks
    <3> QED
      BY <1>6, <3>1, <3>2 DEF Moves
  <2>2. ASSUME NEW k, NEW n, Sends(y, x, o, k, n) PROVE Moves(x, q, s \o out, Tail(a))
    <3>1. x.va = y.va /\ y.vs = y.va
      BY <2>2 DEF Sends
    <3>2. q.vr = y.va
      <4>1. s \o answer \in Seq(Frames)
        BY <1>2
      <4> QED
        BY <1>2, <1>4, <3>1, <4>1, NothingSent
    <3>3. \E g \in Within(o) : g.k = "I"
      <4> DEFINE h == [k |-> "I", f |-> FALSE, ns |-> y.vs, nr |-> y.vr, seg |-> Segm(k, n + 1)]
      <4>1. o = <<h>> /\ h.k = "I"
        BY <2>2 DEF Sends
      <4> HIDE DEF h
      <4>2. o # <<>> /\ Head(o) = h
        BY <4>1
      <4>3. h \in Within(o)
        BY <1>2, <4>2, TailParts
      <4> QED
        BY <4>1, <4>3
    <3> QED
      BY <1>5, <3>1, <3>2, <3>3 DEF Moves, Lacks
  <2>3. Window(y)
    BY <1>2 DEF Direction
  <2> QED
    BY <1>1, <1>2, <2>1, <2>2, <2>3, SendICases DEF Established
<1>8. Moves(q, x, Tail(a), s \o out)
  <2> SUFFICES ASSUME q.state = "MF_EST", q.vs # q.va
               PROVE  \/ x.vr = q.va /\ ~Lacks(Tail(a), {"I"})
                      \/ AckUnderWay(q, s \o out)
                      \/ ~Lacks(s \o out, {"DISC"})
    BY DEF Moves
  <2>1. CASE AckUnderWay(q, s) \/ ~Lacks(s, {"DISC"})
    BY <1>5, <2>1 DEF AckUnderWay, Lacks
  <2>2. CASE d.vr = q.va /\ ~Lacks(a, {"I"})
    <3>1. CASE f.k = "I"
      <4>1. f.ns = d.vr
        BY <1>4, <3>1 DEF Side
      <4>2. Direction(q, d, a, s)
        BY DEF Side, Established
      <4>3. q.vs = Inc(d.vr)
        BY <1>4, <3>1, <4>1, <4>2, ExpectedFrame
      <4>4. x.vr = Inc(d.vr)
        BY <1>2, <3>1, <4>1 DEF Hears
      <4>5. out # <<>>
        BY <1>1, <3>1
      <4>6. Head(out) \in Within(out)
        BY <1>3, <4>5, TailParts
      <4> QED
        BY <1>3, <1>5, <4>3, <4>4, <4>6 DEF AckUnderWay
    <3>2. CASE f.k # "I"
      <4>1. x.vr = d.vr
        BY <1>2, <3>2 DEF Hears, SameReceiver
      <4> QED
        BY <1>4, <2>2, <3>2, <4>1 DEF Lacks
    <3> QED
      BY <3>1, <3>2
  <2> QED
    BY <2>1, <2>2 DEF Moves
<1> QED
  BY <1>2, <1>3, <1>7, <1>8 DEF AllNumbered, Going

(* Frames added and taken away. *)
LEMMA PlainParts ==
  ASSUME NEW s \in Seq(Frames), NEW t \in Seq(Frames)
  PROVE  /\ Plain(<<>>)
         /\ Plain(s) /\ Plain(t) => Plain(s \o t)
         /\ Plain(s) /\ s # <<>> => Plain(Tail(s))
  BY NoFrame, JoinParts, TailParts DEF Plain

LEMMA KindKept ==
  ASSUME NEW s \in Seq(Frames), NEW t \in Seq(Frames), NEW k, Lacks(t, {k})
  PROVE  /\ Lacks(s \o t, {k}) <=> Lacks(s, {k})
         /\ s # <<>> /\ Head(s).k # k => (Lacks(Tail(s), {k}) <=> Lacks(s, {k}))
<1>1. Within(s \o t) = Within(s) \cup Within(t)
  BY JoinParts
<1>2. s # <<>> => /\ Within(Tail(s)) \subseteq Within(s)
                  /\ \A g \in Within(s) : g = Head(s) \/ g \in Within(Tail(s))
  BY TailParts, HeadOrTail
<1> QED
  BY <1>1, <1>2 DEF Lacks

LEMMA NumberedKinds ==
  ASSUME NEW t, AllNumbered(t)
  PROVE  /\ Lacks(t, {"DISC"}) /\ Lacks(t, {"UA"}) /\ Lacks(t, {"SABM"})
         /\ Within(t) \cap Discs = {}
  BY DEF Lacks, Numbered, Discs, AllNumbered

(* The states stay, and no DISC or UA comes or goes. *)
LEMMA LeftKept ==
  ASSUME NEW m, NEW n, NEW s, NEW a, Left(m, n, s, a),
         NEW x, NEW y, x.state = m.state, y.state = n.state,
         NEW t, Lacks(t, {"UA"}) <=> Lacks(s, {"UA"}),
         NEW b, Lacks(b, {"DISC"}) <=> Lacks(a, {"DISC"}), AtMostOne(b, Discs)
  PROVE  Left(x, y, t, b)
  BY DEF Left

(* An established entity takes a supervisory or I frame. *)
LEMMA CalmTakenMs ==
  ASSUME NEW m \in Datalinks, NEW n \in Datalinks, NEW s \in Seq(Frames), NEW a \in Seq(Frames), a # <<>>,
         Linked(m, n, s, a, FALSE, FALSE), Calm(m, n, s, a),
         Numbered(Head(a)), m.state = "MF_EST",
         NEW x, NEW out, Takes(m, Head(a), x, out)
  PROVE  Calm(x, n, s \o out, Tail(a))
<1>1. Side(m, n, s, a, FALSE) /\ Side(n, m, a, s, FALSE)
  BY DEF Linked
<1>2. Head(a) \in Within(a) /\ Tail(a) \in Seq(Frames) /\ (AtMostOne(a, Discs) => AtMostOne(Tail(a), Discs))
  BY TailParts
<1>3. Head(a).k # "REJ" /\ ~Head(a).f
  BY <1>2 DEF Calm, Plain
<1>4. Moves(m, n, s, a) /\ Moves(n, m, a, s)
  BY DEF Calm
<1>5. /\ out \in Seq(Frames) /\ x.state = "MF_EST" /\ Timed(x)
      /\ Plain(out) /\ AllNumbered(out)
  <2>1. out \in Seq(Frames) /\ Plain(out) /\ AllNumbered(out)
    BY <1>1, <1>3, <1>4, TakesMoves
  <2>2. Going(x)
    BY <1>1, <1>3, <1>4, TakesMoves
  <2> QED
    BY <2>1, <2>2 DEF Going
<1>6. Moves(x, n, s \o out, Tail(a))
  BY <1>1, <1>3, <1>4, TakesMoves
<1>7. Moves(n, x, Tail(a), s \o out)
  BY <1>1, <1>3, <1>4, TakesMoves
<1>8. Plain(s \o out) /\ Plain(Tail(a))
  BY <1>5, PlainParts DEF Calm
<1>9. Lacks(out, {"DISC"}) /\ Lacks(out, {"UA"}) /\ Lacks(out, {"SABM"})
  BY <1>5, NumberedKinds
<1>10. Called(x, n, s \o out, Tail(a))
  <2>1. \A g \in Within(s \o out) : g.k # "SABM"
    <3>1. Lacks(s, {"SABM"})
      BY DEF Calm, Called, Lacks
    <3>2. Lacks(s \o out, {"SABM"})
      BY <1>5, <1>9, <3>1, KindKept
    <3> QED
      BY <3>2 DEF Lacks
  <2> QED
    BY <1>5, <2>1 DEF Called
<1>11. Left(x, n, s \o out, Tail(a))
  <2>1. Lacks(s \o out, {"UA"}) <=> Lacks(s, {"UA"})
    BY <1>5, <1>9, KindKept
  <2>2. Lacks(Tail(a), {"DISC"}) <=> Lacks(a, {"DISC"})
    BY <1>5, <1>9, KindKept DEF Numbered
  <2>3. Left(m, n, s, a) /\ AtMostOne(a, Discs)
    BY DEF Calm, Left
  <2> QED
    BY <1>2, <1>5, <2>1, <2>2, <2>3, LeftKept
<1> QED
  BY <1>5, <1>6, <1>7, <1>8, <1>10, <1>11 DEF Calm

LEMMA CalmTakenBts ==
  ASSUME NEW m \in Datalinks, NEW n \in Datalinks, NEW s \in Seq(Frames), NEW a \in Seq(Frames), s # <<>>,
         Linked(m, n, s, a, FALSE, FALSE), Calm(m, n, s, a),
         Numbered(Head(s)), n.state = "MF_EST", m.state # "SABM_SENT",
         NEW y, NEW out, Takes(n, Head(s), y, out)
  PROVE  Calm(m, y, Tail(s), a \o out)
<1>1. Side(m, n, s, a, FALSE) /\ Side(n, m, a, s, FALSE)
  BY DEF Linked
<1>2. Head(s) \in Within(s) /\ Tail(s) \in Seq(Frames) /\ Within(Tail(s)) \subseteq Within(s)
  BY TailParts
<1>3. Head(s).k # "REJ" /\ ~Head(s).f
  BY <1>2 DEF Calm, Plain
<1>4. Moves(m, n, s, a) /\ Moves(n, m, a, s)
  BY DEF Calm
<1>5. /\ out \in Seq(Frames) /\ y.state = "MF_EST" /\ Timed(y)
      /\ Plain(out) /\ AllNumbered(out)
  <2>1. out \in Seq(Frames) /\ Plain(out) /\ AllNumbered(out)
    BY <1>1, <1>3, <1>4, TakesMoves
  <2>2. Going(y)
    BY <1>1, <1>3, <1>4, TakesMoves
  <2> QED
    BY <2>1, <2>2 DEF Going
<1>6. Moves(y, m, a \o out, Tail(s))
  BY <1>1, <1>3, <1>4, TakesMoves
<1>7. Moves(m, y, Tail(s), a \o out)
  BY <1>1, <1>3, <1>4, TakesMoves
<1>8. Plain(a \o out) /\ Plain(Tail(s))
  BY <1>5, PlainParts DEF Calm
<1>9. Lacks(out, {"DISC"}) /\ Lacks(out, {"UA"}) /\ Within(out) \cap Discs = {}
  BY <1>5, NumberedKinds
<1>10. Called(m, y, Tail(s), a \o out)
  BY <1>2 DEF Called, Calm
<1>11. Left(m, y, Tail(s), a \o out)
  <2>1. Lacks(Tail(s), {"UA"}) <=> Lacks(s, {"UA"})
    BY <1>5, <1>9, KindKept DEF Numbered
  <2>2. Lacks(a \o out, {"DISC"}) <=> Lacks(a, {"DISC"})
    BY <1>5, <1>9, KindKept
  <2>3. Left(m, n, s, a) /\ AtMostOne(a, Discs)
    BY DEF Calm, Left
  <2>4. AtMostOne(a \o out, Discs)
    BY <1>5, <1>9, <2>3, JoinParts
  <2> QED
    BY <1>5, <2>1, <2>2, <2>3, <2>4, LeftKept
<1> QED
  BY <1>5, <1>6, <1>7, <1>8, <1>10, <1>11 DEF Calm

(* A supervisory or I frame that an entity drops. *)
LEMMA CalmDroppedMs ==
  ASSUME NEW m, NEW n, NEW s \in Seq(Frames), NEW a \in Seq(Frames), a # <<>>,
         Calm(m, n, s, a), Numbered(Head(a)), m.state \in {"IDLE", "SABM_SENT"}
  PROVE  Calm(m, n, s \o <<>>, Tail(a))
<1>1. m.state = "IDLE" /\ s \o <<>> = s /\ Plain(Tail(a))
  BY PlainParts DEF Calm, Called, Numbered
<1>2. Lacks(a, {"DISC"}) /\ n.state # "MF_EST"
  BY <1>1 DEF Calm, Left
<1>3. Lacks(Tail(a), {"DISC"}) /\ AtMostOne(Tail(a), Discs)
  BY <1>2, TailParts DEF Calm, Left, Lacks
<1>4. Called(m, n, s, Tail(a)) /\ Left(m, n, s, Tail(a))
  BY <1>1, <1>2, <1>3 DEF Calm, Called, Left
<1>5. Moves(m, n, s, Tail(a)) /\ Moves(n, m, Tail(a), s)
  BY <1>1, <1>2 DEF Moves
<1> QED
  BY <1>1, <1>4, <1>5 DEF Calm

LEMMA CalmDroppedBts ==
  ASSUME NEW m, NEW n, NEW s \in Seq(Frames), NEW a \in Seq(Frames), s # <<>>,
         Calm(m, n, s, a), Numbered(Head(s)), n.state \in {"IDLE", "DISC_SENT"}, m.state # "SABM_SENT"
  PROVE  Calm(m, n, Tail(s), a \o <<>>)
<1>1. a \o <<>> = a /\ Plain(Tail(s)) /\ Within(Tail(s)) \subseteq Within(s)
  BY PlainParts, TailParts DEF Calm
<1>2. Lacks(Tail(s), {"UA"}) <=> Lacks(s, {"UA"})
  <2>1. <<>> \in Seq(Frames) /\ Lacks(<<>>, {"UA"})
    BY NoFrame DEF Lacks
  <2> QED
    BY <2>1, KindKept DEF Numbered
<1>3. Left(m, n, Tail(s), a)
  BY <1>2 DEF Calm, Left
<1>4. Called(m, n, Tail(s), a)
  BY <1>1 DEF Calm, Called
<1>5. Moves(m, n, Tail(s), a) /\ Moves(n, m, a, Tail(s))
  BY DEF Calm, Left, Moves
<1> QED
  BY <1>1, <1>3, <1>4, <1>5 DEF Calm

(* The base station takes the SABM of the mobile. *)
LEMMA CalmSabm ==
  ASSUME NEW m, NEW n, NEW s \in Seq(Frames), NEW a \in Seq(Frames), s # <<>>,
         Alone(m, n, s, a), Calm(m, n, s, a), Head(s).k = "SABM",
         NEW y, Joined(n, y), y.t200 = FALSE,
         NEW u \in Frames, u.k = "UA", u.f, u.info = m.content
  PROVE  Calm(m, y, Tail(s), a \o <<u>>)
<1>1. Head(s) \in Within(s)
  BY TailParts
<1>2. m.state = "SABM_SENT" /\ n.state = "IDLE" /\ a = <<>> /\ Tail(s) = <<>>
  BY <1>1, OneParts DEF Calm, Called, Alone
<1>3. /\ <<u>> \in Seq(Frames) /\ Within(<<u>>) = {u} /\ a \o <<u>> = <<u>>
      /\ <<u>> # <<>> /\ Head(<<u>>) = u
  BY <1>2, OneFrame
<1>4. Within(Tail(s)) = {} /\ Plain(Tail(s)) /\ Plain(<<u>>)
  BY <1>2, <1>3, NoFrame DEF Plain, Numbered
<1>5. y.state = "MF_EST" /\ y.vs = y.va /\ Timed(y)
  BY DEF Joined, Timed, Due
<1>6. Called(m, y, Tail(s), <<u>>)
  BY <1>2, <1>3, <1>4, <1>5 DEF Called
<1>7. Left(m, y, Tail(s), <<u>>)
  BY <1>2, <1>3, <1>4, <1>5 DEF Left, Lacks, AtMostOne, Discs
<1>8. Moves(m, y, Tail(s), <<u>>) /\ Moves(y, m, <<u>>, Tail(s))
  BY <1>2, <1>5 DEF Moves
<1> QED
  BY <1>3, <1>4, <1>5, <1>6, <1>7, <1>8 DEF Calm

(* The mobile takes the UA that it waits for. *)
LEMMA CalmUaMs ==
  ASSUME NEW m, NEW n \in Datalinks, NEW s \in Seq(Frames), NEW a \in Seq(Frames), a # <<>>,
         Alone(m, n, s, a), Calm(m, n, s, a), Head(a).k = "UA", m.state = "SABM_SENT", m.vr = 0,
         NEW x, x.state = "MF_EST", x.vs = 0, x.va = 0, x.vr = 0
  PROVE  Timed(x) => Calm(x, n, s \o <<>>, Tail(a))
<1>1. s = <<>> /\ s \o <<>> = s /\ Within(s) = {}
  BY NoFrame DEF Calm, Called
<1>2. n.state \in {"MF_EST", "DISC_SENT"}
  <2>1. n.state \in States /\ n.state # "IDLE" /\ n.state # "SABM_SENT" /\ n.state # "TIMER_RECOV"
    BY <1>1 DEF Calm, Called, Timed, Alone, Datalinks
  <2> QED
    BY <2>1 DEF States
<1>3. Plain(Tail(a)) /\ AtMostOne(Tail(a), Discs)
  BY PlainParts, TailParts DEF Calm, Left
<1>4. /\ Lacks(Tail(a), {"DISC"}) <=> Lacks(a, {"DISC"})
      /\ Lacks(Tail(a), {"I"}) <=> Lacks(a, {"I"})
  BY <1>1, KindKept DEF Lacks
<1>5. Called(x, n, s, Tail(a))
  BY <1>1 DEF Called
<1>6. Left(x, n, s, Tail(a))
  <2>1. Left(m, n, s, a)
    BY DEF Calm
  <2>2. Lacks(s, {"UA"})
    BY <1>1 DEF Lacks
  <2> QED
    BY <1>2, <1>3, <1>4, <2>1, <2>2 DEF Left
<1>7. Moves(x, n, s, Tail(a))
  BY DEF Moves
<1>8. Moves(n, x, Tail(a), s)
  BY <1>1, <1>4 DEF Calm, Moves, AckUnderWay, Lacks
<1> QED
  BY <1>1, <1>3, <1>5, <1>6, <1>7, <1>8 DEF Calm

(* The mobile takes the DISC of the base station. *)
LEMMA CalmDisc ==
  ASSUME NEW m, NEW n, NEW s \in Seq(Frames), NEW a \in Seq(Frames), a # <<>>,
         Calm(m, n, s, a), Head(a).k = "DISC",
         NEW x, x.state = "IDLE", x.t200 = FALSE,
         NEW u \in Frames, u.k = "UA", u.f
  PROVE  m.state = "MF_EST" /\ Calm(x, n, s \o <<u>>, Tail(a))
<1>1. Head(a) \in Within(a) /\ Head(a) \in Frames /\ Tail(a) \in Seq(Frames)
  BY TailParts
<1>2. m.state = "MF_EST" /\ n.state = "DISC_SENT"
  BY <1>1 DEF Calm, Left, Called, Lacks
<1>3. Plain(Tail(a)) /\ AtMostOne(Tail(a), Discs) /\ Lacks(Tail(a), {"DISC"})
  <2>1. AtMostOne(a, Discs) /\ Head(a) \in Discs
    BY <1>1 DEF Calm, Left, Discs
  <2>2. Within(Tail(a)) \cap Discs = {} /\ AtMostOne(Tail(a), Discs)
    BY <2>1, TailParts
  <2>3. Within(Tail(a)) \subseteq Frames
    BY <1>1, WithinParts
  <2> QED
    BY <2>2, <2>3, PlainParts DEF Calm, Lacks, Discs
<1>4. <<u>> \in Seq(Frames) /\ Within(s \o <<u>>) = Within(s) \cup {u}
  BY OneFrame, JoinParts
<1>5. Plain(s \o <<u>>)
  BY <1>4 DEF Calm, Plain, Numbered
<1>6. Called(x, n, s \o <<u>>, Tail(a))
  BY <1>2, <1>4 DEF Calm, Called
<1>7. Left(x, n, s \o <<u>>, Tail(a))
  BY <1>2, <1>3, <1>4 DEF Left, Lacks
<1>8. Moves(x, n, s \o <<u>>, Tail(a)) /\ Moves(n, x, Tail(a), s \o <<u>>)
  BY <1>2 DEF Moves
<1>9. Timed(x) /\ Timed(n)
  BY DEF Timed, Calm
<1> QED
  BY <1>2, <1>3, <1>5, <1>6, <1>7, <1>8, <1>9 DEF Calm

(* The base station takes the UA of the mobile. *)
LEMMA CalmUaBts ==
  ASSUME NEW m, NEW n, NEW s \in Seq(Frames), NEW a \in Seq(Frames), s # <<>>,
         Calm(m, n, s, a), Head(s).k = "UA",
         NEW y, y.state = "IDLE", y.t200 = FALSE
  PROVE  Calm(m, y, Tail(s), a \o <<>>) /\ n.state # "MF_EST"
<1>1. Head(s) \in Within(s) /\ Within(Tail(s)) \subseteq Within(s) /\ a \o <<>> = a
  BY TailParts
<1>2. m.state = "IDLE" /\ n.state # "MF_EST" /\ Lacks(a, {"DISC"})
  BY <1>1 DEF Calm, Left, Lacks
<1>3. Plain(Tail(s))
  BY PlainParts DEF Calm
<1>4. Called(m, y, Tail(s), a)
  BY <1>1, <1>2 DEF Calm, Called
<1>5. Left(m, y, Tail(s), a)
  BY <1>2 DEF Calm, Left
<1>6. Moves(m, y, Tail(s), a) /\ Moves(y, m, a, Tail(s))
  BY <1>2 DEF Moves
<1>7. Timed(y)
  BY DEF Timed
<1> QED
  BY <1>1, <1>2, <1>3, <1>4, <1>5, <1>6, <1>7 DEF Calm

(* An established entity sends data. *)
LEMMA DataMoves ==
  ASSUME NEW d \in Datalinks, NEW q \in Datalinks, NEW s \in Seq(Frames), NEW a \in Seq(Frames),
         d.state = "MF_EST", Side(d, q, s, a, FALSE), Side(q, d, a, s, FALSE),
         NEW b \in Datalinks, SameSender(d, b), SameReceiver(d, b), Due(b),
         Moves(d, q, s, a), Moves(q, d, a, s)
  PROVE  /\ SendI(b).out \in Seq(Frames) /\ Going(SendI(b).d)
         /\ Plain(SendI(b).out) /\ AllNumbered(SendI(b).out)
         /\ Moves(SendI(b).d, q, s \o SendI(b).out, a)
         /\ Moves(q, SendI(b).d, a, s \o SendI(b).out)
<1> DEFINE x == SendI(b).d
           o == SendI(b).out
<1>1. /\ d.state \in Established /\ Direction(d, q, s, a) /\ b.state = "MF_EST"
  BY DEF Side, Established, SameSender
<1>2. x.state = "MF_EST" /\ x.vr = d.vr /\ o \in Seq(Frames) /\ GoesOn(o, d.vr)
  <2>1. x.state = "MF_EST" /\ x.vr = d.vr
    BY <1>1, SendIKeeps DEF SameReceiver
  <2>2. o \in Seq(Frames) /\ GoesOn(o, d.vr)
    BY <1>1, DataSent
  <2> QED
    BY <2>1, <2>2
<1>3. Plain(o) /\ AllNumbered(o)
  BY <1>2 DEF GoesOn, Plain, AllNumbered, Numbered
<1>4. Window(b)
  BY <1>1 DEF Direction, Window, SameSender, Latest
<1>5. Going(x)
  BY <1>1, <1>2, <1>4, SendIDue DEF Going
<1>6. Within(s \o o) = Within(s) \cup Within(o)
  BY <1>2, JoinParts
<1>7. Moves(q, x, a, s \o o)
  BY <1>2, <1>6 DEF Moves, AckUnderWay, Lacks
<1>8. Moves(x, q, s \o o, a)
  <2>1. CASE SendsNothing(b, x, o)
    <3>1. x.vs = d.vs /\ x.va = d.va
      BY <2>1 DEF SendsNothing, SameSender
    <3> QED
      BY <1>6, <3>1 DEF Moves, AckUnderWay, Lacks
  <2>2. ASSUME NEW k, NEW n, Sends(b, x, o, k, n) PROVE Moves(x, q, s \o o, a)
    <3>1. x.va = d.va /\ d.vs = d.va
      BY <2>2 DEF Sends, SameSender
    <3>2. q.vr = d.va
      BY <1>1, <3>1, NothingSent
    <3>3. \E g \in Within(o) : g.k = "I"
      <4> DEFINE h == [k |-> "I", f |-> FALSE, ns |-> b.vs, nr |-> b.vr, seg |-> Segm(k, n + 1)]
      <4>1. o = <<h>> /\ h.k = "I"
        BY <2>2 DEF Sends
      <4> HIDE DEF h
      <4>2. o # <<>> /\ Head(o) = h
        BY <4>1
      <4>3. h \in Within(o)
        BY <1>2, <4>2, TailParts
      <4> QED
        BY <4>1, <4>3
    <3> QED
      BY <1>6, <3>1, <3>2, <3>3 DEF Moves, Lacks
  <2> QED
    BY <1>1, <1>4, <2>1, <2>2, SendICases DEF Established
<1> QED
  BY <1>2, <1>3, <1>5, <1>7, <1>8

LEMMA CalmDataMs ==
  ASSUME NEW m \in Datalinks, NEW n \in Datalinks, NEW s \in Seq(Frames), NEW a \in Seq(Frames),
         Linked(m, n, s, a, FALSE, FALSE), Calm(m, n, s, a), m.state = "MF_EST",
         NEW b \in Datalinks, SameSender(m, b), SameReceiver(m, b), Due(b)
  PROVE  Calm(SendI(b).d, n, s \o SendI(b).out, a)
<1> DEFINE x == SendI(b).d
           o == SendI(b).out
<1>1. /\ Side(m, n, s, a, FALSE) /\ Side(n, m, a, s, FALSE)
      /\ Moves(m, n, s, a) /\ Moves(n, m, a, s)
  BY DEF Linked, Calm
<1>2. o \in Seq(Frames) /\ Plain(o) /\ AllNumbered(o)
  BY <1>1, DataMoves
<1>3. x.state = "MF_EST" /\ Timed(x)
  <2>1. Going(x)
    BY <1>1, DataMoves
  <2> QED
    BY <2>1 DEF Going
<1>4. Moves(x, n, s \o o, a) /\ Moves(n, x, a, s \o o)
  BY <1>1, DataMoves
<1> HIDE DEF o, x
<1>5. Plain(s \o o)
  BY <1>2, PlainParts DEF Calm
<1>6. Lacks(o, {"DISC"}) /\ Lacks(o, {"UA"}) /\ Lacks(o, {"SABM"})
  BY <1>2, NumberedKinds
<1>7. Called(x, n, s \o o, a)
  <2>1. Lacks(s, {"SABM"})
    BY DEF Calm, Called, Lacks
  <2>2. Lacks(s \o o, {"SABM"})
    BY <1>2, <1>6, <2>1, KindKept
  <2> QED
    BY <1>3, <2>2 DEF Called, Lacks
<1>8. Left(x, n, s \o o, a)
  <2>1. Lacks(s \o o, {"UA"}) <=> Lacks(s, {"UA"})
    BY <1>2, <1>6, KindKept
  <2>2. Left(m, n, s, a) /\ AtMostOne(a, Discs)
    BY DEF Calm, Left
  <2> QED
    BY <1>3, <2>1, <2>2, LeftKept
<1> QED
  BY <1>3, <1>4, <1>5, <1>7, <1>8 DEF Calm, x, o

LEMMA CalmDataBts ==
  ASSUME NEW m \in Datalinks, NEW n \in Datalinks, NEW s \in Seq(Frames), NEW a \in Seq(Frames),
         Linked(m, n, s, a, FALSE, FALSE), Calm(m, n, s, a), n.state = "MF_EST",
         NEW b \in Datalinks, SameSender(n, b), SameReceiver(n, b), Due(b)
  PROVE  Calm(m, SendI(b).d, s, a \o SendI(b).out)
<1> DEFINE y == SendI(b).d
           o == SendI(b).out
<1>1. /\ Side(m, n, s, a, FALSE) /\ Side(n, m, a, s, FALSE)
      /\ Moves(m, n, s, a) /\ Moves(n, m, a, s)
  BY DEF Linked, Calm
<1>2. o \in Seq(Frames) /\ Plain(o) /\ AllNumbered(o)
  BY <1>1, DataMoves
<1>3. y.state = "MF_EST" /\ Timed(y)
  <2>1. Going(y)
    BY <1>1, DataMoves
  <2> QED
    BY <2>1 DEF Going
<1>4. Moves(y, m, a \o o, s) /\ Moves(m, y, s, a \o o)
  BY <1>1, DataMoves
<1> HIDE DEF o, y
<1>5. Plain(a \o o)
  BY <1>2, PlainParts DEF Calm
<1>6. Lacks(o, {"DISC"}) /\ Lacks(o, {"UA"}) /\ Within(o) \cap Discs = {}
  BY <1>2, NumberedKinds
<1>7. Called(m, y, s, a \o o)
  <2>1. a # <<>> => a \o o # <<>> /\ Head(a \o o) = Head(a)
    BY <1>2
  <2> QED
    BY <1>3, <2>1 DEF Calm, Called
<1>8. Left(m, y, s, a \o o)
  <2>1. Lacks(a \o o, {"DISC"}) <=> Lacks(a, {"DISC"})
    BY <1>2, <1>6, KindKept
  <2>2. Left(m, n, s, a) /\ AtMostOne(a, Discs)
    BY DEF Calm, Left
  <2>3. AtMostOne(a \o o, Discs)
    BY <1>2, <1>6, <2>2, JoinParts
  <2> QED
    BY <1>3, <2>1, <2>2, <2>3, LeftKept
<1> QED
  BY <1>3, <1>4, <1>5, <1>7, <1>8 DEF Calm, y, o

(* The base station releases the link. *)
LEMMA CalmReleases ==
  ASSUME NEW m, NEW n, NEW s \in Seq(Frames), NEW a \in Seq(Frames),
         Calm(m, n, s, a), n.state = "MF_EST",
         NEW y, y.state = "DISC_SENT", NEW u \in Frames, u.k = "DISC", u.f
  PROVE  Calm(m, y, s, a \o <<u>>)
<1>1. <<u>> \in Seq(Frames) /\ Within(<<u>>) = {u} /\ Within(a \o <<u>>) = Within(a) \cup {u}
  BY OneFrame, JoinParts
<1>2. Lacks(a, {"DISC"}) /\ m.state \in {"SABM_SENT", "MF_EST"}
  BY DEF Calm, Left
<1>3. Plain(a \o <<u>>)
  BY <1>1 DEF Calm, Plain, Numbered
<1>4. AtMostOne(a \o <<u>>, Discs)
  <2>1. Within(a) \cap Discs = {}
    BY <1>2 DEF Lacks, Discs
  <2>2. AtMostOne(<<u>>, Discs)
    BY DEF AtMostOne
  <2> QED
    BY <1>1, <2>1, <2>2, JoinParts
<1>5. Called(m, y, s, a \o <<u>>)
  <2>1. a # <<>> => a \o <<u>> # <<>> /\ Head(a \o <<u>>) = Head(a)
    OBVIOUS
  <2> QED
    BY <2>1 DEF Calm, Called
<1>6. ~Lacks(a \o <<u>>, {"DISC"})
  BY <1>1 DEF Lacks
<1>7. Left(m, y, s, a \o <<u>>)
  BY <1>2, <1>4, <1>6 DEF Calm, Left
<1>8. Moves(m, y, s, a \o <<u>>) /\ Moves(y, m, a \o <<u>>, s)
  BY <1>6 DEF Moves
<1>9. Timed(y)
  BY DEF Timed
<1> QED
  BY <1>3, <1>5, <1>7, <1>8, <1>9 DEF Calm

(* The mobile sends its SABM. *)
LEMMA CalmCalls ==
  ASSUME NEW n, n.state = "IDLE", n.t200 = FALSE,
         NEW x, x.state = "SABM_SENT", NEW u \in Frames, u.k = "SABM", u.f, u.info = x.content
  PROVE  Calm(x, n, <<u>>, <<>>)
<1>1. Within(<<u>>) = {u} /\ <<u>> # <<>> /\ Within(<<>>) = {}
  BY OneFrame, NoFrame
<1>2. Plain(<<u>>) /\ Plain(<<>>) /\ Called(x, n, <<u>>, <<>>)
  BY <1>1 DEF Plain, Called, Numbered
<1>3. Left(x, n, <<u>>, <<>>)
  BY <1>1 DEF Left, Lacks, AtMostOne, Discs
<1>4. Moves(x, n, <<u>>, <<>>) /\ Moves(n, x, <<>>, <<u>>) /\ Timed(x) /\ Timed(n)
  BY DEF Moves, Timed
<1> QED
  BY <1>2, <1>3, <1>4 DEF Calm

(* T200 does not expire: something is under way. *)
LEMMA CalmWaits ==
  ASSUME NEW m, NEW n, Calm(m, n, <<>>, <<>>), m.state \in States, n.state \in States,
         n.state # "SABM_SENT", m.state # "DISC_SENT"
  PROVE  ~m.t200 /\ ~n.t200
<1>1. Within(<<>>) = {}
  BY NoFrame
<1>2. m.state # "SABM_SENT" /\ n.state # "DISC_SENT"
  BY <1>1 DEF Calm, Called, Left, Lacks
<1>3. ASSUME m.state = "MF_EST" PROVE ~m.t200
  BY <1>1, <1>3 DEF Calm, Moves, Lacks, AckUnderWay, Timed, Due
<1>4. ASSUME n.state = "MF_EST" PROVE ~n.t200
  BY <1>1, <1>4 DEF Calm, Moves, Lacks, AckUnderWay, Timed, Due
<1> QED
  BY <1>2, <1>3, <1>4 DEF Calm, Timed, States

-----------------------------------------------------------------------------
(* T200 in the handlers of establishment and release. *)
LEMMA TimersOff ==
  ASSUME NEW d \in Datalinks
  PROVE  /\ NewState(Stop(d), "IDLE").t200 = FALSE
         /\ ToIdle(d).t200 = FALSE
         /\ Connected(d).t200 = d.t200
         /\ \A c : [Connected(d) EXCEPT !.contres = c].t200 = d.t200
<1>1. Stop(d) \in Datalinks /\ Stop(d).t200 = FALSE
  BY StopKeeps
<1>2. NewState(Stop(d), "IDLE").t200 = FALSE
  BY <1>1, NewStateKeeps DEF States
<1>3. ToIdle(d).t200 = FALSE
  <2> DEFINE h == FlushHist(Stop(d))
             w == FlushSend(h)
  <2>1. h \in Datalinks
    BY <1>1, FlushType
  <2>2. h.t200 = FALSE
    BY <1>1 DEF FlushHist, Datalinks
  <2> HIDE DEF h
  <2>3. w \in Datalinks
    BY <2>1, FlushType
  <2>4. w.t200 = FALSE
    BY <2>1, <2>2 DEF FlushSend, Datalinks
  <2> HIDE DEF w
  <2>5. NewState(w, "IDLE").t200 = FALSE
    BY <2>3, <2>4, NewStateKeeps DEF States
  <2> QED
    BY <2>5 DEF ToIdle, w, h
<1>4. Connected(d) \in Datalinks /\ Connected(d).t200 = d.t200
  <2> DEFINE z == [d EXCEPT !.vs = 0, !.vr = 0, !.va = 0]
             w == FlushHist(z)
  <2>1. 0 \in Numbers
    BY LapdAssumption DEF Numbers
  <2>2. z \in Datalinks /\ z.t200 = d.t200
    BY <2>1 DEF Datalinks
  <2> HIDE DEF z
  <2>3. w \in Datalinks /\ w.t200 = d.t200
    BY <2>2, FlushType DEF FlushHist, Datalinks
  <2> HIDE DEF w
  <2>4. NewState(w, "MF_EST") \in Datalinks /\ NewState(w, "MF_EST").t200 = d.t200
    BY <2>3, NewStateKeeps DEF States
  <2> QED
    BY <2>4 DEF Connected, w, z
<1> HIDE DEF Connected
<1>5. \A c : [Connected(d) EXCEPT !.contres = c].t200 = d.t200
  BY <1>4 DEF Datalinks
<1> QED
  BY <1>2, <1>3, <1>4, <1>5

(* The state of the link as long as no frame is lost. *)
CalmInv == Calm(dl["ms"], dl["bts"], pipe["ms"], pipe["bts"])
CalmAfter(e, x, out) ==
  IF e = "ms" THEN Calm(x, dl["bts"], pipe["ms"] \o out, Tail(pipe["bts"]))
  ELSE Calm(dl["ms"], x, Tail(pipe["ms"]), pipe["bts"] \o out)

(* An entity receives a frame, and layer 3 is told of no error. *)
LEMMA CalmGetsSabm ==
  ASSUME TypeInv, OpenInv, LinkInv, Attended, CalmInv, NEW e \in Entities, pipe[Peer(e)] # <<>>, Sabm(e)
  PROVE  \E x, out, prims : Reply(e, x, out, prims) /\ "MDL_ERROR" \notin prims /\ CalmAfter(e, x, out)
<1> DEFINE f == Head(pipe[Peer(e)])
           z == dl[e]
           d == [z EXCEPT !.err = 0]
           cr == [Connected(d) EXCEPT !.contres = IF e = "bts" /\ f.info # "none" THEN f.info ELSE @]
           u == U("UA", f.f, f.info)
           ind == {"EST_IND"} \cup IF d.state = "MF_EST" THEN {"MDL_ERROR"} ELSE {}
<1>1. f.k = "SABM" /\ f \in Frames
  BY HeadType DEF Sabm
<1>2. /\ dl["ms"] \in Datalinks /\ dl["bts"] \in Datalinks
      /\ pipe["ms"] \in Seq(Frames) /\ pipe["bts"] \in Seq(Frames)
      /\ Alone(dl["ms"], dl["bts"], pipe["ms"], pipe["bts"])
      /\ Calm(dl["ms"], dl["bts"], pipe["ms"], pipe["bts"])
  BY LinkEnds DEF CalmInv
<1>3. e = "bts" /\ Peer(e) = "ms"
  <2>1. CASE e = "ms"
    <3>1. f \in Within(pipe["bts"])
      BY <1>2, <2>1, TailParts DEF Peer
    <3> QED
      BY <1>1, <1>2, <3>1 DEF Alone, Lacks
  <2> QED
    BY <2>1 DEF Entities, Peer
<1>4. f \in Within(pipe["ms"])
  BY <1>2, <1>3, TailParts
<1>5. dl["ms"].state = "SABM_SENT" /\ f.info = dl["ms"].content /\ f.f /\ z.state = "IDLE" /\ z.t200 = FALSE
  <2>1. dl["ms"].state = "SABM_SENT" /\ f.info = dl["ms"].content /\ f.f
    BY <1>1, <1>2, <1>4 DEF Calm, Called, Plain, Numbered
  <2>2. z.state = "IDLE"
    BY <1>2, <1>3, <2>1 DEF Calm, Called
  <2> QED
    BY <1>2, <1>3, <2>1, <2>2 DEF Calm, Timed, Datalinks
<1>6. z \in Datalinks /\ d \in Datalinks /\ Kept(z, d) /\ d.t200 = FALSE
  <2>1. z \in Datalinks /\ 0 \in 0..2
    BY DEF TypeInv
  <2>2. d \in Datalinks /\ Kept(z, d)
    BY <2>1, HandlerStates
  <2> QED
    BY <1>5, <2>1, <2>2 DEF Datalinks
<1>7. Reply(e, cr, <<u>>, ind)
  <2>1. d.state = "IDLE"
    BY <1>5, <1>6 DEF Kept
  <2> QED
    BY <2>1 DEF Sabm
<1>8. "MDL_ERROR" \notin ind
  BY <1>5, <1>6 DEF Kept
<1>9. u \in Frames /\ u.k = "UA" /\ u.f /\ u.info = dl["ms"].content
  <2>1. f \in UFrames
    BY <1>1, FrameKinds
  <2>2. f.f \in BOOLEAN /\ f.info \in Contents \cup {"none", "other"}
    BY <2>1 DEF UFrames
  <2> QED
    BY <1>5, <2>2 DEF U, Frames
<1> HIDE DEF z, u, f, d
<1>10. Joined(d, cr) /\ cr.t200 = FALSE
  <2> DEFINE v == IF e = "bts" /\ f.info # "none" THEN f.info ELSE Connected(d).contres
  <2>1. d \in Datalinks /\ d.t200 = FALSE /\ cr = [Connected(d) EXCEPT !.contres = v]
    BY <1>6
  <2> HIDE DEF v, cr
  <2>2. Joined(d, [Connected(d) EXCEPT !.contres = v])
    BY <2>1, JoinedStates
  <2>3. [Connected(d) EXCEPT !.contres = v].t200 = d.t200
    BY <2>1, TimersOff
  <2> QED
    BY <2>1, <2>2, <2>3
<1> HIDE DEF cr
<1>11. Joined(z, cr)
  BY <1>6, <1>10 DEF Joined, Kept, SameData, SameReceiver
<1>12. pipe["ms"] # <<>> /\ Head(pipe["ms"]).k = "SABM" /\ z = dl["bts"]
  BY <1>1, <1>3 DEF f, z
<1>13. Calm(dl["ms"], cr, Tail(pipe["ms"]), pipe["bts"] \o <<u>>)
  BY <1>2, <1>9, <1>10, <1>11, <1>12, CalmSabm
<1> QED
  BY <1>3, <1>7, <1>8, <1>13 DEF CalmAfter

LEMMA CalmGetsDisc ==
  ASSUME TypeInv, OpenInv, LinkInv, Attended, CalmInv, NEW e \in Entities, pipe[Peer(e)] # <<>>, Disc(e)
  PROVE  \E x, out, prims : Reply(e, x, out, prims) /\ "MDL_ERROR" \notin prims /\ CalmAfter(e, x, out)
<1> DEFINE f == Head(pipe[Peer(e)])
           z == dl[e]
           w == FlushSend(FlushHist(z))
           d == [w EXCEPT !.err = 0]
           c == NewState(Stop(d), "IDLE")
           u == U("UA", f.f, "none")
<1>1. f.k = "DISC" /\ f \in Frames
  BY HeadType DEF Disc
<1>2. /\ dl["ms"] \in Datalinks /\ dl["bts"] \in Datalinks
      /\ pipe["ms"] \in Seq(Frames) /\ pipe["bts"] \in Seq(Frames)
      /\ Calm(dl["ms"], dl["bts"], pipe["ms"], pipe["bts"])
      /\ Lacks(pipe["ms"], {"DISC"})
  <2>1. Lacks(pipe["ms"], {"DISC"})
    BY DEF LinkInv, Linked, Control, MsAnswers
  <2> QED
    BY <2>1, LinkEnds DEF CalmInv
<1>3. e = "ms" /\ Peer(e) = "bts"
  <2>1. CASE e = "bts"
    <3>1. f \in Within(pipe["ms"])
      BY <1>2, <2>1, TailParts DEF Peer
    <3> QED
      BY <1>1, <1>2, <3>1 DEF Lacks
  <2> QED
    BY <2>1 DEF Entities, Peer
<1>4. f \in Within(pipe["bts"])
  BY <1>2, <1>3, TailParts
<1>5. u \in Frames /\ u.k = "UA" /\ u.f
  <2>1. f.f
    BY <1>1, <1>2, <1>4 DEF Calm, Plain, Numbered
  <2>2. f.f \in BOOLEAN
    BY <1>1, FrameKinds
  <2> QED
    BY <2>1, <2>2 DEF U, Frames
<1>6. /\ d.state = "MF_EST" => Reply(e, c, <<u>>, {"REL_IND"})
  BY DEF Disc
<1>7. w \in Datalinks /\ w.state = z.state
  <2>1. z \in Datalinks
    BY DEF TypeInv
  <2> HIDE DEF z
  <2> QED
    BY <2>1, HandlerStates
<1> HIDE DEF w, u, f
<1>8. d \in Datalinks /\ d.state = z.state
  <2>1. 0 \in 0..2
    OBVIOUS
  <2> QED
    BY <1>7, <2>1, HandlerStates DEF Kept
<1> HIDE DEF d
<1>9. c.state = "IDLE" /\ c.t200 = FALSE
  BY <1>8, HandlerStates, TimersOff DEF Closed
<1> HIDE DEF c
<1>10. pipe["bts"] # <<>> /\ Head(pipe["bts"]).k = "DISC" /\ z = dl["ms"]
  BY <1>1, <1>3 DEF f
<1>11. dl["ms"].state = "MF_EST" /\ Calm(c, dl["bts"], pipe["ms"] \o <<u>>, Tail(pipe["bts"]))
  BY <1>2, <1>5, <1>9, <1>10, CalmDisc
<1>12. Reply(e, c, <<u>>, {"REL_IND"}) /\ "MDL_ERROR" \notin {"REL_IND"}
  BY <1>6, <1>8, <1>10, <1>11
<1> QED
  BY <1>3, <1>11, <1>12 DEF CalmAfter

LEMMA CalmGetsUa ==
  ASSUME TypeInv, OpenInv, LinkInv, Attended, CalmInv, NEW e \in Entities, pipe[Peer(e)] # <<>>, Ua(e)
  PROVE  \E x, out, prims : Reply(e, x, out, prims) /\ "MDL_ERROR" \notin prims /\ CalmAfter(e, x, out)
<1> DEFINE f == Head(pipe[Peer(e)])
           d == dl[e]
           c == Connected(Stop(d))
<1>1. f.k = "UA" /\ f \in Frames
  BY HeadType DEF Ua
<1>2. /\ dl["ms"] \in Datalinks /\ dl["bts"] \in Datalinks
      /\ pipe["ms"] \in Seq(Frames) /\ pipe["bts"] \in Seq(Frames)
      /\ Alone(dl["ms"], dl["bts"], pipe["ms"], pipe["bts"])
      /\ Calm(dl["ms"], dl["bts"], pipe["ms"], pipe["bts"])
      /\ Control(dl["ms"], dl["bts"], pipe["ms"], pipe["bts"], FALSE, FALSE)
  <2>1. Linked(dl["ms"], dl["bts"], pipe["ms"], pipe["bts"], FALSE, FALSE)
    BY LinkAttended
  <2> QED
    BY <2>1, LinkEnds DEF CalmInv, Linked
<1>3. CASE e = "ms"
  <2>1. Peer(e) = "bts" /\ pipe["bts"] # <<>> /\ Head(pipe["bts"]).k = "UA" /\ d = dl["ms"]
    BY <1>1, <1>3 DEF Peer
  <2>2. f \in Within(pipe["bts"]) /\ f = Head(pipe["bts"])
    BY <1>2, <2>1, TailParts
  <2>3. f.f
    BY <1>1, <1>2, <2>2 DEF Calm, Plain, Numbered
  <2>4. d.state = "SABM_SENT"
    BY <1>1, <1>2, <2>1, <2>2 DEF Control, UaFirst, Lacks
  <2>5. Confirms(d, f)
    <3>1. f.info = d.content
      BY <1>2, <2>1, <2>2, <2>4 DEF Calm, Called
    <3> QED
      BY <3>1 DEF Confirms
  <2>6. Reply(e, SendI(c).d, SendI(c).out, {"EST_CONF"})
    BY <2>3, <2>4, <2>5 DEF Ua
  <2>7. d.vr = 0 /\ d.rcv = <<>> /\ d.queue = <<>> /\ d.buf = "none"
    BY <1>2, <2>1, <2>4 DEF Control, Waits
  <2> HIDE DEF d, f
  <2>8. d \in Datalinks
    BY <1>2, <2>1
  <2>9. c \in Datalinks /\ Joined(d, c) /\ c.t200 = FALSE
    <3>1. Stop(d) \in Datalinks /\ Kept(d, Stop(d)) /\ Stop(d).t200 = FALSE
      BY <2>8, HandlerStates, StopKeeps
    <3>2. c \in Datalinks /\ Joined(Stop(d), c)
      BY <3>1, JoinedStates
    <3>3. c.t200 = FALSE
      BY <3>1, TimersOff
    <3> QED
      BY <3>1, <3>2, <3>3 DEF Joined, Kept, SameData, SameReceiver
  <2> HIDE DEF c
  <2>10. /\ SendI(c).out = <<>> /\ SendI(c).d.state = "MF_EST" /\ SendI(c).d.vs = 0 /\ SendI(c).d.va = 0
         /\ SendI(c).d.vr = 0
    BY <2>7, <2>8, <2>9, NothingWaits
  <2>11. Timed(SendI(c).d)
    <3>1. Window(c) /\ Due(c) /\ c.state = "MF_EST"
      BY <2>7, <2>9 DEF Joined, Window, Due
    <3> QED
      BY <2>9, <3>1, SendIDue
  <2>12. Calm(SendI(c).d, dl["bts"], pipe["ms"] \o <<>>, Tail(pipe["bts"]))
    BY <1>2, <2>1, <2>4, <2>7, <2>10, <2>11, CalmUaMs
  <2>13. Reply(e, SendI(c).d, <<>>, {"EST_CONF"}) /\ "MDL_ERROR" \notin {"EST_CONF"}
    BY <2>6, <2>10
  <2> QED
    BY <1>3, <2>12, <2>13 DEF CalmAfter
<1>4. CASE e = "bts"
  <2>1. Peer(e) = "ms" /\ pipe["ms"] # <<>> /\ Head(pipe["ms"]).k = "UA" /\ d = dl["bts"]
    BY <1>1, <1>4 DEF Peer
  <2>2. f \in Within(pipe["ms"])
    BY <1>2, <2>1, TailParts
  <2>3. f.f
    BY <1>1, <1>2, <2>2 DEF Calm, Plain, Numbered
  <2>4. d.state \in {"IDLE", "DISC_SENT"} /\ d \in Datalinks
    <3>1. d.state # "MF_EST" /\ d.state # "TIMER_RECOV" /\ d.state # "SABM_SENT"
      BY <1>2, <2>1, <2>2, <1>1 DEF Calm, Left, Lacks, Timed, Alone
    <3> QED
      BY <1>2, <2>1, <3>1 DEF Datalinks, States
  <2>5. CASE d.state = "IDLE"
    <3>1. Reply(e, d, <<>>, {})
      BY <2>3, <2>5 DEF Ua
    <3>2. d.t200 = FALSE
      BY <1>2, <2>1, <2>4, <2>5 DEF Calm, Timed, Datalinks
    <3>3. Calm(dl["ms"], d, Tail(pipe["ms"]), pipe["bts"] \o <<>>)
      BY <1>2, <2>1, <2>5, <3>2, CalmUaBts
    <3> QED
      BY <1>4, <3>1, <3>3 DEF CalmAfter
  <2>6. CASE d.state = "DISC_SENT"
    <3>1. Reply(e, ToIdle(d), <<>>, {"REL_CONF"})
      BY <2>3, <2>6 DEF Ua
    <3> HIDE DEF d
    <3>2. ToIdle(d).state = "IDLE" /\ ToIdle(d).t200 = FALSE
      BY <2>4, ToIdleState, TimersOff
    <3>3. Calm(dl["ms"], ToIdle(d), Tail(pipe["ms"]), pipe["bts"] \o <<>>)
      BY <1>2, <2>1, <3>2, CalmUaBts
    <3>4. "MDL_ERROR" \notin {"REL_CONF"}
      OBVIOUS
    <3> QED
      BY <1>4, <3>1, <3>3, <3>4 DEF CalmAfter
  <2> QED
    BY <2>4, <2>5, <2>6
<1> QED
  BY <1>3, <1>4 DEF Entities

(* Nothing is refused. *)
LEMMA CalmGetsDm ==
  ASSUME TypeInv, CalmInv, NEW e \in Entities, pipe[Peer(e)] # <<>>
  PROVE  ~Dm(e)
<1> SUFFICES ASSUME Dm(e) PROVE FALSE
  OBVIOUS
<1> DEFINE s == pipe[Peer(e)]
<1>1. Head(s).k = "DM"
  BY DEF Dm
<1>2. s \in Seq(Frames)
  BY Peers DEF TypeInv
<1>3. Plain(s)
  BY DEF CalmInv, Calm, Entities, Peer
<1>4. Head(s) \in Within(s)
  BY <1>2, TailParts
<1> QED
  BY <1>1, <1>3, <1>4 DEF Plain

(* The frame at the head of the peer's pipe is numbered. *)
LEMMA CalmHead ==
  ASSUME TypeInv, OpenInv, LinkInv, Attended, CalmInv, NEW e \in Entities, pipe[Peer(e)] # <<>>,
         NEW f, f = Head(pipe[Peer(e)]), Numbered(f)
  PROVE  /\ f \in Frames /\ f \in Within(pipe[Peer(e)]) /\ ~f.f /\ f.k # "REJ"
         /\ dl[e] \in Datalinks /\ dl[Peer(e)] \in Datalinks
         /\ pipe[e] \in Seq(Frames) /\ pipe[Peer(e)] \in Seq(Frames)
         /\ Timed(dl[e])
         /\ Side(dl[e], dl[Peer(e)], pipe[e], pipe[Peer(e)], FALSE)
         /\ Side(dl[Peer(e)], dl[e], pipe[Peer(e)], pipe[e], FALSE)
<1>1. Linked(dl["ms"], dl["bts"], pipe["ms"], pipe["bts"], FALSE, FALSE)
  BY LinkAttended
<1>2. /\ pipe[e] \in Seq(Frames) /\ pipe[Peer(e)] \in Seq(Frames)
      /\ dl[e] \in Datalinks /\ dl[Peer(e)] \in Datalinks
  BY Peers DEF TypeInv
<1>3. f \in Frames /\ f \in Within(pipe[Peer(e)])
  BY <1>2, TailParts
<1>4. Plain(pipe[Peer(e)]) /\ Timed(dl[e])
  BY DEF CalmInv, Calm, Entities, Peer
<1>5. f.f \in BOOLEAN
  BY <1>3, FrameKinds
<1>6. ~f.f /\ f.k # "REJ"
  BY <1>3, <1>4, <1>5 DEF Plain
<1>7. /\ Side(dl[e], dl[Peer(e)], pipe[e], pipe[Peer(e)], FALSE)
      /\ Side(dl[Peer(e)], dl[e], pipe[Peer(e)], pipe[e], FALSE)
  <2>1. CASE e = "ms"
    BY <1>1, <2>1 DEF Linked, Peer
  <2>2. CASE e = "bts"
    BY <1>1, <2>2 DEF Linked, Peer
  <2> QED
    BY <2>1, <2>2 DEF Entities
<1> QED
  BY <1>2, <1>3, <1>4, <1>6, <1>7

LEMMA CalmGetsNumbered ==
  ASSUME TypeInv, OpenInv, LinkInv, Attended, CalmInv, NEW e \in Entities, pipe[Peer(e)] # <<>>,
         Supervisory(e) \/ Information(e)
  PROVE  \E x, out, prims : Reply(e, x, out, prims) /\ "MDL_ERROR" \notin prims /\ CalmAfter(e, x, out)
<1> DEFINE f == Head(pipe[Peer(e)])
           d == dl[e]
           q == dl[Peer(e)]
           s == pipe[e]
           a == pipe[Peer(e)]
<1>1. Numbered(f)
  BY SupervisoryCases, InformationCases DEF Numbered
<1>2. /\ f \in Frames /\ f \in Within(a) /\ ~f.f /\ f.k # "REJ"
      /\ d \in Datalinks /\ q \in Datalinks /\ s \in Seq(Frames) /\ a \in Seq(Frames)
      /\ Timed(d) /\ Side(d, q, s, a, FALSE) /\ Side(q, d, a, s, FALSE)
  BY <1>1, CalmHead
<1>3. /\ Linked(dl["ms"], dl["bts"], pipe["ms"], pipe["bts"], FALSE, FALSE)
      /\ Alone(dl["ms"], dl["bts"], pipe["ms"], pipe["bts"])
      /\ Calm(dl["ms"], dl["bts"], pipe["ms"], pipe["bts"])
  BY LinkAttended, LinkEnds DEF CalmInv
<1>4. e = "bts" => dl["ms"].state # "SABM_SENT"
  <2> SUFFICES ASSUME e = "bts", dl["ms"].state = "SABM_SENT" PROVE FALSE
    OBVIOUS
  <2>1. Peer(e) = "ms"
    BY DEF Peer
  <2>2. One(pipe["ms"], "SABM")
    BY <1>3, <2>1 DEF Alone
  <2>3. f.k = "SABM"
    BY <2>1, <2>2, OneParts
  <2> QED
    BY <1>1, <2>3 DEF Numbered
<1>5. CASE d.state = "MF_EST"
  <2>1. Direction(d, q, s, a)
    BY <1>2, <1>5 DEF Side, Established
  <2>2. Window(d) /\ f.nr \in {d.va, d.vs}
    BY <1>1, <1>2, <2>1 DEF Direction, Acks
  <2>3. f.k = "I" => f.ns = d.vr
    BY <1>2 DEF Side
  <2>4. PICK x, out :
          /\ Takes(d, f, x, out)
          /\ Reply(e, x, out, Alarm((f.k # "I" /\ Unexpected(d, f)) \/ SeqError(d, f.nr)))
    BY <1>2, <1>5, <2>2, <2>3, CalmTakes
  <2>5. ~SeqError(d, f.nr) /\ (f.k # "I" => ~Unexpected(d, f))
    BY <1>1, <1>2, <2>1, NoAlarm
  <2>6. Reply(e, x, out, {})
    BY <2>4, <2>5 DEF Alarm
  <2>7. CASE e = "ms"
    <3>1. Peer(e) = "bts"
      BY <2>7 DEF Peer
    <3>2. Calm(x, dl["bts"], pipe["ms"] \o out, Tail(pipe["bts"]))
      BY <1>1, <1>2, <1>3, <1>5, <2>4, <2>7, <3>1, CalmTakenMs
    <3> QED
      BY <2>6, <2>7, <3>2 DEF CalmAfter
  <2>8. CASE e = "bts"
    <3>1. Peer(e) = "ms"
      BY <2>8 DEF Peer
    <3>2. Calm(dl["ms"], x, Tail(pipe["ms"]), pipe["bts"] \o out)
      BY <1>1, <1>2, <1>3, <1>4, <1>5, <2>4, <2>8, <3>1, CalmTakenBts
    <3> QED
      BY <2>6, <2>8, <3>2 DEF CalmAfter
  <2> QED
    BY <2>7, <2>8 DEF Entities
<1>6. CASE d.state # "MF_EST"
  <2>1. d.state \in Inactive
    BY <1>2, <1>6 DEF Timed, Inactive, Datalinks, States
  <2>2. DmIfPolled(d, f) = <<>> /\ ~Unexpected(d, f)
    BY <1>2 DEF DmIfPolled, Unexpected
  <2>3. Reply(e, d, <<>>, {})
    <3>1. CASE Supervisory(e)
      BY <2>1, <2>2, <3>1, SupervisoryCases DEF Alarm
    <3>2. CASE Information(e)
      BY <2>1, <2>2, <3>2, InformationCases
    <3> QED
      BY <3>1, <3>2
  <2>4. CASE e = "ms"
    <3>1. Peer(e) = "bts" /\ d.state \in {"IDLE", "SABM_SENT"}
      BY <1>3, <2>1, <2>4 DEF Peer, Linked, Control, MsAnswers, Inactive
    <3>2. Calm(d, dl["bts"], pipe["ms"] \o <<>>, Tail(pipe["bts"]))
      BY <1>1, <1>2, <1>3, <2>4, <3>1, CalmDroppedMs
    <3> QED
      BY <2>3, <2>4, <3>2 DEF CalmAfter
  <2>5. CASE e = "bts"
    <3>1. Peer(e) = "ms" /\ d.state \in {"IDLE", "DISC_SENT"}
      BY <1>3, <2>1, <2>5 DEF Peer, Alone, Inactive
    <3>2. Calm(dl["ms"], d, Tail(pipe["ms"]), pipe["bts"] \o <<>>)
      BY <1>1, <1>2, <1>3, <1>4, <2>5, <3>1, CalmDroppedBts
    <3> QED
      BY <2>3, <2>5, <3>2 DEF CalmAfter
  <2> QED
    BY <2>4, <2>5 DEF Entities
<1> QED
  BY <1>5, <1>6

-----------------------------------------------------------------------------
(* A step of a link on which nothing was lost. *)
Unalarmed == ~failed["ms"] /\ ~failed["bts"]

LEMMA UnalarmedAttended ==
  ASSUME TypeInv
  PROVE  Attended <=> Unalarmed
BY DEF Attended, Unalarmed, Entities

LEMMA CalmReceive ==
  ASSUME TypeInv, OpenInv, LinkInv, Unalarmed, CalmInv, NEW e \in Entities, Receive(e)
  PROVE  Unalarmed' /\ CalmInv'
<1>1. pipe[Peer(e)] # <<>> /\ Attended
  BY DEF Receive
<1>2. PICK x, out, prims : Reply(e, x, out, prims) /\ "MDL_ERROR" \notin prims /\ CalmAfter(e, x, out)
  BY <1>1, CalmGetsSabm, CalmGetsDm, CalmGetsDisc, CalmGetsUa, CalmGetsNumbered DEF Receive
<1>3. Peer(e) \in Entities /\ Peer(e) # e
  BY Peers
<1>4. dl'[e] = x /\ dl'[Peer(e)] = dl[Peer(e)]
  BY <1>2, <1>3 DEF Reply, TypeInv
<1>5. pipe'[e] = pipe[e] \o out /\ pipe'[Peer(e)] = Tail(pipe[Peer(e)])
  BY <1>2, <1>3 DEF Reply, TypeInv
<1>6. failed'[e] = (failed[e] \/ "MDL_ERROR" \in prims) /\ failed'[Peer(e)] = failed[Peer(e)]
  BY <1>2, <1>3 DEF Reply, Tell, TypeInv
<1>7. Unalarmed'
  BY <1>2, <1>6 DEF Unalarmed, Entities, Peer
<1>8. CASE e = "ms"
  <2>1. Peer(e) = "bts"
    BY <1>8 DEF Peer
  <2>2. Calm(x, dl["bts"], pipe["ms"] \o out, Tail(pipe["bts"]))
    BY <1>2, <1>8 DEF CalmAfter
  <2> QED
    BY <1>4, <1>5, <1>7, <1>8, <2>1, <2>2 DEF CalmInv
<1>9. CASE e = "bts"
  <2>1. Peer(e) = "ms"
    BY <1>9 DEF Peer
  <2>2. Calm(dl["ms"], x, Tail(pipe["ms"]), pipe["bts"] \o out)
    BY <1>2, <1>9 DEF CalmAfter
  <2> QED
    BY <1>4, <1>5, <1>7, <1>9, <2>1, <2>2 DEF CalmInv
<1> QED
  BY <1>8, <1>9 DEF Entities

LEMMA CalmDataReq ==
  ASSUME TypeInv, OpenInv, LinkInv, Unalarmed, CalmInv, NEW e \in Entities, NEW k \in Msgs, DataReq(e, k)
  PROVE  Unalarmed' /\ CalmInv'
<1> DEFINE b == [dl[e] EXCEPT !.queue = Append(@, k)]
<1>1. dl[e] \in Datalinks /\ dl[e].state \in Established /\ Timed(dl[e])
  BY DEF TypeInv, DataReq, Established, CalmInv, Calm, Entities
<1>2. dl[e].state = "MF_EST" /\ Due(dl[e])
  BY <1>1 DEF Timed, Established
<1>3. b \in Datalinks /\ SameSender(dl[e], b) /\ SameReceiver(dl[e], b) /\ b.t200 = dl[e].t200
  <2>1. Append(dl[e].queue, k) \in Seq(Msgs)
    BY <1>1 DEF Datalinks
  <2> QED
    BY <1>1, <2>1 DEF Datalinks, SameSender, SameReceiver
<1>4. Send(e, SendI(b).d, SendI(b).out) /\ failed' = failed /\ Attended
  BY DEF DataReq
<1> HIDE DEF b
<1>5. Due(b)
  BY <1>2, <1>3 DEF Due, SameSender
<1>6. /\ dl'[e] = SendI(b).d /\ dl'[Peer(e)] = dl[Peer(e)]
      /\ pipe'[e] = pipe[e] \o SendI(b).out /\ pipe'[Peer(e)] = pipe[Peer(e)]
  BY <1>4, LinkSent
<1>7. /\ Linked(dl["ms"], dl["bts"], pipe["ms"], pipe["bts"], FALSE, FALSE)
      /\ Calm(dl["ms"], dl["bts"], pipe["ms"], pipe["bts"])
  BY <1>4, LinkAttended DEF CalmInv
<1>8. /\ dl["ms"] \in Datalinks /\ dl["bts"] \in Datalinks
      /\ pipe["ms"] \in Seq(Frames) /\ pipe["bts"] \in Seq(Frames)
  BY LinkEnds
<1>9. Unalarmed'
  BY <1>4 DEF Unalarmed
<1>10. CASE e = "ms"
  <2>1. Calm(SendI(b).d, dl["bts"], pipe["ms"] \o SendI(b).out, pipe["bts"])
    BY <1>2, <1>3, <1>5, <1>7, <1>8, <1>10, CalmDataMs
  <2> QED
    BY <1>6, <1>9, <1>10, <2>1 DEF CalmInv, Peer
<1>11. CASE e = "bts"
  <2>1. Calm(dl["ms"], SendI(b).d, pipe["ms"], pipe["bts"] \o SendI(b).out)
    BY <1>2, <1>3, <1>5, <1>7, <1>8, <1>11, CalmDataBts
  <2> QED
    BY <1>6, <1>9, <1>11, <2>1 DEF CalmInv, Peer
<1> QED
  BY <1>10, <1>11 DEF Entities

LEMMA CalmRelReq ==
  ASSUME TypeInv, OpenInv, LinkInv, OneLink, Unalarmed, CalmInv, NEW e \in Entities, RelReq(e)
  PROVE  Unalarmed' /\ CalmInv'
<1> DEFINE x == FlushHist(dl[e])
           a == NewState(x, "DISC_SENT")
           d == [a EXCEPT !.vs = 0, !.ctr = 0, !.t200 = TRUE]
           u == U("DISC", TRUE, "none")
<1>1. dl[e] \in Datalinks
  BY DEF TypeInv
<1>2. Send(e, d, <<u>>) /\ failed' = failed
  BY DEF RelReq
<1>3. x \in Datalinks
  BY <1>1, FlushType
<1> HIDE DEF x
<1>4. a \in Datalinks /\ a.state = "DISC_SENT"
  BY <1>3, NewStateKeeps DEF States
<1> HIDE DEF a
<1>5. d.state = "DISC_SENT"
  BY <1>4 DEF Datalinks
<1> HIDE DEF d
<1>6. u \in Frames /\ u.k = "DISC" /\ u.f
  BY <1>1, FramesMade DEF U
<1> HIDE DEF u
<1>7. e = "bts"
  <2>1. asked["ms"] # 0
    <3>1. CASE e = "ms"
      BY <3>1 DEF RelReq, OpenInv, Untouched
    <3>2. CASE e = "bts"
      BY <3>2 DEF RelReq, OpenInv, Untouched, Datalink
    <3> QED
      BY <3>1, <3>2 DEF Entities
  <2>2. asked["ms"] \in 0..1
    BY DEF OneLink, TypeInv, Entities
  <2> QED
    BY <2>1, <2>2 DEF RelReq, OneLink, Entities
<1>8. dl["bts"].state = "MF_EST"
  BY <1>7 DEF RelReq, OpenInv, CalmInv, Calm, Timed
<1>9. /\ dl'["bts"] = d /\ dl'["ms"] = dl["ms"]
      /\ pipe'["bts"] = pipe["bts"] \o <<u>> /\ pipe'["ms"] = pipe["ms"]
  BY <1>2, <1>7, LinkSent DEF Peer
<1>10. pipe["ms"] \in Seq(Frames) /\ pipe["bts"] \in Seq(Frames)
  BY LinkEnds
<1>11. Calm(dl["ms"], d, pipe["ms"], pipe["bts"] \o <<u>>)
  BY <1>5, <1>6, <1>8, <1>10, CalmReleases DEF CalmInv
<1> QED
  BY <1>2, <1>9, <1>11 DEF CalmInv, Unalarmed

LEMMA CalmEstReq ==
  ASSUME TypeInv, OpenInv, OneLink, NEW e \in Entities, EstReq(e)
  PROVE  Unalarmed' /\ CalmInv'
<1>1. e = "ms" /\ Untouched
  BY DEF EstReq, OneLink, OpenInv, TypeInv
<1>2. PICK c \in Contents :
        /\ LET d == [FlushHist(FlushSend(dl[e])) EXCEPT !.rcv = <<>>, !.vs = 0, !.ctr = 0] IN
           Send(e, [NewState(d, "SABM_SENT") EXCEPT !.content = c, !.t200 = TRUE], <<U("SABM", TRUE, c)>>)
        /\ Attended /\ failed' = [failed EXCEPT ![e] = FALSE]
  BY DEF EstReq
<1> DEFINE x == FlushHist(FlushSend(dl["ms"]))
           d == Opened(x, c)
           u == U("SABM", TRUE, c)
<1>3. Send("ms", d, <<u>>) /\ failed' = [failed EXCEPT !["ms"] = FALSE]
  BY <1>1, <1>2 DEF Opened
<1>4. dl["bts"] = Datalink /\ pipe["ms"] = <<>> /\ pipe["bts"] = <<>>
  BY <1>1 DEF Untouched, Entities
<1>5. x \in Datalinks
  BY FlushType DEF TypeInv, Entities
<1> HIDE DEF x
<1>6. d.state = "SABM_SENT" /\ d.content = c
  <2>1. PICK k \in {"none", x.contres} :
          d = [x EXCEPT !.rcv = <<>>, !.vs = 0, !.ctr = 0, !.state = "SABM_SENT",
                        !.contres = k, !.content = c, !.t200 = TRUE]
    BY <1>5, OpenedFields, ZenonT(60)
  <2> HIDE DEF d
  <2> QED
    BY <1>5, <2>1 DEF Datalinks
<1> HIDE DEF d
<1>7. u \in Frames /\ u.k = "SABM" /\ u.f /\ u.info = c
  BY DEF U, Frames
<1> HIDE DEF u
<1>8. /\ dl'["ms"] = d /\ dl'["bts"] = dl["bts"]
      /\ pipe'["ms"] = pipe["ms"] \o <<u>> /\ pipe'["bts"] = pipe["bts"]
  BY <1>3, LinkSent DEF Entities, Peer
<1>9. pipe'["ms"] = <<u>> /\ pipe'["bts"] = <<>>
  BY <1>4, <1>8
<1>10. Unalarmed'
  BY <1>2, <1>3 DEF TypeInv, Attended, Entities, Unalarmed
<1>11. dl["bts"].state = "IDLE" /\ dl["bts"].t200 = FALSE
  BY <1>4 DEF Datalink
<1>12. Calm(d, dl["bts"], <<u>>, <<>>)
  BY <1>6, <1>7, <1>11, CalmCalls
<1> QED
  BY <1>8, <1>9, <1>10, <1>12 DEF CalmInv

(* T200 does not expire once nothing is under way. *)
LEMMA CalmNeverExpires ==
  ASSUME TypeInv, OpenInv, LinkInv, CalmInv, NEW e \in Entities, NoneUnderWay
  PROVE  ~MayExpire(e)
<1> SUFFICES ASSUME MayExpire(e) PROVE FALSE
  OBVIOUS
<1>1. /\ pipe["ms"] = <<>> /\ pipe["bts"] = <<>>
      /\ Linked(dl["ms"], dl["bts"], <<>>, <<>>, FALSE, FALSE)
  BY LinkExpires
<1>2. Calm(dl["ms"], dl["bts"], <<>>, <<>>)
  BY <1>1 DEF CalmInv
<1>3. dl["ms"].state \in States /\ dl["bts"].state \in States
  BY LinkEnds DEF Datalinks
<1>4. dl["bts"].state # "SABM_SENT" /\ dl["ms"].state # "DISC_SENT"
  BY <1>1 DEF OpenInv, Linked, Control, MsAnswers
<1>5. ~dl["ms"].t200 /\ ~dl["bts"].t200
  BY <1>2, <1>3, <1>4, CalmWaits
<1> QED
  BY <1>5 DEF MayExpire, Entities

(* As long as nothing is lost or late. *)
LostInv == lost = 0 /\ late = 0 => Unalarmed /\ CalmInv

LEMMA LostInit == LapdInit => LostInv
<1> SUFFICES ASSUME LapdInit PROVE Unalarmed /\ CalmInv
  BY DEF LostInv
<1>1. /\ dl["ms"] = Datalink /\ dl["bts"] = Datalink /\ pipe["ms"] = <<>> /\ pipe["bts"] = <<>>
      /\ Unalarmed
  BY DEF LapdInit, Entities, Unalarmed
<1>2. Within(<<>>) = {} /\ Datalink.state = "IDLE" /\ Datalink.t200 = FALSE
  BY NoFrame DEF Datalink
<1>3. Calm(Datalink, Datalink, <<>>, <<>>)
  BY <1>2 DEF Calm, Timed, Plain, Called, Left, Lacks, AtMostOne, Moves
<1> QED
  BY <1>1, <1>3 DEF CalmInv

LEMMA LostStep ==
  ASSUME TypeInv, LateInv, OneLink, late = 0 => OpenInv /\ LinkInv, LostInv, [LapdNext]_vars
  PROVE  LostInv'
<1> SUFFICES ASSUME late' = 0 PROVE LostInv'
  BY DEF LostInv
<1>0. late = 0 /\ OpenInv /\ LinkInv
  BY LateStep
<1>1. CASE UNCHANGED vars
  BY <1>1 DEF vars, LostInv, Unalarmed, CalmInv
<1>2. ASSUME NEW e \in Entities, Lose(e) \/ Collide PROVE LostInv'
  BY <1>2 DEF Lose, Collide, LostInv, TypeInv
<1>3. CASE lost # 0
  <2>1. ASSUME LapdNext PROVE lost' # 0
    <3>1. ASSUME NEW e \in Entities, EstReq(e) \/ RelReq(e) \/ LocalRelease(e) PROVE lost' = lost
      BY <3>1 DEF EstReq, RelReq, LocalRelease, Send
    <3>2. ASSUME NEW e \in Entities, NEW m \in Msgs, DataReq(e, m) PROVE lost' = lost
      BY <3>2 DEF DataReq, Send
    <3>3. ASSUME NEW e \in Entities, T200(e) PROVE lost' = lost
      BY <3>3 DEF T200, T200EstRel, T200Recovery, Send
    <3>4. ASSUME NEW e \in Entities, Receive(e) PROVE lost' = lost
      BY <3>4 DEF Receive, Sabm, Dm, Disc, Ua, Supervisory, Information, Reply
    <3>5. ASSUME NEW e \in Entities, Lose(e) \/ Collide PROVE lost' # 0
      BY <3>5 DEF Lose, Collide, TypeInv
    <3> QED
      BY <1>3, <2>1, <3>1, <3>2, <3>3, <3>4, <3>5 DEF LapdNext, InTime, Entities
  <2> QED
    BY <1>1, <2>1 DEF LostInv
<1>4. CASE lost = 0
  <2>1. Unalarmed /\ CalmInv
    BY <1>0, <1>4 DEF LostInv
  <2>2. ASSUME NEW e \in Entities, Receive(e) PROVE Unalarmed' /\ CalmInv'
    BY <1>0, <2>1, <2>2, CalmReceive
  <2>3. ASSUME NEW e \in Entities, NEW m \in Msgs, DataReq(e, m) PROVE Unalarmed' /\ CalmInv'
    BY <1>0, <2>1, <2>3, CalmDataReq
  <2>4. ASSUME NEW e \in Entities, EstReq(e) PROVE Unalarmed' /\ CalmInv'
    BY <1>0, <2>4, CalmEstReq
  <2>5. ASSUME NEW e \in Entities, RelReq(e) PROVE Unalarmed' /\ CalmInv'
    BY <1>0, <2>1, <2>5, CalmRelReq
  <2>6. ASSUME NEW e \in Entities PROVE ~LocalRelease(e)
    BY <2>1 DEF LocalRelease, Unalarmed, Entities
  <2>7. ASSUME NEW e \in Entities PROVE ~T200(e)
    <3> SUFFICES ASSUME T200(e) PROVE FALSE
      OBVIOUS
    <3>1. MayExpire(e)
      BY DEF T200, T200EstRel, T200Recovery
    <3>2. NoneUnderWay
      BY <3>1, InTimeExpiry
    <3> QED
      BY <1>0, <2>1, <3>1, <3>2, CalmNeverExpires
  <2> QED
    BY <1>1, <1>2, <2>2, <2>3, <2>4, <2>5, <2>6, <2>7 DEF LapdNext, InTime, LostInv, Entities
<1> QED
  BY <1>3, <1>4

(* Layer 3 is told of an error only if the radio lost a frame or T200 expired
   with a frame still under way: without either no sequence number is outside
   the window, no response comes without its poll, and T200 is stopped by every
   answer, so that it does not expire once all has arrived (lapd_acknowledge,
   lapd_rx_s, lapd_rx_u, lapd_t200_cb), for every range of the numbers and every
   limit of repetitions, when the mobile establishes the link once. *)
THEOREM NoFalseAlarmAlways ==
  OneLink => (Spec => []NoFalseAlarm)
<1> SUFFICES ASSUME OneLink PROVE Spec => []NoFalseAlarm
  OBVIOUS
<1>1. TypeInv /\ LateInv /\ (late = 0 => OpenInv) /\ [LapdNext]_vars => (late = 0 => OpenInv)'
  BY OpenStep, LateStep
<1>2. TypeInv /\ LateInv /\ (late = 0 => OpenInv /\ LinkInv) /\ [LapdNext]_vars => (late = 0 => LinkInv)'
  BY LinkInvStep, LateStep
<1>3. TypeInv /\ LateInv /\ (late = 0 => OpenInv /\ LinkInv) /\ LostInv /\ [LapdNext]_vars => LostInv'
  BY LostStep
<1>4. TypeInv /\ LateInv /\ LostInv => NoFalseAlarm
  BY DEF TypeInv, LateInv, LostInv, Unalarmed, NoFalseAlarm, Entities
<1> QED
  BY <1>1, <1>2, <1>3, <1>4, OpenInit, LinkInit, LostInit, TypesHold, PTL DEF Spec
=============================================================================
