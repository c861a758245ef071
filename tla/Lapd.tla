-------------------------------- MODULE Lapd --------------------------------
(***************************************************************************)
(* The acknowledged data link of libosmocore (gsm/lapd_core.c, with the    *)
(* parameters and the mapping to frames of gsm/lapdm.c): two entities, a   *)
(* mobile and a base station running the same code, over a radio link that *)
(* keeps the order of frames but may lose them.                            *)
(*                                                                         *)
(* lapdm_dl_init fixes the window to one frame (k = 1), switches off T203  *)
(* and reestablishment, and nothing sets own_busy, so RNR frames, a busy   *)
(* peer and lapd_reestablish do not occur.  A handler runs to its end      *)
(* before the next, so a handler is one action.  A frame is rejected for   *)
(* its format or length only if the peer does not run this code.           *)
(*                                                                         *)
(* A definition whose name begins with "Wrong" is a plausible mistake in   *)
(* the one that follows it, and not part of the model.                     *)
(***************************************************************************)
EXTENDS Integers, Sequences

CONSTANTS
  Msgs,         \* layer 3 messages
  Parts,        \* number of segments of N201 octets of each message
  Contents,     \* what an establishing SABM carries, "none" for nothing
  VRange,       \* range of the state variables, a power of two
  N200,         \* retransmissions of an I frame
  N200EstRel,   \* retransmissions of SABM and DISC
  MaxLost,      \* bound: frames lost
  MaxLate,      \* bound: times T200 expires while frames are under way
  MaxSent,      \* bound: messages accepted from layer 3
  MaxEst,       \* bound: establishments and releases asked for by an entity
  Initiators    \* entities whose layer 3 establishes the link

ASSUME LapdAssumption ==
  /\ Parts \in [Msgs -> Nat \ {0}]
  /\ "none" \notin Msgs
  /\ VRange \in Nat /\ VRange >= 4 /\ VRange % 2 = 0 /\ N200 \in Nat \ {0} /\ N200EstRel \in Nat
  /\ MaxLost \in Nat /\ MaxLate \in Nat /\ MaxSent \in Nat /\ MaxEst \in Nat

VARIABLES
  dl,       \* struct lapd_datalink of each entity
  pipe,     \* frames sent by each entity and still under way
  lost,     \* number of frames lost
  late,     \* number of times T200 expired with frames still under way
  view,     \* what layer 3 of each entity was last told of the link
  failed,   \* layer 3 of an entity was told of an error (MDL-ERROR)
  asked,    \* establishments and releases asked for
  sent,     \* history: messages accepted from layer 3 of each entity
  got       \* history: messages given to layer 3 of each entity, as segments

vars == <<dl, pipe, lost, late, view, failed, asked, sent, got>>

Entities == {"ms", "bts"}
Peer(e) == IF e = "ms" THEN "bts" ELSE "ms"

States == {"IDLE", "SABM_SENT", "MF_EST", "TIMER_RECOV", "DISC_SENT"}
Numbers == 0..VRange - 1
Segment == [msg : Msgs, part : Nat \ {0}]
None == [msg |-> "none", part |-> 0]
More(s) == s.part < Parts[s.msg]
Inc(v) == (v + 1) % VRange
Dec(v) == (v + VRange - 1) % VRange

-----------------------------------------------------------------------------
(* Frames.  f is the P or F bit.  SABM, DISC and I frames are commands, UA,
   DM and REJ frames responses; RR is a command when it polls. *)
U(k, f, info) == [k |-> k, f |-> f, info |-> info]
I(d, ns, f, seg) == [k |-> "I", f |-> f, ns |-> ns, nr |-> d.vr, seg |-> seg]
RR(d, f, cmd) == [k |-> "RR", f |-> f, nr |-> d.vr, cmd |-> cmd]
REJ(d, f) == [k |-> "REJ", f |-> f, nr |-> d.vr, cmd |-> FALSE]

(* lapd_dl_init *)
Datalink ==
  [state |-> "IDLE", vs |-> 0, vr |-> 0, va |-> 0, hist |-> <<None, None>>, content |-> "none",
   queue |-> <<>>, buf |-> "none", out |-> 0, rcv |-> <<>>, ctr |-> 0, t200 |-> FALSE, err |-> 0,
   contres |-> "none"]

LapdInit ==
  /\ dl = [e \in Entities |-> Datalink]
  /\ pipe = [e \in Entities |-> <<>>]
  /\ lost = 0 /\ late = 0
  /\ view = [e \in Entities |-> "down"]
  /\ failed = [e \in Entities |-> FALSE]
  /\ asked = [e \in Entities |-> 0]
  /\ sent = [e \in Entities |-> <<>>]
  /\ got = [e \in Entities |-> <<>>]

(* Place of a frame number in tx_hist (range_hist = 2 for k = 1). *)
H(v) == (v % 2) + 1

(* lapd_dl_newstate: leaving MF_EST removes the stored SABM content. *)
NewState(d, s) ==
  [d EXCEPT !.state = s, !.contres = IF d.state = "MF_EST" /\ s # "MF_EST" THEN "none" ELSE @]
FlushHist(d) == [d EXCEPT !.hist = <<None, None>>, !.content = "none"]
FlushSend(d) == [d EXCEPT !.queue = <<>>, !.buf = "none"]
Stop(d) == [d EXCEPT !.t200 = FALSE]
ToIdle(d) == NewState(FlushSend(FlushHist(Stop(d))), "IDLE")
Connected(d) ==
  NewState(FlushHist([d EXCEPT !.vs = 0, !.vr = 0, !.va = 0]), "MF_EST")

(***************************************************************************)
(* lapd_send_i.  With k = 1 its loop sends at most one frame: the next one *)
(* of the history, or the next segment of the message in the send buffer,  *)
(* or the first of the next message of the queue.                          *)
(***************************************************************************)
Loaded(d) ==
  IF (d.buf = "none" \/ d.out = Parts[d.buf]) /\ d.hist[H(d.vs)] = None
  THEN IF d.queue = <<>> THEN [d EXCEPT !.buf = "none", !.out = 0]
       ELSE [d EXCEPT !.buf = Head(d.queue), !.queue = Tail(@), !.out = 0]
  ELSE d

WrongMaySend(d) == d.state # "TIMER_RECOV"
MaySend(d) == d.state # "TIMER_RECOV" /\ d.vs # Inc(d.va)
HasNext(d) == d.hist[H(d.vs)] # None \/ d.buf # "none"
NextSegment(d) == IF d.hist[H(d.vs)] # None THEN d.hist[H(d.vs)]
                  ELSE [msg |-> d.buf, part |-> d.out + 1]
WrongFrameSent(d) ==
  [d EXCEPT !.vs = Inc(@), !.hist[H(d.vs)] = NextSegment(d),
            !.out = IF d.hist[H(d.vs)] = None THEN @ + 1 ELSE @]
FrameSent(d) ==
  [d EXCEPT !.vs = Inc(@), !.hist[H(d.vs)] = NextSegment(d), !.t200 = TRUE,
            !.out = IF d.hist[H(d.vs)] = None THEN @ + 1 ELSE @]

SendI(d) ==
  LET l == Loaded(d) IN
  IF ~MaySend(d) THEN [d |-> d, out |-> <<>>]
  ELSE IF ~HasNext(l) THEN [d |-> l, out |-> <<>>]
  ELSE [d |-> FrameSent(l), out |-> <<I(l, l.vs, FALSE, NextSegment(l))>>]

(***************************************************************************)
(* lapd_acknowledge, for a frame f that carries N(R).                      *)
(***************************************************************************)
Acked(d, nr) ==
  [d EXCEPT !.hist = [h \in 1..2 |->
     IF \E i \in 0..VRange - 1 : /\ (i + VRange - d.va) % VRange < (nr + VRange - d.va) % VRange
                                 /\ H(i) = h
     THEN None ELSE @[h]]]

WrongSeqError(d, nr) ==
  d.state # "TIMER_RECOV" /\ (nr + VRange - d.va) % VRange >= (d.vs + VRange - d.va) % VRange
SeqError(d, nr) ==
  d.state # "TIMER_RECOV" /\ (nr + VRange - d.va) % VRange > (d.vs + VRange - d.va) % VRange

Acknowledge(d, f) ==
  LET a == [Acked(d, f.nr) EXCEPT !.va = f.nr]
      reset == d.state # "TIMER_RECOV" /\ (f.k # "REJ" <=> f.nr # d.va)
  IN [a EXCEPT !.t200 = IF reset THEN f.k # "REJ" /\ a.hist[H(Dec(d.vs))] # None ELSE @]

-----------------------------------------------------------------------------
(***************************************************************************)
(* The end of every handler of entity e: the data link becomes d, frames   *)
(* out are sent, and layer 3 is told prims.                                *)
(***************************************************************************)
Tell(e, prims) ==
  /\ view' = [view EXCEPT ![e] = IF prims \cap {"EST_IND", "EST_CONF"} # {} THEN "up"
                                 ELSE IF prims \cap {"REL_IND", "REL_CONF"} # {} THEN "down" ELSE @]
  /\ failed' = [failed EXCEPT ![e] = @ \/ "MDL_ERROR" \in prims]

Send(e, d, out) ==
  /\ dl' = [dl EXCEPT ![e] = d]
  /\ pipe' = [pipe EXCEPT ![e] = @ \o out]
  /\ lost' = lost

(* ... and the frame at the head of the peer's pipe was received. *)
Reply(e, d, out, prims) ==
  /\ dl' = [dl EXCEPT ![e] = d]
  /\ pipe' = [pipe EXCEPT ![Peer(e)] = Tail(@), ![e] = @ \o out]
  /\ Tell(e, prims)
  /\ UNCHANGED <<lost, asked, sent>>

Quiet == UNCHANGED got

-----------------------------------------------------------------------------
(* Requests of layer 3, which asks for what it does not have and answers an
   error before it does anything else. *)
Attended == \A e \in Entities : ~failed[e]

EstReq(e) == \E c \in Contents :
  /\ e \in Initiators
  /\ Attended /\ view[e] = "down" /\ asked[e] < MaxEst
  /\ dl[e].state = "IDLE"
  /\ LET d == [FlushHist(FlushSend(dl[e])) EXCEPT !.rcv = <<>>, !.vs = 0, !.ctr = 0] IN
     Send(e, [NewState(d, "SABM_SENT") EXCEPT !.content = c, !.t200 = TRUE], <<U("SABM", TRUE, c)>>)
  /\ view' = [view EXCEPT ![e] = "asked"]
  /\ failed' = [failed EXCEPT ![e] = FALSE]
  /\ asked' = [asked EXCEPT ![e] = @ + 1]
  /\ UNCHANGED <<sent, got>>

DataReq(e, m) ==
  /\ Attended /\ view[e] = "up" /\ Len(sent[e]) + Len(sent[Peer(e)]) < MaxSent
  /\ dl[e].state \in {"MF_EST", "TIMER_RECOV"}
  /\ LET s == SendI([dl[e] EXCEPT !.queue = Append(@, m)]) IN Send(e, s.d, s.out)
  /\ sent' = [sent EXCEPT ![e] = Append(@, m)]
  /\ UNCHANGED <<view, failed, asked, got>>

(* lapd_rel_req: normal release *)
RelReq(e) ==
  /\ Attended /\ view[e] = "up" /\ asked[e] < MaxEst
  /\ dl[e].state \in {"SABM_SENT", "MF_EST", "TIMER_RECOV"}
  /\ LET d == [NewState(FlushHist(dl[e]), "DISC_SENT") EXCEPT !.vs = 0, !.ctr = 0, !.t200 = TRUE] IN
     Send(e, d, <<U("DISC", TRUE, "none")>>)
  /\ view' = [view EXCEPT ![e] = "asked"]
  /\ asked' = [asked EXCEPT ![e] = @ + 1]
  /\ UNCHANGED <<failed, sent, got>>

(* lapd_rel_req: local release, with which layer 3 answers an error
   (gsm48_rr_mdl_error_ind) *)
LocalRelease(e) ==
  /\ failed[e]
  /\ Send(e, IF dl[e].state = "IDLE" THEN dl[e] ELSE ToIdle(dl[e]), <<>>)
  /\ view' = [view EXCEPT ![e] = "down"]
  /\ failed' = [failed EXCEPT ![e] = FALSE]
  /\ UNCHANGED <<asked, sent, got>>

-----------------------------------------------------------------------------
(* lapd_rx_u *)

(* SABM: establishment by the peer, its repetition, or a collision *)
Sabm(e) == \E f \in {Head(pipe[Peer(e)])} : LET d == [dl[e] EXCEPT !.err = 0] IN
  /\ f.k = "SABM"
  /\ \/ /\ d.state = "IDLE" \/ (d.state = "MF_EST" /\ d.vs # d.vr)
        /\ LET c == Connected(d) IN
           Reply(e, [c EXCEPT !.contres = IF e = "bts" /\ f.info # "none" THEN f.info ELSE @],
                 <<U("UA", f.f, f.info)>>,
                 {"EST_IND"} \cup IF d.state = "MF_EST" THEN {"MDL_ERROR"} ELSE {})
     \/ /\ d.state = "MF_EST" /\ d.vs = d.vr
        (* memcmp compares the message with the structure that holds the
           stored content: it always differs *)
        /\ Reply(e, d, IF e = "bts" /\ f.info # "none" /\ d.contres # "none" THEN <<>>
                       ELSE <<U("UA", f.f, f.info)>>, {})
     \/ /\ d.state = "DISC_SENT"
        /\ Reply(e, Stop(d), <<U("DM", f.f, "none")>>, {"EST_IND"})
     \/ /\ d.state \in {"SABM_SENT", "TIMER_RECOV"}
        /\ Reply(e, d, <<U("UA", f.f, f.info)>>, IF d.content # "none" \/ d.hist[1] # None THEN {"MDL_ERROR"} ELSE {})
  /\ Quiet

Dm(e) == \E f \in {Head(pipe[Peer(e)])} : LET d == dl[e] IN
  /\ f.k = "DM"
  /\ \/ /\ ~f.f \/ d.state = "IDLE"
        /\ Reply(e, d, <<>>, {})
     \/ /\ f.f /\ d.state = "MF_EST"
        /\ Reply(e, d, <<>>, {"MDL_ERROR"})
     \/ /\ f.f /\ d.state = "DISC_SENT"
        /\ Reply(e, ToIdle(d), <<>>, {"REL_CONF"})
     \/ /\ f.f /\ d.state \in {"SABM_SENT", "TIMER_RECOV"}
        /\ Reply(e, NewState(Stop(d), "IDLE"), <<>>, {"REL_IND"})
  /\ Quiet

Disc(e) == \E f \in {Head(pipe[Peer(e)])} :
  LET d == [FlushSend(FlushHist(dl[e])) EXCEPT !.err = 0] IN
  /\ f.k = "DISC"
  /\ \/ /\ d.state = "IDLE"
        /\ Reply(e, d, <<U("DM", f.f, "none")>>, {})
     \/ /\ d.state = "SABM_SENT"
        /\ Reply(e, NewState(Stop(d), "IDLE"), <<U("DM", f.f, "none")>>, {"REL_IND"})
     \/ /\ d.state \in {"MF_EST", "TIMER_RECOV", "DISC_SENT"}
        /\ Reply(e, NewState(Stop(d), "IDLE"), <<U("UA", f.f, "none")>>,
                 {IF d.state = "DISC_SENT" THEN "REL_CONF" ELSE "REL_IND"})
  /\ Quiet

(* content of UA against that of SABM *)
Confirms(d, f) == d.content = "none" \/ f.info = d.content

Ua(e) == \E f \in {Head(pipe[Peer(e)])} : LET d == dl[e] IN
  /\ f.k = "UA"
  /\ \/ /\ ~f.f \/ d.state = "IDLE"
        /\ Reply(e, d, <<>>, {})
     \/ /\ f.f /\ d.state \in {"MF_EST", "TIMER_RECOV"}
        /\ Reply(e, d, <<>>, {"MDL_ERROR"})
     \/ /\ f.f /\ d.state = "DISC_SENT"
        /\ Reply(e, ToIdle(d), <<>>, {"REL_CONF"})
     \/ /\ f.f /\ d.state = "SABM_SENT" /\ ~Confirms(d, f)
        /\ Reply(e, ToIdle(d), <<>>, {"REL_IND"})
     \/ /\ f.f /\ d.state = "SABM_SENT" /\ Confirms(d, f)
        /\ LET s == SendI(Connected(Stop(d))) IN Reply(e, s.d, s.out, {"EST_CONF"})
  /\ Quiet

-----------------------------------------------------------------------------
(* lapd_rx_s *)
Inactive == {"IDLE", "SABM_SENT", "DISC_SENT"}
DmIfPolled(d, f) == IF d.state = "IDLE" /\ f.f THEN <<U("DM", f.f, "none")>> ELSE <<>>

Supervisory(e) == \E f \in {Head(pipe[Peer(e)])} : LET d == dl[e] IN
  /\ f.k \in {"RR", "REJ"}
  /\ LET unexpected == ~f.cmd /\ f.f /\ d.state # "TIMER_RECOV" IN
     \/ /\ d.state \in Inactive
        /\ Reply(e, d, DmIfPolled(d, f), IF unexpected THEN {"MDL_ERROR"} ELSE {})
     \/ /\ d.state \notin Inactive /\ f.k = "RR"
        /\ LET a == Acknowledge(d, f)
               final == ~f.cmd /\ f.f /\ d.state = "TIMER_RECOV"
               b == IF final THEN NewState(Stop([a EXCEPT !.vs = f.nr]), "MF_EST") ELSE a
               answer == IF f.cmd /\ f.f /\ d.err = 0 THEN <<RR(a, TRUE, FALSE)>> ELSE <<>>
               s == SendI(b)
           IN Reply(e, s.d, answer \o s.out,
                    IF unexpected \/ SeqError(d, f.nr) THEN {"MDL_ERROR"} ELSE {})
     \/ /\ d.state \notin Inactive /\ f.k = "REJ"
        /\ LET a == [Acknowledge(d, f) EXCEPT !.vs = f.nr, !.va = f.nr]
               b == IF d.state # "TIMER_RECOV" THEN Stop(a)
                    ELSE IF f.f THEN NewState(Stop(a), "MF_EST") ELSE a
               s == SendI(b)
           IN Reply(e, s.d, s.out, IF unexpected \/ SeqError(d, f.nr) THEN {"MDL_ERROR"} ELSE {})
  /\ Quiet

(* lapd_rx_i *)
WrongExpected(d, f) == TRUE
Expected(d, f) == f.ns = d.vr

Information(e) == \E f \in {Head(pipe[Peer(e)])} : LET d == dl[e] IN
  /\ f.k = "I"
  /\ \/ /\ d.state \in Inactive
        /\ Reply(e, d, DmIfPolled(d, f), {})
        /\ Quiet
     \/ /\ d.state \notin Inactive /\ ~Expected(d, f)
        /\ LET a == Acknowledge([d EXCEPT !.err = IF @ = 1 THEN 2 ELSE 1], f)
               s == SendI(a)
           IN Reply(e, s.d, (IF d.err = 1 THEN <<>> ELSE <<REJ(d, f.f)>>) \o s.out,
                    IF SeqError(d, f.nr) THEN {"MDL_ERROR"} ELSE {})
        /\ Quiet
     \/ /\ d.state \notin Inactive /\ Expected(d, f)
        /\ LET a == Acknowledge([d EXCEPT !.err = 0, !.vr = Inc(@)], f)
               b == [a EXCEPT !.rcv = IF More(f.seg) THEN Append(@, f.seg) ELSE <<>>]
               s == SendI(b)
               answer == IF f.f THEN <<RR(b, TRUE, FALSE)>>
                         ELSE IF s.out = <<>> THEN <<RR(b, FALSE, FALSE)>> ELSE <<>>
           IN Reply(e, s.d, answer \o s.out, IF SeqError(d, f.nr) THEN {"MDL_ERROR"} ELSE {})
        /\ got' = IF More(f.seg) THEN got
                  ELSE [got EXCEPT ![e] = Append(@, Append(d.rcv, f.seg))]

Receive(e) ==
  /\ Attended /\ pipe[Peer(e)] # <<>>
  /\ Sabm(e) \/ Dm(e) \/ Disc(e) \/ Ua(e) \/ Supervisory(e) \/ Information(e)

-----------------------------------------------------------------------------
(* lapd_t200_cb.  T200 is longer than a frame and its answer take on the radio,
   but the serial link to the phone may delay them (lapd_rx_i): it expires when
   nothing is under way, or too early. *)
MayExpire(e) ==
  /\ Attended /\ dl[e].t200
  /\ \/ (\A x \in Entities : pipe[x] = <<>>) /\ late' = late
     \/ (\E x \in Entities : pipe[x] # <<>>) /\ late < MaxLate /\ late' = late + 1

T200EstRel(e) == LET d == Stop(dl[e]) IN
  /\ MayExpire(e)
  /\ d.state \in {"SABM_SENT", "DISC_SENT"}
  /\ IF d.ctr >= N200EstRel
     THEN /\ Send(e, ToIdle(d), <<>>)
          /\ Tell(e, {"MDL_ERROR", IF d.state = "SABM_SENT" THEN "REL_IND" ELSE "REL_CONF"})
     ELSE /\ Send(e, [d EXCEPT !.ctr = @ + 1, !.t200 = TRUE],
                  <<U(IF d.state = "SABM_SENT" THEN "SABM" ELSE "DISC", TRUE, d.content)>>)
          /\ UNCHANGED <<view, failed>>
  /\ UNCHANGED <<asked, sent, got>>

T200Recovery(e) ==
  LET d == [NewState(Stop(dl[e]), "TIMER_RECOV") EXCEPT
              !.ctr = IF dl[e].state = "MF_EST" THEN 1 ELSE @ + 1]
      last == Dec(d.vs)
  IN
  /\ MayExpire(e)
  /\ dl[e].state \in {"MF_EST", "TIMER_RECOV"}
  /\ IF d.ctr >= N200
     THEN Send(e, d, <<>>) /\ Tell(e, {"MDL_ERROR"})
     ELSE /\ Send(e, [d EXCEPT !.t200 = TRUE],
                  IF d.hist[H(last)] # None THEN <<I(d, last, TRUE, d.hist[H(last)])>>
                  ELSE IF d.err = 0 THEN <<RR(d, TRUE, TRUE)>> ELSE <<>>)
          /\ UNCHANGED <<view, failed>>
  /\ UNCHANGED <<asked, sent, got>>

T200(e) == T200EstRel(e) \/ T200Recovery(e)

(* The radio loses a frame. *)
Lose(e) ==
  /\ Attended /\ pipe[e] # <<>> /\ lost < MaxLost
  /\ pipe' = [pipe EXCEPT ![e] = Tail(@)]
  /\ lost' = lost + 1
  /\ UNCHANGED <<dl, view, failed, asked, sent, got>>

(* A second mobile that was given the same channel sends its SABM in the same
   frame, and it is that one which the base station receives. *)
Collide ==
  /\ Attended /\ pipe["ms"] # <<>> /\ lost < MaxLost
  /\ Head(pipe["ms"]).k = "SABM" /\ Head(pipe["ms"]).info \notin {"none", "other"}
  /\ pipe' = [pipe EXCEPT !["ms"] = <<U("SABM", TRUE, "other")>> \o Tail(@)]
  /\ lost' = lost + 1
  /\ UNCHANGED <<dl, view, failed, asked, sent, got>>

(* Every step that is not a timeout. *)
InTime ==
  \/ \E e \in Entities :
       \/ EstReq(e) \/ RelReq(e) \/ LocalRelease(e)
       \/ \E m \in Msgs : DataReq(e, m)
       \/ Receive(e) \/ Lose(e)
  \/ Collide

LapdNext ==
  \/ InTime /\ late' = late
  \/ \E e \in Entities : T200(e)

Spec == LapdInit /\ [][LapdNext]_vars

(* The link does something while a frame is under way, a timer pending or
   an error unanswered. *)
LinkStep == \E e \in Entities :
  \/ (LocalRelease(e) \/ Receive(e)) /\ late' = late
  \/ T200(e)

FairSpec == Spec /\ WF_vars(LinkStep)

-----------------------------------------------------------------------------
Frames ==
  [k : {"SABM", "DISC", "UA", "DM"}, f : BOOLEAN, info : Contents \cup {"none", "other"}]
    \cup [k : {"I"}, f : BOOLEAN, ns : Numbers, nr : Numbers, seg : Segment]
    \cup [k : {"RR", "REJ"}, f : BOOLEAN, nr : Numbers, cmd : BOOLEAN]
Datalinks ==
  [state : States, vs : Numbers, vr : Numbers, va : Numbers, hist : [1..2 -> Segment \cup {None}],
   content : Contents \cup {"none"}, queue : Seq(Msgs), buf : Msgs \cup {"none"}, out : Nat,
   rcv : Seq(Segment), ctr : Nat, t200 : BOOLEAN, err : 0..2,
   contres : Contents \cup {"none", "other"}]

(* On an established link on which nothing is under way, the next frame an
   entity expects is the next its peer sends or the one it would repeat. *)
InStep ==
  (\A e \in Entities : dl[e].state \in {"MF_EST", "TIMER_RECOV"} /\ pipe[e] = <<>>) =>
    \A e \in Entities : dl[Peer(e)].vr \in {dl[e].va, dl[e].vs}

(* Types; that no entity repeats a command more often than allowed; and that the
   sequence numbers of the two ends stay in step. *)
TypeOK ==
  /\ InStep
  /\ dl \in [Entities -> Datalinks]
  /\ \A e \in Entities : dl[e].state \in {"SABM_SENT", "DISC_SENT"} => dl[e].ctr <= N200EstRel
  /\ pipe \in [Entities -> Seq(Frames)]
  /\ lost \in 0..MaxLost /\ late \in 0..MaxLate
  /\ view \in [Entities -> {"down", "asked", "up"}]
  /\ failed \in [Entities -> BOOLEAN]
  /\ asked \in [Entities -> 0..MaxEst]
  /\ sent \in [Entities -> Seq(Msgs)]
  /\ got \in [Entities -> Seq(Seq(Segment))]

Whole(m) == [p \in 1..Parts[m] |-> [msg |-> m, part |-> p]]

(* Layer 3 is told of an error only if a frame was lost or came later than
   T200: no frame of this code is by itself one its peer calls an error
   (lapd_acknowledge, lapd_rx_s). *)
NoFalseAlarm == \A e \in Entities : failed[e] => lost > 0 \/ late > 0

(* What layer 3 of an entity is given are messages of its peer, whole, in the
   order they were accepted and none twice, even if frames are so late that T200
   expires and they are sent again (lapd_rx_i, lapd_send_i). *)
InOrderOnce == \A e \in Entities :
  \E p \in [1..Len(got[e]) -> 1..Len(sent[Peer(e)])] :
    /\ \A i, j \in DOMAIN p : i < j => p[i] < p[j]
    /\ \A i \in DOMAIN p : got[e][i] = Whole(sent[Peer(e)][p[i]])

-----------------------------------------------------------------------------
(* Refinement: messages that may still be delivered. *)

(* The last segment of the message in the send buffer was received. *)
Received(e) == LET d == dl[e] IN
  /\ d.out = Parts[d.buf]
  /\ d.hist[H(Dec(d.vs))] = None \/ dl[Peer(e)].vr = d.vs

(* Last segments under way from an entity that has released the link. *)
UnderWay(e) == {i \in 1..Len(pipe[e]) :
  LET f == pipe[e][i]
      p == dl[Peer(e)]
  IN /\ f.k = "I" /\ ~More(f.seg)
     /\ \/ p.state \in {"MF_EST", "TIMER_RECOV"} /\ f.ns = p.vr
        \/ p.state = "SABM_SENT" /\ f.ns = 0 /\ \E j \in 1..i - 1 : pipe[e][j].k = "UA"}

Waiting(e) ==
  LET d == dl[e]
      w == (IF d.buf = "none" \/ Received(e) THEN <<>> ELSE <<d.buf>>) \o d.queue
  IN IF d.state \in {"MF_EST", "TIMER_RECOV"} THEN [i \in 1..Len(w) |-> Whole(w[i])]
     ELSE IF UnderWay(e) = {} THEN <<>>
     ELSE <<Whole(pipe[e][CHOOSE i \in UnderWay(e) : TRUE].seg.msg)>>

Service == INSTANCE LinkService WITH
  Messages <- {Whole(m) : m \in Msgs}, waiting <- [e \in Entities |-> Waiting(e)]

(* As long as T200 does not expire early, the link keeps what LinkService
   promises: messages arrive whole, in order and once, and are given up only
   when layer 3 of the sender is told. *)
Implements == Service!Init /\ [][late' = 0 => Service!Next]_Service!svars

(* What an entity accepted is in the end delivered or given up. *)
Settled == \A e \in Entities : []<>(Waiting(e) = <<>>)
=============================================================================
