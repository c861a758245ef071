------------------------------- MODULE MmConn -------------------------------
(***************************************************************************)
(* The connection sublayer of the OsmocomBB phone (layer23/src/mobile):    *)
(* MM connections of gsm48_mm.c, and the part of the radio resource layer  *)
(* (gsm48_rr.c) they are opened and lost by.                               *)
(*                                                                         *)
(* The layers of a phone call each other in both directions and defer some *)
(* calls to queues, so every operation is an operator from the state s of  *)
(* the phone (struct osmocom_ms, a record) to its next state, and a nested *)
(* call is a composition of operators.  The module Mobile makes actions of *)
(* them.  Calls are of SAPI 0 and the only protocol is call control.  Of   *)
(* the location update, which is the module LocUpd's, all that is here is  *)
(* whether the SIM is updated: MM is in normal service when idle if it is, *)
(* and otherwise offers no calls of the phone's own.                       *)
(*                                                                         *)
(* A definition whose name begins with "Wrong" is a plausible mistake in   *)
(* the one that follows it, and not part of the model.                     *)
(***************************************************************************)
EXTENDS Integers, SequencesExt

CONSTANTS
  TiCount,   \* transaction identifiers of own calls (7 in the code)
  MaxMo,     \* bound: calls dialled
  MaxMt      \* bound: connections opened by the network

ASSUME MmAssumption == TiCount \in 1..7 /\ MaxMo \in Nat /\ MaxMt \in 0..7

(* References of connections.  new_callref counts from 1, mm_conn_new_ref
   from 0x80000000, which stands behind the last dialled: the two never meet. *)
MtBase == MaxMo
MoRefs == 1..MaxMo
MtRefs == MtBase + 1..MtBase + MaxMt
Refs == MoRefs \cup MtRefs

(* Transaction identifiers: 0xff is none yet; the network sets bit 3 in its own. *)
NoTi == 255
OwnTis == 0..TiCount - 1
NetTis == 8..7 + MaxMt
Tis == OwnTis \cup NetTis

MmStates == {"MM_IDLE", "WAIT_RR_CONN_MM_CON", "WAIT_OUT_MM_CONN", "WAIT_ADD_OUT_MM_CON",
             "MM_CONN_ACTIVE", "WAIT_NETWORK_CMD"}
RrStates == {"IDLE", "CONN_PEND", "DEDICATED", "REL_PEND"}
Conn == [ref : Refs, ti : Tis \cup {NoTi}, state : {"IDLE", "CONN_PEND", "DEDICATED"}]

-----------------------------------------------------------------------------
(* Radio resource layer.  A message is a record of its type and, if it is
   one of call control, its transaction identifier.  camped stands for the
   state C3 of gsm322.c: it ends when a channel is requested (LEAVE_IDLE) and
   is not back before a cell has been chosen again after the release. *)
Msg(type) == [type |-> type, ti |-> NoTi]
RrUp(s, m) == [s EXCEPT !.rrUp = Append(@, m)]

(* new_rr_state(IDLE) *)
RrIdle(s) == [s EXCEPT !.rr = "IDLE", !.rrEstReq = FALSE]

(* gsm48_rr_est_req.  barred: T3122 is running, SI3 has not been read, or the
   cell is barred for the phone. *)
RrEstReq(s) ==
  IF s.rr # "IDLE" \/ ~s.camped \/ s.barred
  THEN RrUp(s, Msg("REL_IND"))
  ELSE [s EXCEPT !.rr = "CONN_PEND", !.rrEstReq = TRUE, !.camped = FALSE]

(* gsm48_rr_abort_req: a normal release, confirmed later by LAPDm. *)
RrAbortReq(s) ==
  CASE s.rr = "DEDICATED" -> [s EXCEPT !.rr = "REL_PEND"]
    [] s.rr = "CONN_PEND" -> RrIdle(s)
    [] OTHER -> s

(* gsm48_rr_los: LAPDm confirms a local release at once, to the queue of RSL. *)
Los(s) ==
  CASE s.rr = "CONN_PEND" -> RrIdle(RrUp(s, Msg("REL_IND")))
    [] s.rr \in {"DEDICATED", "REL_PEND"} ->
         [s EXCEPT !.rr = "REL_PEND", !.rsl = Append(@, Msg("REL_CONF"))]
    [] OTHER -> s

(* timeout_rr_t3126 and timeout_rr_t_rel_wait *)
T3126Expired(s) == RrIdle(IF s.rrEstReq THEN RrUp(s, Msg("REL_IND")) ELSE s)
RelWaitExpired(s) == [RrIdle(s) EXCEPT !.relWait = FALSE]

(* gsm48_rcv_rll and its table: what LAPDm passes up, among it pagings, the
   system information by which a cell is chosen (gsm322_c_camp_normally), and
   the messages of the network; those not of RR go up to MM. *)
RrMsgs == {"EST_CONF", "REL_IND", "REL_CONF", "ERROR_IND", "PAGING", "CELL",
           "CHAN_REL", "CIPH_M_CMD"}
FromL2(s, m) ==
  CASE m.type = "EST_CONF" /\ s.rr = "CONN_PEND" ->
         RrUp([s EXCEPT !.rr = "DEDICATED"], Msg(IF s.rrEstReq THEN "EST_CNF" ELSE "EST_IND"))
    [] m.type = "REL_IND" /\ s.rr \in {"CONN_PEND", "DEDICATED"} ->
         RrUp([s EXCEPT !.rr = "REL_PEND", !.relWait = TRUE], Msg("REL_IND"))
    [] m.type = "REL_CONF" /\ s.rr # "IDLE" -> RrIdle(RrUp(s, Msg("REL_IND")))
    [] m.type = "ERROR_IND" /\ s.rr = "DEDICATED" -> RrIdle(RrUp(s, Msg("ABORT_IND")))
    [] m.type = "PAGING" /\ s.rr = "IDLE" /\ s.camped ->
         [s EXCEPT !.rr = "CONN_PEND", !.camped = FALSE]
    [] m.type = "CELL" -> [s EXCEPT !.camped = TRUE, !.events = Append(@, "CELL_SELECTED")]
    [] m.type = "CHAN_REL" /\ s.rr = "DEDICATED" -> [s EXCEPT !.rr = "REL_PEND"]
    [] m.type = "CIPH_M_CMD" /\ s.rr = "DEDICATED" -> RrUp(s, Msg("SYNC_IND"))
    [] m.type \notin RrMsgs /\ s.rr = "DEDICATED" -> RrUp(s, m)
    [] OTHER -> s

-----------------------------------------------------------------------------
(* MM connections, the newest first, and what they tell call control. *)
HasConn(s, r) == \E i \in DOMAIN s.conns : s.conns[i].ref = r
ConnAt(s, r) == CHOOSE i \in DOMAIN s.conns : s.conns[i].ref = r
IsPending(c) == c.state = "CONN_PEND"
HasPending(s) == \E i \in DOMAIN s.conns : IsPending(s.conns[i])
PendingAt(s) == CHOOSE i \in DOMAIN s.conns : IsPending(s.conns[i])

NewConn(s, r, ti, state) ==
  [s EXCEPT !.conns = <<[ref |-> r, ti |-> ti, state |-> state]>> \o @]

FreeConn(s, r) == IF HasConn(s, r) THEN [s EXCEPT !.conns = RemoveAt(@, ConnAt(s, r))] ELSE s

UpMsg(prim, c) == [prim |-> prim, ref |-> c.ref, ti |-> c.ti]
UpAll(s, prim) == [s EXCEPT !.mmxx = @ \o [i \in DOMAIN s.conns |-> UpMsg(prim, s.conns[i])]]
Up(s, prim, r, ti) == [s EXCEPT !.mmxx = Append(@, [prim |-> prim, ref |-> r, ti |-> ti])]

(* gsm48_mm_release_mm_conn: of all connections, or of the pending one (there
   is one at most). *)
ReleaseConns(s, prim) == [UpAll(s, prim) EXCEPT !.conns = <<>>]
ReleasePending(s) ==
  IF ~HasPending(s) THEN s
  ELSE LET c == s.conns[PendingAt(s)] IN
       [s EXCEPT !.conns = RemoveAt(@, PendingAt(s)), !.mmxx = Append(@, UpMsg("REL_IND", c))]

(* gsm48_mm_return_idle: without a cell the state is kept until one is selected. *)
ReturnIdle(s) == IF s.camped THEN [s EXCEPT !.mm = "MM_IDLE"] ELSE s

(* No connection is left: the network is given T3240 to release the channel. *)
AwaitRelease(s) == [s EXCEPT !.mm = "WAIT_NETWORK_CMD", !.t3240 = TRUE]
ByConns(s) == IF s.conns = <<>> THEN AwaitRelease(s) ELSE [s EXCEPT !.mm = "MM_CONN_ACTIVE"]

-----------------------------------------------------------------------------
(* From call control: gsm48_mmxx_downmsg and its table.  The transaction
   identifier of the connection is brought up to date before the dispatch. *)
SetTi(s, r, ti) ==
  [s EXCEPT !.conns = [i \in DOMAIN s.conns |->
     IF s.conns[i].ref = r THEN [s.conns[i] EXCEPT !.ti = ti] ELSE s.conns[i]]]

(* gsm48_mm_init_mm_no_rr, _more, _wait and _reject.  The request on an
   existing channel is sent by gsm48_rr_downmsg, which drops it without an
   error if there is no channel. *)
MayOpen(s) == ~HasPending(s) /\ s.updated
EstReq(s, r, ti) ==
  LET open == NewConn(s, r, ti, "CONN_PEND") IN
  CASE MayOpen(s) /\ s.mm = "MM_IDLE" ->
         [RrEstReq(open) EXCEPT !.mm = "WAIT_RR_CONN_MM_CON"]
    [] MayOpen(s) /\ s.mm = "MM_CONN_ACTIVE" ->
         [open EXCEPT !.mm = "WAIT_ADD_OUT_MM_CON", !.t3230 = TRUE]
    [] OTHER -> Up(s, "REL_IND", r, ti)

(* gsm48_mm_data: what is sent leaves the phone; a message in any other state
   is dropped, a message of an unknown connection returned as a release. *)
DataReq(s, r, ti) ==
  IF s.mm \in {"MM_CONN_ACTIVE", "WAIT_ADD_OUT_MM_CON"} /\ ~HasConn(s, r)
  THEN Up(s, "REL_IND", r, ti)
  ELSE SetTi(s, r, ti)

(* gsm48_mm_release_active, _wait_add, _wait_active and _wait_rr *)
RelReq(s, r, ti) ==
  LET freed == FreeConn(s, r) IN
  CASE s.mm = "MM_CONN_ACTIVE" -> ByConns(freed)
    [] s.mm = "WAIT_OUT_MM_CONN" -> IF freed.conns = <<>> THEN AwaitRelease(freed) ELSE freed
    [] s.mm \in {"WAIT_ADD_OUT_MM_CON", "WAIT_RR_CONN_MM_CON"} -> freed
    [] OTHER -> SetTi(s, r, ti)

-----------------------------------------------------------------------------
(* From the radio resource layer and from the network. *)

(* gsm48_mm_rx_cm_service_acc, gsm48_mm_sync_ind_wait and gsm48_mm_conn_go_dedic *)
Accepted(s) ==
  LET on == [s EXCEPT !.t3230 = FALSE, !.mm = "MM_CONN_ACTIVE"]
      i == PendingAt(s) IN
  IF ~HasPending(s) THEN on
  ELSE [on EXCEPT !.conns[i].state = "DEDICATED",
                  !.mmxx = Append(@, UpMsg("EST_CNF", s.conns[i]))]

(* gsm48_mm_rx_cm_service_rej: T3240 is not started.  The causes for which the
   subscriber or the phone is not known (abort_any) end all connections, and
   the SIM is no longer updated. *)
Rejected(s) ==
  LET t == ReleasePending([s EXCEPT !.t3230 = FALSE]) IN
  [t EXCEPT !.mm = IF t.conns = <<>> THEN "WAIT_NETWORK_CMD" ELSE "MM_CONN_ACTIVE"]
RejectedAny(s) ==
  [ReleaseConns([s EXCEPT !.t3230 = FALSE], "REL_IND")
     EXCEPT !.mm = "WAIT_NETWORK_CMD", !.updated = FALSE]

(* gsm48_mm_rx_abort: the cause may be that the phone is illegal.  There is a
   channel, so that no cell is camped on and gsm48_mm_return_idle does nothing. *)
AbortedByNetwork(s) ==
  IF s.conns = <<>> THEN s ELSE ReleaseConns([s EXCEPT !.t3230 = FALSE], "REL_IND")
AbortedAsIllegal(s) == [AbortedByNetwork(s) EXCEPT !.updated = s.conns = <<>> /\ @]

(* gsm48_mm_est_mm_con *)
WrongRrConfirmed(s) ==
  IF s.mm # "WAIT_RR_CONN_MM_CON" THEN s
  ELSE IF s.conns = <<>> THEN AwaitRelease(s)
  ELSE [s EXCEPT !.mm = "WAIT_OUT_MM_CONN"]
RrConfirmed(s) ==
  IF s.mm # "WAIT_RR_CONN_MM_CON" THEN s
  ELSE IF s.conns = <<>> THEN AwaitRelease(s)
  ELSE [s EXCEPT !.mm = "WAIT_OUT_MM_CONN", !.t3230 = TRUE]

(* gsm48_mm_est: the answer to a page has been received. *)
RrIndicated(s) == IF s.mm = "MM_IDLE" THEN [s EXCEPT !.mm = "WAIT_NETWORK_CMD"] ELSE s

(* gsm48_mm_abort_mm_con and gsm48_mm_rel_other *)
WrongRrLost(s) == ReturnIdle([s EXCEPT !.t3240 = FALSE])
RrLost(s) ==
  IF s.mm \in {"MM_IDLE", "WAIT_NETWORK_CMD"} THEN ReturnIdle([s EXCEPT !.t3240 = FALSE])
  ELSE ReturnIdle(ReleaseConns([s EXCEPT !.t3240 = FALSE, !.t3230 = FALSE], "ERR_IND"))

(* gsm48_mm_sync_ind_wait and gsm48_mm_sync_ind_active: ciphering has begun. *)
Synchronised(s) ==
  CASE s.mm \in {"WAIT_OUT_MM_CONN", "WAIT_ADD_OUT_MM_CON"} -> Accepted(s)
    [] s.mm = "MM_CONN_ACTIVE" -> UpAll([s EXCEPT !.t3230 = FALSE], "SYNC_IND")
    [] OTHER -> s

(* gsm48_mm_data_ind for a message of call control: the connection it belongs
   to, a new one if its identifier is not known, and MM in active state. *)
ByTi(s, ti) ==
  IF \E i \in DOMAIN s.conns : s.conns[i].ti = ti
  THEN LET i == CHOOSE j \in DOMAIN s.conns :
                  s.conns[j].ti = ti /\ \A k \in 1..j - 1 : s.conns[k].ti # ti
       IN  s.conns[i].ref
  ELSE s.mtRef
ForData(s, ti) ==
  LET t == IF ByTi(s, ti) # s.mtRef THEN s
           ELSE [NewConn(s, s.mtRef, ti, "IDLE") EXCEPT !.mtRef = @ + 1] IN
  IF t.mm # "WAIT_NETWORK_CMD" THEN t ELSE [t EXCEPT !.mm = "MM_CONN_ACTIVE", !.t3240 = FALSE]

-----------------------------------------------------------------------------
(* Timers and events of MM: gsm48_mm_ev and its table. *)
(* gsm48_mm_timeout_mm_con *)
T3230Expired(s) ==
  IF s.mm \in {"WAIT_OUT_MM_CONN", "WAIT_ADD_OUT_MM_CON"}
  THEN ByConns(ReleasePending([s EXCEPT !.t3230 = FALSE]))
  ELSE [s EXCEPT !.t3230 = FALSE]

(* gsm48_mm_abort_rr *)
T3240Expired(s) ==
  IF s.mm = "WAIT_NETWORK_CMD" THEN ReturnIdle(RrAbortReq([s EXCEPT !.t3240 = FALSE]))
  ELSE [s EXCEPT !.t3240 = FALSE]
=============================================================================
