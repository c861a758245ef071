----------------------------- MODULE CallControl -----------------------------
(***************************************************************************)
(* Call control of the OsmocomBB phone (gsm48_cc.c, transaction.c): the    *)
(* transactions, their states and timers, the requests of layer 4, the     *)
(* messages of the network, and what both queue for layer 4.               *)
(*                                                                         *)
(* As in MmConn, an operation takes the phone s to its next state.         *)
(* s.trans maps the reference of each transaction to it.  NOTIFY,          *)
(* FACILITY, USER INFORMATION, DTMF and the in-call modification the phone *)
(* would start change no state and are left out.                           *)
(***************************************************************************)
EXTENDS MmConn

(* DISCONNECT_REQ and DISCONNECT_IND are one value, 12 (gsm_04_08.h), so the
   state does not say who cleared the call: a running T305 does. *)
CcStates == {"NULL", "MM_CONNECTION_PEND", "INITIATED", "MO_CALL_PROC", "CALL_DELIVERED",
             "CALL_PRESENT", "MO_TERM_CALL_CONF", "CALL_RECEIVED", "CONNECT_REQUEST",
             "ACTIVE", "MO_ORIG_MODIFY", "DISCONNECT", "RELEASE_REQ"}
CcTimers == {"none", "T303", "T305", "T308", "T310", "T313"}
Trans == [state : CcStates, ti : Tis \cup {NoTi}, timer : CcTimers]

Has(s, r) == r \in DOMAIN s.trans

-----------------------------------------------------------------------------
(* mncc_recvmsg *)
ToL4(s, prim, r) == [s EXCEPT !.mncc = Append(@, [prim |-> prim, ref |-> r])]

(* gsm48_cc_to_mm *)
Data(s, r) == DataReq(s, r, s.trans[r].ti)

Put(s, r, trans) ==
  [s EXCEPT !.trans = [q \in DOMAIN @ \cup {r} |-> IF q = r THEN trans ELSE @[q]]]

(* new_cc_state with gsm48_start_cc_timer or gsm48_stop_cc_timer *)
Enter(s, r, state, timer) == Put(s, r, [s.trans[r] EXCEPT !.state = state, !.timer = timer])
Keep(s, r, state) == Put(s, r, [s.trans[r] EXCEPT !.state = state])
Stop(s, r) == Put(s, r, [s.trans[r] EXCEPT !.timer = "none"])
WithTi(s, r, ti) == Put(s, r, [s.trans[r] EXCEPT !.ti = ti])

(* trans_alloc and trans_free.  A freed transaction has had its reference
   cleared, so that _gsm48_cc_trans_free reports nothing. *)
Alloc(s, r, ti) == Put(s, r, [state |-> "NULL", ti |-> ti, timer |-> "none"])
Free(s, r) == [s EXCEPT !.trans = Restrict(@, DOMAIN @ \ {r})]

(* gsm48_rel_null_free, which gsm48_cc_abort_mm repeats *)
RelNullFree(s, r) == Free(RelReq(s, r, s.trans[r].ti), r)

-----------------------------------------------------------------------------
(* trans_assign_trans_id: the first free one after the highest in use, in a
   circle; the search for the highest stops short of 0. *)
UsedTis(s) == {s.trans[r].ti : r \in DOMAIN s.trans}
FreeTis(s) == OwnTis \ UsedTis(s)
WrongAssign(s) ==
  LET used == {0} \cup (UsedTis(s) \cap OwnTis) IN
  1 + CHOOSE j \in used : \A k \in used : k <= j
Assign(s) ==
  LET used == UsedTis(s) \cap OwnTis
      h == IF used \subseteq {0} THEN 0 ELSE CHOOSE j \in used : \A k \in used : k <= j
      i == CHOOSE k \in 0..TiCount - 1 :
             /\ (h + k) % TiCount \notin used
             /\ \A l \in 0..k - 1 : (h + l) % TiCount \in used IN
  (h + i) % TiCount

(* gsm48_cc_tx_setup.  Without a free identifier the call is given up, but
   its MM connection is not released. *)
TxSetup(s, r) ==
  IF s.trans[r].ti # NoTi \/ FreeTis(s) = {} THEN Free(ToL4(s, "REL_IND", r), r)
  ELSE Data(Enter(WithTi(s, r, Assign(s)), r, "INITIATED", "T303"), r)

(* The messages that answer a SETUP, and those that clear a call *)
TxCallConf(s, r) == Data(Keep(s, r, "MO_TERM_CALL_CONF"), r)
TxAlerting(s, r) == Data(Keep(s, r, "CALL_RECEIVED"), r)
TxConnect(s, r) == Data(Enter(s, r, "CONNECT_REQUEST", "T313"), r)
TxDisconnect(s, r) == Data(Enter(s, r, "DISCONNECT", "T305"), r)
TxRelease(s, r) == Data(Enter(s, r, "RELEASE_REQ", "T308"), r)

(* gsm48_cc_timeout.  abort is set for every timer, so that a transaction
   ends with the first: the second run of T308 that the code prepares for
   does not take place. *)
WrongExpired(s, r) ==
  LET t == s.trans[r].timer
      off == ToL4(Stop(s, r), "REL_IND", r) IN
  IF t \in {"T310", "T313"} THEN TxDisconnect(ToL4(off, "DISC_IND", r), r)
  ELSE TxRelease(off, r)
Expired(s, r) ==
  LET t == s.trans[r].timer
      off == Stop(s, r)
      told == ToL4(IF t = "T308" THEN TxRelease(off, r) ELSE off, "REL_IND", r) IN
  RelNullFree(CASE t \in {"T310", "T313"} -> TxDisconnect(ToL4(told, "DISC_IND", r), r)
                [] t \in {"T303", "T305"} -> TxRelease(told, r)
                [] OTHER -> told,
              r)

-----------------------------------------------------------------------------
(* Requests of layer 4: mncc_tx_to_cc and its table.  ALL_STATES less the two
   names of state 12 is an arithmetic difference: the bit is taken twice,
   borrows from the next one, and remains, so that MNCC_DISC_REQ is accepted
   in state DISCONNECT. *)
Accepts(state, prim) ==
  CASE prim = "CALL_CONF_REQ" -> state = "CALL_PRESENT"
    [] prim = "ALERT_REQ" -> state = "MO_TERM_CALL_CONF"
    [] prim = "SETUP_RSP" -> state \in {"MO_TERM_CALL_CONF", "CALL_RECEIVED"}
    [] prim \in {"HOLD_REQ", "RETRIEVE_REQ"} -> state = "ACTIVE"
    [] prim \in {"DISC_REQ", "REL_REQ"} -> state \notin {"NULL", "RELEASE_REQ"}

FromL4(s, prim, r) ==
  IF ~Has(s, r) THEN ToL4(s, "REL_IND", r)
  ELSE IF ~Accepts(s.trans[r].state, prim) THEN s
  ELSE CASE prim = "CALL_CONF_REQ" -> TxCallConf(s, r)
         [] prim = "ALERT_REQ" -> TxAlerting(s, r)
         [] prim = "SETUP_RSP" -> TxConnect(s, r)
         [] prim \in {"HOLD_REQ", "RETRIEVE_REQ"} -> Data(s, r)
         [] prim = "DISC_REQ" -> TxDisconnect(s, r)
         [] prim = "REL_REQ" /\ s.trans[r].state = "MM_CONNECTION_PEND" -> RelNullFree(s, r)
         [] OTHER -> TxRelease(s, r)

(* MNCC_SETUP_REQ, for which there is no transaction yet: gsm48_cc_init_mm *)
SetupReq(s, r) == EstReq(Keep(Alloc(s, r, NoTi), r, "MM_CONNECTION_PEND"), r, NoTi)

-----------------------------------------------------------------------------
(* Messages of the network: gsm48_cc_data_ind, its table and the gsm48_cc_rx_
   handlers.  PROC_T310 is a CALL PROCEEDING with, or after, a progress
   indicator that starts T310; DISCONNECT_8 a DISCONNECT with in-band tones;
   HOLD_REJ is a rejection of a RETRIEVE, too. *)
EarlyStates == {"INITIATED", "MO_CALL_PROC", "CALL_DELIVERED"}
CcMsgs == {"CALL_PROC", "PROC_T310", "PROGRESS", "ALERTING", "CONNECT", "SETUP", "CONNECT_ACK",
           "HOLD_ACK", "RETR_ACK", "HOLD_REJ", "MODIFY", "DISCONNECT",
           "DISCONNECT_8", "RELEASE", "RELEASE_COMPL", "STATUS"}

Handles(state, type) ==
  CASE type \in {"CALL_PROC", "PROC_T310"} -> state = "INITIATED"
    [] type \in {"PROGRESS", "CONNECT"} -> state \in EarlyStates
    [] type = "ALERTING" -> state \in EarlyStates \ {"CALL_DELIVERED"}
    [] type = "SETUP" -> state = "NULL"
    [] type = "CONNECT_ACK" -> state = "CONNECT_REQUEST"
    [] type \in {"HOLD_ACK", "RETR_ACK", "HOLD_REJ", "MODIFY"} -> state = "ACTIVE"
    [] type \in {"DISCONNECT", "DISCONNECT_8"} -> state \notin {"NULL", "RELEASE_REQ", "DISCONNECT"}
    [] OTHER -> TRUE

(* gsm48_cc_rx_release and gsm48_cc_rx_release_compl: what layer 4 is told *)
Released(s, r, type) ==
  LET state == s.trans[r].state IN
  CASE state = "RELEASE_REQ" -> ToL4(s, "REL_CNF", r)
    [] type = "RELEASE" /\ state = "NULL" -> s
    [] type = "RELEASE" /\ state \notin {"NULL", "RELEASE_REQ"} -> ToL4(Data(s, r), "REL_IND", r)
    [] type = "RELEASE_COMPL" /\ state = "CALL_PRESENT" -> ToL4(s, "REJ_IND", r)
    [] OTHER -> ToL4(s, "REL_IND", r)

RxCallProceeding(s, r, timer) == ToL4(Enter(s, r, "MO_CALL_PROC", timer), "CALL_PROC_IND", r)
RxAlerting(s, r) == ToL4(Enter(s, r, "CALL_DELIVERED", "none"), "ALERT_IND", r)
RxConnect(s, r) == ToL4(Data(Enter(s, r, "ACTIVE", "none"), r), "SETUP_CNF", r)
RxSetup(s, r) == ToL4(Keep(s, r, "CALL_PRESENT"), "SETUP_IND", r)
RxConnectAck(s, r) == ToL4(Enter(s, r, "ACTIVE", "none"), "SETUP_COMPL_IND", r)
RxModify(s, r) == ToL4(Keep(s, r, "MO_ORIG_MODIFY"), "MODIFY_IND", r)
RxDisconnect(s, r, prim) == ToL4(Enter(s, r, "DISCONNECT", "none"), prim, r)
RxRelease(s, r, type) == RelNullFree(Released(Stop(s, r), r, type), r)

DataInd(s, r, m) ==
  LET t == WithTi(s, r, m.ti) IN
  IF ~Handles(s.trans[r].state, m.type) THEN Data(t, r)
  ELSE CASE m.type = "CALL_PROC" -> RxCallProceeding(t, r, "none")
         [] m.type = "PROC_T310" -> RxCallProceeding(t, r, "T310")
         [] m.type = "ALERTING" -> RxAlerting(t, r)
         [] m.type = "CONNECT" -> RxConnect(t, r)
         [] m.type = "SETUP" -> RxSetup(t, r)
         [] m.type = "CONNECT_ACK" -> RxConnectAck(t, r)
         [] m.type = "MODIFY" -> RxModify(t, r)
         [] m.type = "DISCONNECT" -> RxDisconnect(t, r, "DISC_IND")
         [] m.type = "DISCONNECT_8" -> RxDisconnect(t, r, "DISC_IND_8")
         [] m.type \in {"RELEASE", "RELEASE_COMPL"} -> RxRelease(t, r, m.type)
         [] m.type = "HOLD_ACK" -> ToL4(t, "HOLD_CNF", r)
         [] m.type = "RETR_ACK" -> ToL4(t, "RETRIEVE_CNF", r)
         [] m.type \in {"PROGRESS", "HOLD_REJ"} -> ToL4(t, "OTHER_IND", r)
         [] OTHER -> t

-----------------------------------------------------------------------------
(* gsm48_rcv_cc: from MM.  An unknown reference makes a transaction. *)
Known(s, m) == IF Has(s, m.ref) THEN s ELSE Alloc(s, m.ref, m.ti)

FromMm(s, m) ==
  LET t == Known(s, m) IN
  CASE m.prim = "EST_CNF" /\ t.trans[m.ref].state = "MM_CONNECTION_PEND" -> TxSetup(t, m.ref)
    [] m.prim \in {"REL_IND", "ERR_IND"} -> Free(ToL4(t, "REL_IND", m.ref), m.ref)
    [] OTHER -> t

(* gsm48_mm_data_ind hands a message of call control on without a queue. *)
CcData(s, m) ==
  LET r == ByTi(s, m.ti) IN
  DataInd(Known(ForData(s, m.ti), [ref |-> r, ti |-> m.ti]), r, m)
=============================================================================
