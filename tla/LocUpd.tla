------------------------------- MODULE LocUpd -------------------------------
(***************************************************************************)
(* Registration of the OsmocomBB phone: location updating and the idle     *)
(* states of the mobility management (layer23/src/mobile/gsm48_mm.c), and  *)
(* what it needs of the radio resource layer (gsm48_rr.c).                 *)
(*                                                                         *)
(* Operators as in CellSelect.  A channel is requested for nothing but     *)
(* location updating; the phone may access every cell it camps on, the     *)
(* cells want it attached and give a period for updating.  The counter of  *)
(* attempts is left out: the code never increments it.                     *)
(***************************************************************************)
EXTENDS PlmnSelect

MmStates == {"MM_IDLE", "WAIT_RR_CONN_LUPD", "LOC_UPD_INIT", "LOC_UPD_REJ", "WAIT_NETWORK_CMD"}
Searching == {"PLMN_SEARCH", "PLMN_SEARCH_NORMAL"}
InService == {"NORMAL_SERVICE", "ATTEMPT_UPDATE"}
Substates == {"none", "LIMITED_SERVICE", "NO_IMSI", "NO_CELL_AVAIL", "LOC_UPD_NEEDED"}
               \cup Searching \cup InService
RejectCauses == {"none", "sim", "plmn", "la", "roaming", "other"}
MmTimers == {"T3210", "T3211", "T3212", "T3240"}
RrStates == {"IDLE", "CONN_PEND", "DEDICATED", "REL_PEND"}

(* struct gsm48_mmlayer, what it keeps of the SIM, and struct gsm48_rrlayer *)
InitMm ==
  [mm |-> "MM_IDLE", sub |-> "PLMN_SEARCH", pending |-> FALSE, retry |-> FALSE,
   periodic |-> FALSE, timers |-> {}, startT3211 |-> FALSE, rejCause |-> "none",
   lupd |-> NoLai, mmQ |-> <<>>, attached |-> FALSE, plmnNa |-> {},
   rr |-> "IDLE", relWait |-> FALSE, rrUp |-> <<>>, rsl |-> <<>>, exit |-> FALSE]

Start(s, t) == [s EXCEPT !.timers = @ \cup {t}]
Stop(s, t) == [s EXCEPT !.timers = @ \ {t}]

-----------------------------------------------------------------------------
(* Radio resources, as in MmConn.  new_rr_state(IDLE) makes cell selection
   return to the cell at once, unless it has left it. *)
RrUp(s, m) == [s EXCEPT !.rrUp = Append(@, m)]
WrongRrIdle(s) == [s EXCEPT !.rr = "IDLE"]
RrIdle(s) ==
  LET t == [s EXCEPT !.rr = "IDLE"] IN
  CASE s.rr = "IDLE" -> s
    [] s.rr # "IDLE" /\ s.c = "CONNECTED" -> ReturnToIdle(t)
    [] OTHER -> t

(* gsm48_rr_est_req and gsm48_rr_chan_req *)
RrEstReq(s) ==
  IF s.rr # "IDLE" \/ s.sel = 0 \/ s.c # "C3" THEN RrUp(s, "REL_IND")
  ELSE [LeaveIdle(s) EXCEPT !.rr = "CONN_PEND"]

(* gsm48_rr_abort_req *)
RrAbortReq(s) ==
  CASE s.rr = "DEDICATED" -> [s EXCEPT !.rr = "REL_PEND"]
    [] s.rr = "CONN_PEND" -> RrIdle(s)
    [] OTHER -> s

(* gsm48_rr_los *)
Los(s) ==
  CASE s.rr = "CONN_PEND" -> RrIdle(RrUp(s, "REL_IND"))
    [] s.rr \in {"DEDICATED", "REL_PEND"} ->
         [s EXCEPT !.rr = "REL_PEND", !.rsl = Append(@, "REL_CONF")]
    [] OTHER -> s

(* gsm322_cs_loss, and gsm322_l1_signal on the loss of the signal and on a
   synchronisation that failed *)
CsLoss(s) ==
  CASE s.c \in Camped /\ s.nbr = 0 -> CellResel(s)
    [] s.c = "CONNECTED" -> Los(s)
    [] OTHER -> CsTimeout(s)
Lost(s) == CsLoss([s EXCEPT !.l1 = "none"])
NotSynced(s) ==
  LET t == Unsynced(s) IN
  IF s.c \in Camped /\ s.nbr # 0 THEN NbDone(t, "bad") ELSE CsLoss(t)

T3126Expired(s) == RrIdle(RrUp(s, "REL_IND"))
RelWaitExpired(s) == RrIdle([s EXCEPT !.relWait = FALSE])

(* gsm48_rcv_rll; answers of the network to an update go up to MM *)
FromL2(s, m) ==
  CASE m = "EST_CONF" /\ s.rr = "CONN_PEND" -> RrUp([s EXCEPT !.rr = "DEDICATED"], "EST_CNF")
    [] m = "REL_IND" /\ s.rr \in {"CONN_PEND", "DEDICATED"} ->
         RrUp([s EXCEPT !.rr = "REL_PEND", !.relWait = TRUE], "REL_IND")
    [] m = "REL_CONF" /\ s.rr # "IDLE" -> RrIdle(RrUp(s, "REL_IND"))
    [] m = "ERROR_IND" /\ s.rr = "DEDICATED" -> RrIdle(RrUp(s, "ABORT_IND"))
    [] m = "CHAN_REL" /\ s.rr = "DEDICATED" -> [s EXCEPT !.rr = "REL_PEND"]
    [] m \in RejectCauses \cup {"LOC_UPD_ACC"} /\ s.rr = "DEDICATED" -> RrUp(s, m)
    [] OTHER -> s

-----------------------------------------------------------------------------
(* Where the phone stands *)
Registered(s) == s.lai # NoLai /\ SelLai(s) = s.lai
SelForbidden(s) == SelLai(s).plmn \in s.plmnNa \/ SelLai(s) \in s.forbLa

(* gsm48_mm_set_plmn_search *)
SearchState(s) ==
  IF s.sim /\ s.ustate = "U1" /\ Registered(s) THEN "PLMN_SEARCH_NORMAL" ELSE "PLMN_SEARCH"

Move(s, sub) == [s EXCEPT !.mm = "MM_IDLE", !.sub = sub]
MoveTo(s, mm) == [s EXCEPT !.mm = mm, !.sub = "none"]

RECURSIVE ReturnIdle(_)

(* gsm48_mm_loc_upd *)
StopUpdate(s) == ReturnIdle(ToPlmn([s EXCEPT !.pending = FALSE], "REG_FAILED"))
LocUpd(s) ==
  CASE ~s.pending -> ReturnIdle(s)
    [] s.pending /\ (s.c # "C3" \/ SelForbidden(s)) -> StopUpdate(s)
    [] OTHER -> RrEstReq(MoveTo([s EXCEPT !.lupd = SelLai(s)], "WAIT_RR_CONN_LUPD"))

(* new_mm_state into a state of service: the update that was put off is made. *)
ToService(s, sub) ==
  LET t == Move(IF s.sel # 0 THEN Start(s, "T3212") ELSE s, sub) IN
  CASE s.retry -> LocUpd([t EXCEPT !.retry = FALSE])
    [] ~s.retry /\ s.periodic ->
         LET u == [t EXCEPT !.periodic = FALSE] IN
         IF s.pending \/ s.sel = 0 THEN u ELSE LocUpd([u EXCEPT !.pending = TRUE])
    [] OTHER -> t

(* gsm48_mm_loc_upd_normal *)
LocUpdNormal(s) ==
  CASE s.pending -> s
    [] ~s.pending /\ s.c # "C3" -> ToPlmn(s, "REG_FAILED")
    [] ~s.pending /\ s.c = "C3" /\ s.ustate = "U1" /\ Registered(s) /\ s.attached ->
         ToPlmn(ToService(s, "NORMAL_SERVICE"), "REG_SUCCESS")
    [] OTHER -> LocUpd([s EXCEPT !.pending = TRUE])

(* new_mm_state(MM_IDLE, LOC_UPD_NEEDED) and gsm48_mm_loc_upd_possible *)
UpdateNeeded(s) == LocUpdNormal(ToService(s, "ATTEMPT_UPDATE"))

(* gsm48_mm_return_idle *)
ReturnIdle(s) ==
  LET t == IF s.startT3211 THEN Start([s EXCEPT !.startT3211 = FALSE], "T3211") ELSE s IN
  CASE s.c \notin Camped -> s
    [] s.c \in Camped /\ s.mm = "LOC_UPD_REJ" /\ s.rejCause = "roaming" -> Move(t, SearchState(t))
    [] s.c \in Camped /\ ~(s.mm = "LOC_UPD_REJ" /\ s.rejCause = "roaming") /\ ~s.sim ->
         Move(Stop([t EXCEPT !.pending = FALSE], "T3212"), "NO_IMSI")
    [] OTHER ->
         CASE s.attached /\ Registered(s) ->
                ToService(t, IF s.ustate = "U1" THEN "NORMAL_SERVICE" ELSE "ATTEMPT_UPDATE")
           [] ~(s.attached /\ Registered(s)) /\ s.c = "C3" /\ ~SelForbidden(s) -> UpdateNeeded(t)
           [] OTHER -> Move(t, "LIMITED_SERVICE")

(* gsm48_mm_cell_selected *)
CellSelected(s) ==
  CASE ~s.sim -> Move(s, "NO_IMSI")
    [] s.sim /\ s.ustate = "U1" /\ Registered(s) /\ ~s.periodic /\ s.attached ->
         ToPlmn(ToService(s, "NORMAL_SERVICE"), "REG_SUCCESS")
    [] s.sim /\ (s.sel = 0 \/ SelForbidden(s)) -> ToPlmn(Move(s, "LIMITED_SERVICE"), "REG_FAILED")
    [] OTHER -> UpdateNeeded(s)

-----------------------------------------------------------------------------
(* From RR and from the network *)
EstLocUpd(s) ==
  IF s.mm = "WAIT_RR_CONN_LUPD" THEN MoveTo(Start(s, "T3210"), "LOC_UPD_INIT") ELSE s

(* gsm48_mm_rx_loc_upd_acc.  The area accepted is that of the cell. *)
Accepted(s) ==
  LET t == [s EXCEPT !.pending = FALSE, !.timers = (@ \ {"T3212", "T3210"}) \cup {"T3240"},
                     !.lai = s.lupd, !.attached = TRUE, !.ustate = "U1",
                     !.rplmn = s.lupd.plmn, !.forbLa = @ \ {s.lupd}] IN
  MoveTo(ToPlmn(t, "REG_SUCCESS"), "WAIT_NETWORK_CMD")

(* gsm48_mm_rx_loc_upd_rej *)
Rejected(s, cause) ==
  MoveTo([s EXCEPT !.timers = (@ \ {"T3212", "T3210"}) \cup {"T3240"}, !.rejCause = cause],
         "LOC_UPD_REJ")

(* gsm48_mm_loc_upd_failed *)
UpdFailed(s) ==
  LET t == Stop(s, "T3210") IN
  IF s.ustate = "U1" /\ s.lupd = s.lai THEN ReturnIdle(Start(t, "T3211"))
  ELSE ReturnIdle([t EXCEPT !.lai = NoLai, !.ustate = "U2", !.startT3211 = TRUE])

(* gsm48_mm_rel_loc_upd_rej: the channel is released after a reject. *)
Barred(s) ==
  [s EXCEPT !.lai = NoLai, !.ustate = "U3", !.pending = FALSE,
            !.sim = @ /\ s.rejCause # "sim"]
RelLocUpdRej(s) ==
  LET t == Stop(s, "T3240")
      b == Barred(t) IN
  CASE s.rejCause = "sim" -> ReturnIdle(ToPlmn(b, "INVALID_SIM"))
    [] s.rejCause = "plmn" ->
         ReturnIdle([ToPlmn(b, "ROAMING_NA") EXCEPT !.plmnNa = @ \cup {s.lupd.plmn}])
    [] s.rejCause \in {"la", "roaming"} ->
         ReturnIdle([ToPlmn(b, "ROAMING_NA") EXCEPT !.forbLa = @ \cup {s.lupd}])
    [] OTHER -> UpdFailed(ToPlmn(t, "REG_FAILED"))

(* gsm48_mm_rel_loc_upd_abort, gsm48_mm_rel_loc_upd_rej, gsm48_mm_rel_other *)
RrReleased(s) ==
  CASE s.mm \in {"WAIT_RR_CONN_LUPD", "LOC_UPD_INIT"} -> UpdFailed(Stop(s, "T3240"))
    [] s.mm = "LOC_UPD_REJ" -> RelLocUpdRej(s)
    [] OTHER -> ReturnIdle(Stop(s, "T3240"))

FromRr(s, m) ==
  CASE m = "EST_CNF" -> EstLocUpd(s)
    [] m \in {"REL_IND", "ABORT_IND"} -> RrReleased(s)
    [] m = "LOC_UPD_ACC" /\ s.mm = "LOC_UPD_INIT" -> Accepted(s)
    [] m \in RejectCauses /\ s.mm = "LOC_UPD_INIT" -> Rejected(s, m)
    [] OTHER -> s

-----------------------------------------------------------------------------
(* gsm48_mm_ev: events of cell and network selection *)
MmEvent(s, e) ==
  LET idle == s.mm = "MM_IDLE"
      served == idle /\ s.sub \in InService \cup {"LOC_UPD_NEEDED", "LIMITED_SERVICE"} IN
  CASE e = "NO_CELL_FOUND" /\ (~idle \/ s.sub \in Searching) -> Move(s, "NO_CELL_AVAIL")
    [] e = "CELL_SELECTED" /\ ~idle -> ReturnIdle(s)
    [] e \in {"USER_PLMN_SEL", "LOST_COVERAGE"} /\ served -> Move(s, SearchState(s))
    [] e = "CELL_SELECTED" /\ served -> LocUpdNormal(s)
    [] e = "CELL_SELECTED" /\ idle /\ s.sub \in Searching \cup {"NO_CELL_AVAIL"} -> CellSelected(s)
    [] OTHER -> s

(* and of its timers *)
T3210Expired(s) ==
  LET t == Stop(s, "T3210") IN IF s.mm = "MM_IDLE" THEN t ELSE UpdFailed(RrAbortReq(t))
T3211Expired(s) ==
  LET t == Stop(s, "T3211") IN
  CASE s.mm = "MM_IDLE" /\ s.sub \in InService -> LocUpd(t)
    [] s.mm = "MM_IDLE" /\ s.sub \notin InService -> [t EXCEPT !.retry = TRUE]
    [] OTHER -> t
T3212Expired(s) ==
  LET t == Stop(s, "T3212") IN
  CASE s.mm = "MM_IDLE" /\ s.sub \in InService ->
         IF s.pending THEN t ELSE LocUpd([t EXCEPT !.pending = TRUE])
    [] s.mm = "MM_IDLE" /\ s.sub \in Searching \cup {"LIMITED_SERVICE", "NO_CELL_AVAIL"} ->
         [t EXCEPT !.periodic = TRUE]
    [] OTHER -> t
T3240Expired(s) ==
  LET t == Stop(s, "T3240") IN
  IF s.mm \in {"WAIT_NETWORK_CMD", "LOC_UPD_REJ"} THEN ReturnIdle(RrAbortReq(t)) ELSE t
=============================================================================
