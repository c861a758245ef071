------------------------------ MODULE RadioRes ------------------------------
(***************************************************************************)
(* The radio resource layer of the OsmocomBB phone (layer23/src/mobile/    *)
(* gsm48_rr.c): access to a channel, the link on it, its modification by   *)
(* an assignment or a handover, and its release.  MmConn and LocUpd take   *)
(* of this layer what they need; here it is modelled for itself, between   *)
(* the link layer (lapdm.c, lapd_core.c), cell selection (gsm322.c) and    *)
(* mobility management, of which there is just what it exchanges with it.  *)
(*                                                                         *)
(* As in MmConn an operation is an operator from the state s of the phone  *)
(* to its next state.  Channels differ in whether the phone can use them;  *)
(* an assignment and a handover differ in the messages that report them    *)
(* and are one modification.  The link of SAPI 3 is left out, and with it  *)
(* the queue of the messages that wait for the end of a modification.      *)
(*                                                                         *)
(* A definition whose name begins with "Wrong" is a plausible mistake in   *)
(* the one that follows it, and not part of the model.                     *)
(***************************************************************************)
EXTENDS Naturals, Sequences

CONSTANTS
  RA,        \* random references of channel requests
  MaxReq     \* channel requests of one access (max_retrans + 1)

ASSUME RadioAssumption == RA # {} /\ MaxReq \in Nat \ {0}

CchMsgs == {"BCCH", "PAGING", "IMM_ASS", "IMM_REJ"}
NoRa == 0   \* none sent yet (cr_ra is 0 at first)

-----------------------------------------------------------------------------
(* struct gsm48_rrlayer and what it shares: st is IDLE, CONN_PEND, DEDICATED or
   REL_PEND; mod is NONE, IMM_ASS, MODIFY or RESUME; timers are T3110, T3122,
   T3126, starting and rel_wait; wait is wait_assign, req n_chan_req; hist are the
   references confirmed, the newest first; dm says that layer 1 is on a dedicated
   channel, rach that a burst awaits confirmation, usable what the phone can do
   with cd_now; cell, sync, nbr and ccch are those of gsm322.c; l2 is the main
   link of lapd_core.c, mm what mobility management believes. *)
InitRr ==
  [st |-> "IDLE", mod |-> "NONE", wait |-> 0, req |-> 0, ra |-> NoRa, hist |-> <<>>,
   estReq |-> FALSE, usable |-> TRUE, timers |-> {}, dm |-> FALSE, rach |-> FALSE,
   cell |-> "away", sync |-> "none", nbr |-> FALSE, ccch |-> "init",
   l2 |-> "idle", rsl |-> <<>>, up |-> <<>>, mm |-> "idle"]

Rsl(s, m) == [s EXCEPT !.rsl = Append(@, m)]
Up(s, m) == [s EXCEPT !.up = Append(@, m)]
Start(s, t) == [s EXCEPT !.timers = @ \cup {t}]
Stop(s, t) == [s EXCEPT !.timers = @ \ {t}]

-----------------------------------------------------------------------------
(* The link layer, asked by gsm48_send_rsl: rslms_rx_rll_... and l2downstatelist.
   A request that does not fit the state of the link is dropped. *)
Est(s) == IF s.l2 = "idle" THEN [s EXCEPT !.l2 = "sabm"] ELSE s
Susp(s) == IF s.l2 = "mf" THEN Rsl(s, "SUSP_CONF") ELSE s
Resume(s) == IF s.l2 = "mf" THEN [s EXCEPT !.l2 = "sabm"] ELSE s
Recon(s) == IF s.l2 \in {"idle", "mf"} THEN [s EXCEPT !.l2 = "sabm"] ELSE s
RelLocal(s) == Rsl([s EXCEPT !.l2 = "idle"], "REL_CONF")
RelNormal(s) ==
  CASE s.l2 = "idle" -> Rsl(s, "REL_CONF")
    [] s.l2 \in {"sabm", "mf"} -> [s EXCEPT !.l2 = "disc"]
    [] OTHER -> s

-----------------------------------------------------------------------------
(* new_rr_state: leaving dedicated mode ends a modification; going idle leaves
   the channel (layer 1 is reset) and sends cell selection for a cell. *)
NewState(s, st) ==
  IF s.st = "DEDICATED" /\ st # "DEDICATED"
  THEN [Stop(s, "starting") EXCEPT !.st = st, !.mod = "NONE"]
  ELSE [s EXCEPT !.st = st]
ToIdle(s) ==
  IF s.st = "IDLE" THEN s
  ELSE [NewState(s, "IDLE") EXCEPT
          !.dm = FALSE, !.rach = FALSE, !.estReq = FALSE, !.usable = TRUE,
          !.cell = IF @ = "conn" THEN "away" ELSE @]

(* gsm48_rr_activate_channel *)
Activate(s) == [s EXCEPT !.dm = TRUE]

-----------------------------------------------------------------------------
(* Access.  gsm322_c_conn_mode_1 synchronises to the serving cell anew, unless
   an answer is pending: the answer then is for what was current before. *)
LeaveIdle(s) ==
  LET t == [s EXCEPT !.cell = "conn", !.ccch = "init"] IN
  IF s.sync # "none" THEN t
  ELSE [t EXCEPT !.sync = "own", !.nbr = FALSE, !.dm = FALSE, !.rach = FALSE]

(* gsm48_rr_chan_req.  The first burst follows the first message of the cell:
   its last branch, for a CCCH that is read already, is never taken. *)
ChanReq(s) ==
  [NewState(LeaveIdle(s), "CONN_PEND") EXCEPT !.wait = 0, !.req = MaxReq, !.hist = <<>>]

(* gsm48_rr_est_req.  barred: the cell or the access class, or SI3 is missing. *)
EstReq(s, emergency, barred) ==
  LET t == IF emergency THEN Stop(s, "T3122") ELSE s IN
  IF "T3122" \in t.timers \/ t.st # "IDLE" \/ t.cell # "camped" \/ barred
  THEN Up(t, "REL_IND")
  ELSE ChanReq([t EXCEPT !.estReq = TRUE])

(* gsm48_rr_rx_pag_req_1 to _3, a page for this phone *)
Page(s) == IF s.st # "IDLE" \/ s.cell # "camped" \/ s.nbr THEN s ELSE ChanReq(s)

(* gsm48_rr_tx_rand_acc: a confirmation puts the burst into the history, and the
   next one is sent, until none is left.  A CCCH that is not read ends the access
   (so would SI3 missing, without which no cell is camped on). *)
Confirmed(s) ==
  [s EXCEPT !.hist = SubSeq(<<s.ra>> \o @, 1, IF Len(@) < 3 THEN Len(@) + 1 ELSE 3)]
RandAcc(s, ra) ==
  IF s.ccch # "data" THEN ToIdle(IF s.estReq THEN Up(s, "REL_IND") ELSE s)
  ELSE IF s.req = 0 THEN Start(s, "T3126")
  ELSE [s EXCEPT !.req = @ - 1, !.wait = 1, !.ra = ra, !.rach = TRUE]
ChanConf(s, ra) == IF s.st # "CONN_PEND" \/ s.wait = 2 THEN s ELSE RandAcc(Confirmed(s), ra)

(* gsm48_match_ra, for the reference of the i-th newest burst confirmed: after an
   entry of the same reference but another time the one looked for is lost. *)
MatchRa(s, i) == i \in DOMAIN s.hist /\ \A j \in 1..i-1 : s.hist[j] # s.hist[i]

(* gsm48_rr_dl_est: with a starting time the channel is opened by timer. *)
DlEst(s, later) ==
  LET t == Stop(s, "T3126") IN
  IF later THEN Start([t EXCEPT !.mod = "IMM_ASS"], "starting")
  ELSE IF ~t.usable THEN t
  ELSE Est(Activate(t))

(* gsm48_rr_rx_imm_ass and _ext, gsm48_rr_rx_imm_ass_rej *)
ImmAss(s, i, usable, later) ==
  IF s.nbr \/ s.st # "CONN_PEND" \/ s.wait # 1 \/ ~MatchRa(s, i) THEN s
  ELSE DlEst([s EXCEPT !.wait = 2, !.usable = usable], later)
ImmRej(s, i, waitInd) ==
  IF s.st # "CONN_PEND" \/ s.wait # 1 \/ ~MatchRa(s, i) THEN s
  ELSE Start(IF waitInd THEN Start([s EXCEPT !.req = 0], "T3122")
             ELSE [s EXCEPT !.req = 0], "T3126")

-----------------------------------------------------------------------------
(* The link.  gsm48_rr_estab_cnf; gsm48_rr_estab_cnf_dedicated ends a
   modification. *)
EstConf(s) ==
  CASE s.st = "REL_PEND" -> RelNormal(s)
    [] s.st = "DEDICATED" -> [s EXCEPT !.mod = "NONE"]
    [] OTHER -> Up(NewState(s, "DEDICATED"), IF s.estReq THEN "EST_CNF" ELSE "EST_IND")

(* gsm48_rr_rel_cnf: a modification that failed goes back to the old channel. *)
WrongRelConf(s) ==   \* the old channel is taken again, but not its link
  IF s.mod = "MODIFY" THEN Activate([s EXCEPT !.mod = "RESUME"])
  ELSE LET t == IF s.mod = "RESUME" THEN [s EXCEPT !.mod = "NONE"] ELSE s IN
       ToIdle(Up(Stop(t, "T3110"), "REL_IND"))
RelConf(s) ==
  IF s.mod = "MODIFY" THEN Recon(Activate([s EXCEPT !.mod = "RESUME"]))
  ELSE LET t == IF s.mod = "RESUME" THEN [s EXCEPT !.mod = "NONE"] ELSE s IN
       ToIdle(Up(Stop(t, "T3110"), "REL_IND"))

(* gsm48_rr_rel_ind: the channel is kept until UA has been sent. *)
WrongRelInd(s) ==   \* t_rel_wait is not started
  IF s.mod = "MODIFY" THEN RelConf(s)
  ELSE NewState(Up(IF s.mod = "RESUME" THEN [s EXCEPT !.mod = "NONE"] ELSE s, "REL_IND"), "REL_PEND")
RelInd(s) ==
  IF s.mod = "MODIFY" THEN RelConf(s)
  ELSE LET t == IF s.mod = "RESUME" THEN [s EXCEPT !.mod = "NONE"] ELSE s IN
       NewState(Start(Up(t, "REL_IND"), "rel_wait"), "REL_PEND")

(* gsm48_rr_susp_cnf_dedicated *)
SuspConf(s) ==
  CASE s.mod = "MODIFY" -> Resume(Activate(s))
    [] s.mod = "NONE" -> s
    [] OTHER -> Activate(s)

(* gsm48_rr_mdl_error_ind *)
ErrorInd(s) ==
  LET t == RelLocal(s) IN IF t.mod # "NONE" THEN t ELSE ToIdle(Up(t, "ABORT_IND"))

(* gsm48_rr_rx_chan_rel *)
ChanRel(s) == RelNormal(Start(NewState(s, "REL_PEND"), "T3110"))

(* gsm48_rr_rx_ass_cmd and gsm48_rr_rx_hando_cmd.  A channel that cannot be used
   is refused by a message. *)
ModifyCmd(s, usable, later) ==
  IF ~usable THEN s
  ELSE LET t == [s EXCEPT !.mod = "MODIFY"] IN
       IF later THEN Start(t, "starting") ELSE Susp(t)

(* gsm48_rr_abort_req and gsm48_rr_los *)
AbortReq(s) ==
  LET t == Stop(s, "T3126") IN
  CASE s.st = "DEDICATED" -> RelNormal(NewState(t, "REL_PEND"))
    [] s.st = "CONN_PEND" -> ToIdle(t)
    [] OTHER -> s
Los(s) ==
  LET t == Stop(s, "T3110") IN
  CASE s.st = "CONN_PEND" -> ToIdle(Up(Stop(t, "T3126"), "REL_IND"))
    [] s.st \in {"DEDICATED", "REL_PEND"} -> RelLocal(NewState(t, "REL_PEND"))
    [] OTHER -> t

-----------------------------------------------------------------------------
(* Timers: timeout_rr_t_starting, _t_rel_wait, _t3110, _t3122 and _t3126 *)
Expired(s, timer) ==
  CASE timer = "starting" -> IF s.mod = "IMM_ASS" THEN DlEst([s EXCEPT !.mod = "NONE"], FALSE)
                             ELSE Susp(s)
    [] timer = "rel_wait" -> ToIdle(s)
    [] timer = "T3110" -> RelLocal(NewState(s, "REL_PEND"))
    [] timer = "T3126" -> ToIdle(IF s.estReq THEN Up(s, "REL_IND") ELSE s)
    [] timer = "T3122" -> s

(* gsm48_rr_unit_data_ind: the first message of a cell is the start of the
   access, and else it is handled by its kind. *)
UnitData(s, m, ra, i, usable, b) ==
  LET t == [s EXCEPT !.ccch = "data"] IN
  CASE s.ccch = "init" -> s
    [] s.ccch = "sync" /\ s.st = "CONN_PEND" -> IF s.wait = 2 THEN t ELSE RandAcc(t, ra)
    [] OTHER -> CASE m = "PAGING" -> Page(t)
                  [] m = "IMM_ASS" -> ImmAss(t, i, usable, b)
                  [] m = "IMM_REJ" -> ImmRej(t, i, b)
                  [] m = "BCCH" -> t

(* gsm48_rcv_rsl with dldatastatelist, gsm48_rcv_cch and gsm48_rr_data_ind *)
FromL2(s, m, ra, i, usable, b) ==
  CASE m \in CchMsgs -> UnitData(s, m, ra, i, usable, b)
    [] m = "CHAN_CONF" -> ChanConf(s, ra)
    [] m = "EST_CONF" -> EstConf(s)
    [] m = "REL_IND" /\ s.st \in {"CONN_PEND", "DEDICATED"} -> RelInd(s)
    [] m = "REL_CONF" /\ s.st # "IDLE" -> RelConf(s)
    [] m = "SUSP_CONF" /\ s.st = "DEDICATED" -> SuspConf(s)
    [] m = "ERROR_IND" /\ s.st = "DEDICATED" -> ErrorInd(s)
    [] m = "CHAN_REL" /\ s.st = "DEDICATED" -> ChanRel(s)
    [] m = "MODIFY" /\ s.st = "DEDICATED" -> ModifyCmd(s, usable, b)
    [] OTHER -> s

(* What mobility management makes of the indications (gsm48_rcv_rr) *)
FromRr(s, m) ==
  [s EXCEPT !.mm = IF m \in {"EST_CNF", "EST_IND"} THEN "conn" ELSE "idle"]
=============================================================================
