------------------------------ MODULE IdleMode ------------------------------
(***************************************************************************)
(* The OsmocomBB phone in idle mode: it looks for a network and a cell,    *)
(* registers, and follows the cells as they come and go.  PlmnSelect,      *)
(* CellSelect and LocUpd are three processes that call each other and      *)
(* leave messages in each other's queues; here they are one phone with its *)
(* loop (app_mobile.c).                                                    *)
(*                                                                         *)
(* An action is what happens in a round of the loop (a timer expires, or   *)
(* layer 1 or the network has a message) and the emptying of the queues    *)
(* that follows (mobile_work).  Bounds: the cells, and how often one comes *)
(* or goes.                                                                *)
(***************************************************************************)
EXTENDS LocUpd

CONSTANTS
  MaxChanges,   \* bound: cells that come or go
  Starts,       \* cells heard at first, and what the SIM holds: last network, area, status
  Causes        \* for each cell, the reasons for which an update made there is rejected

ASSUME IdleAssumption ==
  /\ MaxChanges \in Nat /\ Causes \in [Cells -> SUBSET (RejectCauses \ {"none"})]
  /\ Starts \subseteq [air : SUBSET Cells, rplmn : Plmns \cup {0},
                       lai : {Net[c] : c \in Cells} \cup {NoLai}, ustate : {"U1", "U2", "U3"}]

VARIABLES
  ms,        \* the phone, between two rounds of its loop
  changes    \* cells that have come or gone

vars == <<ms, changes>>

-----------------------------------------------------------------------------
(* mobile_work *)
Queues == <<"rsl", "rrUp", "mmQ", "plmnQ", "csQ">>
Idle(s) == \A i \in DOMAIN Queues : s[Queues[i]] = <<>>

Handle(s, q) ==
  LET m == Head(s[q])
      t == [s EXCEPT ![q] = Tail(@)] IN
  CASE q = "rsl" -> FromL2(t, m)
    [] q = "rrUp" -> FromRr(t, m)
    [] q = "mmQ" -> MmEvent(t, m)
    [] q = "plmnQ" -> PlmnEvent(t, m)
    [] q = "csQ" -> CsEvent(t, m)

RECURSIVE MobileWork(_, _)
MobileWork(s, n) ==
  IF s.exit THEN s
  ELSE IF s[Queues[n]] # <<>> THEN MobileWork(Handle(s, Queues[n]), n)
  ELSE IF Idle(s) THEN s
  ELSE MobileWork(s, (n % Len(Queues)) + 1)

Quiet == Idle(ms) /\ ~ms.exit
Round(s) == Quiet /\ ms' = MobileWork(s, 1) /\ UNCHANGED changes

-----------------------------------------------------------------------------
(* gsm322_init, gsm48_mm_init, and the SIM that has been read (gsm_subscr_testcard) *)
Init ==
  /\ changes = 0
  /\ \E st \in Starts :
       ms = [InitPlmn EXCEPT !.plmnQ = <<"SIM_INSERT">>] @@ InitCellSel(st.air) @@ InitMm
              @@ [sim |-> TRUE, rplmn |-> st.rplmn, lai |-> st.lai, ustate |-> st.ustate]

(* Layer 1: the measurement of all cells asked for, the answer to a
   synchronisation, and what is then heard of the cell. *)
Here == ms.cur \in ms.air
PowerMeasured == ms.powerscan /\ Round(PowerDone(ms))
SyncAnswered ==
  /\ ms.l1 = "wait"
  /\ Round(IF Here THEN Synced(ms)
           ELSE NotSynced(ms))
SysinfoHeard ==
  /\ ms.l1 = "ok" /\ Here /\ ms.c \in Camped \cup Scanning /\ ms.si[ms.cur] # "none"
  /\ Round(Sysinfo(ms))
ReadTimeout == CsTimer(ms) /\ ~Here /\ Round(CsTimeout(ms))
SignalLost ==
  /\ ms.l1 = "ok" /\ ~Here /\ ms.c \in Camped \cup Scanning \cup {"CONNECTED"}
  /\ Round(Lost(ms))
NeighboursMeasured ==
  /\ ms.c \in Camped /\ ms.nbr = 0 /\ ms.l1 = "ok" /\ ms.nbMeas /\ Here
  /\ \E n \in Cells : ms.nb[n] # "none"
  /\ \E due \in SUBSET {n \in Cells : ms.nb[n] \in {"bad", "read"}} : Round(Measured(ms, due))
Layer1 == PowerMeasured \/ SyncAnswered \/ SysinfoHeard \/ ReadTimeout \/ SignalLost
            \/ NeighboursMeasured

(* Timers *)
HplmnTimer == ms.plmnTimer /\ Round(ToPlmn([ms EXCEPT !.plmnTimer = FALSE], "HPLMN_SEARCH"))
AnyTimer == ms.anyTimer /\ Round(AnyTimerExpired(ms))
T3210 == "T3210" \in ms.timers /\ Round(T3210Expired(ms))
T3211 == "T3211" \in ms.timers /\ Round(T3211Expired(ms))
T3212 == "T3212" \in ms.timers /\ Round(T3212Expired(ms))
T3240 == "T3240" \in ms.timers /\ Round(T3240Expired(ms))
T3126 == ms.rr = "CONN_PEND" /\ ms.l1 = "ok" /\ Round(T3126Expired(ms))
TRelWait == ms.relWait /\ Round(RelWaitExpired(ms))
ReselOver == ms.resel /\ Round([ms EXCEPT !.resel = FALSE])
Timer == ReselOver \/ HplmnTimer \/ AnyTimer \/ T3210 \/ T3211 \/ T3212 \/ T3240 \/ T3126 \/ TRelWait

(* The network, on the channel *)
Answers ==
  IF ms.mm = "LOC_UPD_INIT" THEN {"LOC_UPD_ACC"} \cup Causes[ms.cur] ELSE {}
L2Msgs ==
  CASE ms.rr = "CONN_PEND" -> {"EST_CONF", "REL_IND"}
    [] ms.rr = "DEDICATED" -> {"REL_IND", "ERROR_IND", "CHAN_REL"} \cup Answers
    [] ms.rr = "REL_PEND" -> IF ms.relWait THEN {} ELSE {"REL_CONF"}
    [] OTHER -> {}
Network ==
  /\ ms.l1 = "ok"
  /\ \E m \in L2Msgs : Round([ms EXCEPT !.rsl = Append(@, m)])

(* The first round, and the command to select another network (vty_interface.c) *)
Begin == ~Idle(ms) /\ ms' = MobileWork(ms, 1) /\ UNCHANGED changes
UserResels == Quiet /\ Round(ToPlmn(ms, "USER_RESEL"))

(* A cell comes or goes *)
CellChanges ==
  /\ Quiet /\ changes < MaxChanges
  /\ changes' = changes + 1
  /\ \E c \in Cells : ms' = [ms EXCEPT !.air = IF c \in @ THEN @ \ {c} ELSE @ \cup {c}]

Next == Layer1 \/ Timer \/ Network \/ Begin \/ UserResels \/ CellChanges
Spec == Init /\ [][Next]_vars

-----------------------------------------------------------------------------
(* The states of the three processes and their timers are those of the code,
   and the program never ends itself at one of its own tests ("no cell selected,
   please fix", "no sysinfo ... please fix!"): whenever it tunes back to the
   serving cell it has one, and knows what that cell announced. *)
TypeOK ==
  /\ ms.a \in AStates /\ ms.c \in CStates /\ ms.mm \in MmStates /\ ms.sub \in Substates
  /\ ms.rr \in RrStates /\ ms.timers \subseteq MmTimers
  /\ ms.lai \in {Net[c] : c \in Cells} \cup {NoLai} /\ ms.sel \in Cells \cup {0}
  /\ ~ms.exit

(* A phone that camps normally and is not in a procedure is never on a cell of a
   network or an area that refused it, although the refusal comes in over MM, an area's
   is kept in the list of cells only when a cell is read again, and both reach cell
   selection in a message of its own (gsm48_mm_rel_loc_upd_rej, gsm322_cs_select). *)
AllowedCell ==
  Quiet /\ ms.c = "C3" /\ ms.mm = "MM_IDLE" /\ ms.sel # 0 => ~SelForbidden(ms)

(* The phone never stops looking for a cell or a network.  In a scan something is
   always due: a measurement, the answer to a synchronisation, or the timer for
   reading the cell; cell selection is never left without a task; and as long as
   a network is being tried (A1, A3), a cell of it is searched for, or its answer
   is awaited. *)
SearchGoesOn ==
  Quiet => /\ ms.c \in Scanning => ms.powerscan \/ ms.l1 = "wait" \/ CsTimer(ms)
           /\ ms.c # "C0"
           /\ ms.a \in {"A1", "A3"} =>
                ms.c \in Scanning \cup {"CONNECTED"} \/ ms.pending

(* MM, RR and cell selection, which end a procedure each on its own account, agree
   about the channel.  A procedure of MM without one has lost its cell meanwhile; a
   channel asked for or held is of a procedure of MM, and cell selection has left idle
   mode for it, on a cell it has selected; a channel held is ended by a timer of MM even
   if the network says nothing more; and cell selection is not left in connected mode
   without a channel (new_rr_state, gsm48_mm_return_idle, timeout_mm_t3210).  Whether
   the update is made in the end is another matter: see README. *)
ChannelAgreed ==
  Quiet => /\ ms.mm # "MM_IDLE" => ms.rr # "IDLE" \/ ms.c \notin Camped
           /\ ms.rr \in {"CONN_PEND", "DEDICATED"} =>
                ms.mm # "MM_IDLE" /\ ms.c = "CONNECTED" /\ ms.sel # 0
           /\ ms.rr = "DEDICATED" =>
                (IF ms.mm = "LOC_UPD_INIT" THEN "T3210" ELSE "T3240") \in ms.timers
           /\ ms.c = "CONNECTED" => ms.rr # "IDLE"

(* A phone registered abroad always has the next search for its home PLMN ahead of
   it, and the two processes agree on when that search runs, which each of them
   leaves on its own account (gsm322_a_hplmn_search_start, gsm322_search_end). *)
HomeSearched ==
  Quiet => /\ ms.a = "A2" /\ ms.plmn # Home /\ ms.sim => ms.plmnTimer
           /\ ms.a = "A5" <=> ms.c = "HPLMN_SEARCH"
=============================================================================
