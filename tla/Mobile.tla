------------------------------- MODULE Mobile -------------------------------
(***************************************************************************)
(* The OsmocomBB phone making and taking calls (layer23/src/mobile): its   *)
(* call application (mnccms.c) on top of call control, MM connections and  *)
(* radio resources, and the loop that runs them (app_mobile.c, main.c).    *)
(*                                                                         *)
(* The phone is one thread.  A round of its loop lets timers expire, reads *)
(* one message of layer 1, takes a command of the user, and then drains    *)
(* the queues between the layers (mobile_work) until none holds anything.  *)
(* An action is the expiry of a timer, the reading with the command, or    *)
(* the handling of one message of a queue.  Bounds: one command in a       *)
(* round; calls and identifiers as in MmConn.                              *)
(***************************************************************************)
EXTENDS CallControl

CONSTANT Settings   \* whether calls wait (cw) and are answered unasked (autoAnswer)

ASSUME SettingsAssumption == Settings \subseteq [cw : BOOLEAN, autoAnswer : BOOLEAN]

VARIABLES
  ms,     \* the phone
  at      \* the queue that mobile_work empties, 0 while the loop waits in select

vars == <<ms, at>>

Call == [ref : Refs, init : BOOLEAN, hold : BOOLEAN, ring : BOOLEAN]

-----------------------------------------------------------------------------
(* The call application: a list of calls, the newest last. *)
HasCall(s, r) == \E i \in DOMAIN s.calls : s.calls[i].ref = r
CallAt(s, r) == CHOOSE i \in DOMAIN s.calls : s.calls[i].ref = r
FreeCall(s, r) == IF HasCall(s, r) THEN [s EXCEPT !.calls = RemoveAt(@, CallAt(s, r))] ELSE s
Mark(s, r, field, b) ==
  [s EXCEPT !.calls = [i \in DOMAIN s.calls |->
     IF s.calls[i].ref = r THEN [s.calls[i] EXCEPT ![field] = b] ELSE s.calls[i]]]

Unheld(s) == {i \in DOMAIN s.calls : ~s.calls[i].hold}
IsFirst(i, places) == \A j \in places : i <= j
Ringing(s) == {i \in DOMAIN s.calls : s.calls[i].ring}

(* mncc_answer: the last call that rings, unless another one is active. *)
MayAnswer(s) == Ringing(s) # {} /\ \A i \in DOMAIN s.calls : s.calls[i].ring \/ s.calls[i].hold
LastRinging(s) == CHOOSE i \in Ringing(s) : \A j \in Ringing(s) : j <= i
Answer(s) ==
  LET r == s.calls[LastRinging(s)].ref IN
  IF MayAnswer(s) THEN FromL4(Mark(Mark(s, r, "ring", FALSE), r, "hold", FALSE), "SETUP_RSP", r)
  ELSE s

(* mncc_recv_mobile: MNCC_SETUP_IND *)
Incoming(s, r) ==
  LET first == s.calls = <<>>
      t == IF HasCall(s, r) THEN Mark(s, r, "init", FALSE)
           ELSE [s EXCEPT !.calls =
                   Append(@, [ref |-> r, init |-> FALSE, hold |-> FALSE, ring |-> FALSE])]
      confirmed == FromL4(t, "CALL_CONF_REQ", r)
      rings == Mark(IF first THEN confirmed ELSE Mark(confirmed, r, "hold", TRUE), r, "ring", TRUE)
      alerts == FromL4(rings, "ALERT_REQ", r) IN
  IF ~first /\ ~s.set.cw THEN FromL4(t, "REL_REQ", r)
  ELSE IF s.set.autoAnswer THEN Answer(alerts) ELSE alerts

(* mncc_recv_mobile *)
FromCc(s, m) ==
  LET t == Mark(s, m.ref, "init", FALSE) IN
  IF m.prim = "SETUP_IND" THEN Incoming(s, m.ref)
  ELSE IF m.prim \in {"REL_IND", "REL_CNF"} THEN FreeCall(s, m.ref)
  ELSE IF ~HasCall(s, m.ref) \/ m.prim = "DISC_IND"
       THEN FromL4(FreeCall(s, m.ref), "REL_REQ", m.ref)
  ELSE CASE m.prim = "HOLD_CNF" -> Mark(t, m.ref, "hold", TRUE)
         [] m.prim = "RETRIEVE_CNF" -> Mark(t, m.ref, "hold", FALSE)
         [] OTHER -> t

-----------------------------------------------------------------------------
(* mobile_work: the queues in their order, each until it is empty, and again
   until all are. *)
Queues == <<"rsl", "rrUp", "mmxx", "events", "mncc">>
Idle(s) == \A i \in DOMAIN Queues : s[Queues[i]] = <<>>

FromRr(s, m) ==
  CASE m.type = "EST_CNF" -> RrConfirmed(s)
    [] m.type = "EST_IND" -> RrIndicated(s)
    [] m.type \in {"REL_IND", "ABORT_IND"} -> RrLost(s)
    [] m.type = "SYNC_IND" -> Synchronised(s)
    [] m.type = "CM_SERV_ACC" -> Accepted(s)
    [] m.type = "CM_SERV_REJ" -> Rejected(s)
    [] m.type = "CM_SERV_REJ_ANY" -> RejectedAny(s)
    [] m.type = "MM_ABORT" -> AbortedByNetwork(s)
    [] m.type = "MM_ABORT_ILLEGAL" -> AbortedAsIllegal(s)
    [] OTHER -> CcData(s, m)

(* gsm48_mm_cell_selected and what follows of it in normal service *)
CellSelected(s) == IF s.mm = "MM_IDLE" THEN s ELSE ReturnIdle(s)

Handle(s, q) ==
  LET m == Head(s[q])
      t == [s EXCEPT ![q] = Tail(@)] IN
  CASE q = "rsl" -> FromL2(t, m)
    [] q = "rrUp" -> FromRr(t, m)
    [] q = "mmxx" -> FromMm(t, m)
    [] q = "events" -> CellSelected(t)
    [] q = "mncc" -> FromCc(t, m)

Turn(s, n) == IF Idle(s) THEN 0 ELSE n

(* The first queue, from the one being emptied on, that holds a message *)
InTurn(n) ==
  /\ at # 0 /\ ms[Queues[n]] # <<>>
  /\ \A i \in DOMAIN Queues : ms[Queues[i]] # <<>> =>
       (n - at) % Len(Queues) <= (i - at) % Len(Queues)
Work ==
  \E n \in DOMAIN Queues :
    InTurn(n) /\ ms' = Handle(ms, Queues[n]) /\ at' = Turn(ms', n)

(* What is left to do in a round, once the user's command has been taken *)
Drain(s) == at = 0 /\ ms' = s /\ at' = Turn(s, 1)

-----------------------------------------------------------------------------
(* Timers: osmo_timers_update, before anything is read *)
Before(s) == at = 0 /\ ms' = s /\ UNCHANGED at
CcRuns(r) == Has(ms, r) /\ ms.trans[r].timer # "none"
CcTimer(r) == CcRuns(r) /\ Before(Expired(ms, r))
T3230 == ms.t3230 /\ Before(T3230Expired(ms))
T3240 == ms.t3240 /\ Before(T3240Expired(ms))
T3126 == ms.rr = "CONN_PEND" /\ Before(T3126Expired(ms))
TRelWait == ms.relWait /\ Before(RelWaitExpired(ms))
Timer == T3230 \/ T3240 \/ T3126 \/ TRelWait \/ \E r \in Refs : CcTimer(r)

(* A location update (LocUpd), in which the SIM is updated again, here in one
   step of a phone at rest; it need not come. *)
Registers ==
  /\ ~ms.updated /\ ms.mm = "MM_IDLE" /\ ms.rr = "IDLE" /\ ms.camped
  /\ Before([ms EXCEPT !.updated = TRUE])

(* What layer 1 and the network may send, by the state of the radio resources.
   A cell is chosen by a power scan of all frequencies (gsm322_cs_choose), for
   which t_rel_wait, 1.5 seconds, leaves no time: it expires first.  *)
RrMsgsNow ==
  CASE ms.rr = "IDLE" -> IF ms.camped THEN {"PAGING"} ELSE IF ms.relWait THEN {} ELSE {"CELL"}
    [] ms.rr = "CONN_PEND" -> {"EST_CONF", "REL_IND"}
    [] ms.rr = "DEDICATED" -> {"REL_IND", "ERROR_IND", "CHAN_REL", "CIPH_M_CMD",
                               "CM_SERV_ACC", "CM_SERV_REJ", "CM_SERV_REJ_ANY",
                               "MM_ABORT", "MM_ABORT_ILLEGAL"}
    [] ms.rr = "REL_PEND" -> IF ms.relWait THEN {} ELSE {"REL_CONF"}

(* A SETUP opens a transaction of the network.  A message of a transaction the
   phone does not know opens one too, up to the bound. *)
CcMsgsNow ==
  {m \in [type : CcMsgs, ti : Tis] :
     /\ ms.rr = "DEDICATED"
     /\ m.type = "SETUP" => m.ti \in NetTis
     /\ ByTi(ms, m.ti) \in Refs}

Heard(msgs) == {[ms EXCEPT !.rsl = Append(@, m)] : m \in msgs}

(* Loss of the signal: gsm322_l1_signal, straight to gsm48_rr_los *)
Lost == IF ms.rr = "IDLE" THEN {} ELSE {Los(ms)}

(* The phone after the one read of a round, when the loop is there *)
Read ==
  IF at # 0 THEN {}
  ELSE {ms} \cup Heard({Msg(type) : type \in RrMsgsNow}) \cup Heard(CcMsgsNow) \cup Lost

-----------------------------------------------------------------------------
(* A round without a command, and with one (call_cmd and its like of
   vty_interface.c).  A refused command is a round without one. *)
Receive == \E s \in Read : Drain(s)

(* mncc_call.  Whether RR refuses (see RrEstReq) is known only now. *)
Dial ==
  \E s \in Read, b \in BOOLEAN :
    LET call == [ref |-> s.moRef, init |-> TRUE, hold |-> FALSE, ring |-> FALSE]
        t == [s EXCEPT !.calls = Append(@, call), !.moRef = @ + 1, !.barred = b] IN
    /\ Unheld(s) = {} /\ s.moRef \in MoRefs
    /\ Drain([SetupReq(t, s.moRef) EXCEPT !.barred = FALSE])

(* mncc_hangup *)
HangUp ==
  \E s \in Read : \E i \in Unheld(s) :
    /\ IsFirst(i, Unheld(s))
    /\ LET call == s.calls[i] IN
       Drain(FromL4(s, IF call.init THEN "REL_REQ" ELSE "DISC_REQ", call.ref))

AnswerCall == \E s \in Read : MayAnswer(s) /\ Drain(Answer(s))

(* mncc_hold *)
Hold ==
  \E s \in Read : \E i \in Unheld(s) :
    IsFirst(i, Unheld(s)) /\ Drain(FromL4(s, "HOLD_REQ", s.calls[i].ref))

(* mncc_retrieve *)
Retrieve ==
  \E s \in Read :
    /\ Unheld(s) = {}
    /\ \E i \in DOMAIN s.calls : Drain(FromL4(s, "RETRIEVE_REQ", s.calls[i].ref))

-----------------------------------------------------------------------------
Init ==
  /\ at = 0
  /\ \E set \in Settings :
    ms = [mm |-> "MM_IDLE", conns |-> <<>>, t3230 |-> FALSE, t3240 |-> FALSE,
          updated |-> TRUE, rr |-> "IDLE", rrEstReq |-> FALSE, relWait |-> FALSE, camped |-> TRUE,
          barred |-> FALSE, rsl |-> <<>>, rrUp |-> <<>>, mmxx |-> <<>>,
          events |-> <<>>, mncc |-> <<>>, mtRef |-> MtBase + 1, trans |-> <<>>,
          calls |-> <<>>, moRef |-> 1, set |-> set]

Next == Work \/ Timer \/ Registers \/ Receive \/ Dial \/ HangUp \/ AnswerCall \/ Hold \/ Retrieve

Spec == Init /\ [][Next]_vars

(* Fairness: the loop runs on, timers that go on running expire, a cell is
   found, and the release of a channel is confirmed: a timer of LAPDm (T200)
   sees to it.  Not so an access, which may wait for ever (see Radio).
   A line names what calls for an action, and the action, which is not put off
   for ever while the call lasts.  Rounds begin and end meanwhile, so that this
   is more than the weak fairness of the action: the code looks at its timers in
   every round.  As long as at # 0 every step is one of Work. *)
Hears(types) == at = 0 /\ \E s \in Heard({Msg(type) : type \in types \cap RrMsgsNow}) : Drain(s)

Fairness ==
  /\ []<>Idle(ms) \/ []<><<Drain(ms) \/ at # 0>>_vars
  /\ []<>(~ms.t3230) \/ []<><<T3230>>_vars
  /\ []<>(~ms.t3240) \/ []<><<T3240>>_vars
  /\ []<>(~ms.relWait) \/ []<><<TRelWait>>_vars
  /\ []<>(RrMsgsNow # {"REL_CONF"}) \/ []<><<Hears({"REL_CONF"})>>_vars
  /\ []<>(RrMsgsNow # {"CELL"}) \/ []<><<Hears({"CELL"})>>_vars
  /\ \A r \in Refs : []<>(~CcRuns(r)) \/ []<><<CcTimer(r)>>_vars

FairSpec == Spec /\ Fairness

-----------------------------------------------------------------------------
TypeOK ==
  /\ ms.mm \in MmStates /\ ms.rr \in RrStates
  /\ ms.conns \in Seq(Conn)
  /\ DOMAIN ms.trans \subseteq Refs /\ \A r \in DOMAIN ms.trans : ms.trans[r] \in Trans
  /\ ms.calls \in Seq(Call)

(* Once a round has ended, the three layers agree. *)
AllCalls == Range(ms.calls)
AllConns == Range(ms.conns)

(* A transaction has its MM connection, no two share an identifier, and one
   connection at most is waited for. *)
TransHaveConns ==
  /\ \A r \in DOMAIN ms.trans : HasConn(ms, r)
  /\ \A i, j \in DOMAIN ms.conns : IsPending(ms.conns[i]) /\ IsPending(ms.conns[j]) => i = j
  /\ \A r, q \in DOMAIN ms.trans :
       r # q => ms.trans[r].ti = NoTi \/ ms.trans[r].ti # ms.trans[q].ti

(* A call the user sees is one call control knows, but for a call hung up
   before the network was reached. *)
CallsHaveTrans ==
  /\ \A c \in AllCalls : Has(ms, c.ref) \/ c.init
  /\ \A c \in AllCalls : c.ring =>
       Has(ms, c.ref) /\ ms.trans[c.ref].state \in {"CALL_RECEIVED", "DISCONNECT", "RELEASE_REQ"}

(* What call control works on, a call of the user stands for. *)
TransHaveCalls ==
  \A r \in DOMAIN ms.trans :
    HasCall(ms, r) \/ ms.trans[r].state \in {"NULL", "RELEASE_REQ"}

(* No connection outlives its channel. *)
ConnsHaveChannel ==
  ms.rr = "IDLE" /\ ms.camped => \A c \in AllConns : c.state = "CONN_PEND"

LayersAgree ==
  Idle(ms) => TransHaveConns /\ CallsHaveTrans /\ TransHaveCalls /\ ConnsHaveChannel

(* A call that is being cleared is gone in the end, in every layer. *)
Clearing(r) == Has(ms, r) /\ ms.trans[r].timer \in {"T305", "T308"}
Cleared == \A r \in Refs : Clearing(r) ~> ~Has(ms, r) /\ ~HasCall(ms, r)

(* If no access waits for ever (the radio resource layer has one that does, a
   channel the phone cannot use), MM does not wait for ever with a call: the
   connection it has asked the radio for, or the network on a channel, is opened
   or given up. *)
AccessesEnd == []<>(ms.rr # "CONN_PEND")
IsPendingNow(r) == \E c \in AllConns : IsPending(c) /\ c.ref = r
IsAsked ==
  \/ ms.mm \in {"WAIT_RR_CONN_MM_CON", "WAIT_OUT_MM_CONN"}
  \/ ms.mm = "WAIT_ADD_OUT_MM_CON" /\ ms.rr = "DEDICATED"
PendingDecided ==
  AccessesEnd => \A r \in Refs : IsPendingNow(r) /\ IsAsked ~> ~IsPendingNow(r)
=============================================================================
