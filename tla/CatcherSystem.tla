---------------------------- MODULE CatcherSystem ----------------------------
(***************************************************************************)
(* catcher and the phone it drives, connected by the L1CTL link, with the  *)
(* correctness properties of the pair.                                     *)
(*                                                                         *)
(* A run begins when catcher has connected and sent its first reset        *)
(* request.  The phone may still be off, or on and idle, or it may be busy *)
(* with what an earlier client left behind (Leftover).                     *)
(***************************************************************************)
EXTENDS Catcher, Layer1

CONSTANT Leftover  \* TRUE: an earlier client was killed while it used the phone

ASSUME SystemAssumption == Leftover \in BOOLEAN

vars == <<link, hostVars, phoneVars>>

(* The phone of a client that was killed while it synchronised or measured. *)
LeftBehind ==
  /\ tuned \in Arfcns
  /\ \/ task = "fbsb" /\ pmNext = 0 /\ pmEnd = 0
     \/ task = "pm" /\ \E i \in DOMAIN Bands : pmNext = Bands[i][1] /\ pmEnd = Bands[i][2]
  /\ pmMsg = <<>> /\ compl = {} /\ overdue = {} /\ synced = FALSE /\ ccch = FALSE
  /\ rachDue = 0 /\ lastRach = 0 /\ fn = 0 /\ onAir = {} /\ reboots = 0
  /\ rachRa \in RA

(* l23_app_init has sent the first reset request. *)
Init ==
  /\ CatcherInit
  /\ Layer1Init \/ (Leftover /\ LeftBehind)
  /\ toPhone = <<ResetReq>>
  /\ toHost = <<>>

Next ==
  \/ CatcherNext /\ UNCHANGED phoneVars
  \/ Layer1Next /\ UNCHANGED hostVars

Spec == Init /\ [][Next]_vars

(***************************************************************************)
(* The select loop of catcher serves the link and the timer, the main loop *)
(* of the phone serves requests and completions, and the frame interrupt   *)
(* finishes each measurement, synchronisation and burst.  Nothing is       *)
(* promised of what a cell broadcasts, nor that a phone is switched off.   *)
(***************************************************************************)
Fairness ==
  /\ WF_vars(Receipt /\ UNCHANGED phoneVars)
  /\ WF_vars(Timeout /\ UNCHANGED phoneVars)
  /\ WF_vars(Request /\ UNCHANGED hostVars)
  /\ WF_vars(Radio /\ UNCHANGED hostVars)
  /\ WF_vars(Completion /\ UNCHANGED hostVars)
  /\ WF_vars(task = "off" /\ Boot /\ UNCHANGED hostVars)

FairSpec == Spec /\ Fairness

-----------------------------------------------------------------------------
(* Type invariant of the composed state. *)
TypeOK == LinkTypeOK /\ CatcherTypeOK /\ Layer1TypeOK

(***************************************************************************)
(* What is outstanding between catcher and the phone: a measurement or a   *)
(* synchronisation that was asked for (PM_REQ, FBSB_REQ), is being worked  *)
(* on, or was answered (PM_DONE, FBSB_CONF) and not handled yet.           *)
(***************************************************************************)
Asks(m) == m.type \in {"PM_REQ", "FBSB_REQ"}
Answers(m) == m.type \in {"PM_DONE", "FBSB_CONF"}

NoAsk == \A i \in DOMAIN toPhone : ~Asks(toPhone[i])
NoWork == task \notin {"pm", "fbsb"}
NoCompletion == "FB" \notin compl
NoAnswer == \A i \in DOMAIN toHost : ~Answers(toHost[i])

NoMeasuring ==
  /\ \A i \in DOMAIN toPhone : toPhone[i].type # "PM_REQ"
  /\ task # "pm"
  /\ \A i \in DOMAIN toHost : toHost[i].type # "PM_DONE"

NoSynchronising ==
  /\ \A i \in DOMAIN toPhone : toPhone[i].type # "FBSB_REQ"
  /\ task # "fbsb" /\ NoCompletion
  /\ \A i \in DOMAIN toHost : toHost[i].type # "FBSB_CONF"

(***************************************************************************)
(* At most one is outstanding, of the kind catcher waits for, and none     *)
(* while it reads a cell: an answer carries nothing that says which        *)
(* request it belongs to (catcher.c:451 signal_cb).                        *)
(***************************************************************************)
OneOutstanding ==
  /\ state = "PM" => NoSynchronising
  /\ state = "SYNC" => NoMeasuring
  /\ Reading \/ ~started => NoMeasuring /\ NoSynchronising
  /\ \A i, j \in DOMAIN toPhone : Asks(toPhone[i]) /\ Asks(toPhone[j]) => i = j
  /\ \A i, j \in DOMAIN toHost : Answers(toHost[i]) /\ Answers(toHost[j]) => i = j
  /\ NoAsk \/ (NoWork /\ NoCompletion /\ NoAnswer)
  /\ NoWork \/ (NoCompletion /\ NoAnswer)
  /\ NoCompletion \/ NoAnswer

(***************************************************************************)
(* From the answer to a synchronisation on, everything the phone hears or  *)
(* has heard and sent after that answer is of the cell catcher means       *)
(* (catcher.c:401 start_sync, 455 signal_cb).                              *)
(***************************************************************************)
Camped == task = "camped" => tuned = sysinfo.arfcn
Own(m) == m.type = "BCCH_IND" => m.msg.arfcn = sysinfo.arfcn

TunedCell ==
  /\ Reading => Camped /\ \A i \in DOMAIN toHost : Own(toHost[i])
  /\ \A i \in DOMAIN toPhone : toPhone[i].type = "FBSB_REQ" => toPhone[i].arfcn = sysinfo.arfcn
  /\ task = "fbsb" => tuned = sysinfo.arfcn
  /\ NoCompletion \/ Camped
  /\ \A i \in DOMAIN toHost : toHost[i].type = "FBSB_CONF" =>
       Camped /\ \A j \in DOMAIN toHost : i < j => Own(toHost[j])

(***************************************************************************)
(* The pair implements the abstract scanner: levels are complete when the  *)
(* first cell is visited, cells are visited strongest first and each once, *)
(* and what is logged of a cell is its own, complete system information    *)
(* (catcher.c:360 start_sync, 451 signal_cb, 621 new_sysinfo).             *)
(***************************************************************************)
Visiting == state # "PM"

AbstractSweep ==
  INSTANCE Sweep WITH
    Cells <- Arfcns, Loud <- MIN_RXLEV, Broadcast <- Air, Moves <- Gps,
    phase <- IF Visiting THEN "visiting" ELSE "measuring",
    level <- [a \in Arfcns |-> IF Visiting THEN pm[a].rxlev ELSE 0],
    visited <- {a \in Arfcns : Visiting /\ pm[a].sync},
    at <- IF Visiting THEN sysinfo.arfcn ELSE -1,
    reports <- log

ImplementsSweep == AbstractSweep!Spec

(***************************************************************************)
(* sync_count, printed as "%d syncs left", is the number of cells that are *)
(* loud enough and not tuned to yet, although results are counted as they  *)
(* arrive and the cells are chosen elsewhere (catcher.c:399, 448).         *)
(***************************************************************************)
SyncsLeft == Cardinality({a \in Unsynced : pm[a].rxlev >= MIN_RXLEV})
SyncCountExact == sync_count = SyncsLeft

(***************************************************************************)
(* Every system information message stored for a cell was broadcast by     *)
(* that cell, although messages of the cell before it are still on the     *)
(* link when the next one is tuned to (catcher.c:784 unit_data_ind).       *)
(***************************************************************************)
OwnSysinfo == \A m \in sysinfo.si : m.arfcn = sysinfo.arfcn

(***************************************************************************)
(* The timer is pending exactly while a cell is read or asked for a        *)
(* channel: it is what ends both states, and one left over from a cell     *)
(* would cut the reading of the next one short (catcher.c:276 timeout_cb). *)
(***************************************************************************)
TimerArmed == timer <=> Reading

(***************************************************************************)
(* log_sysinfo divides by the number of frames received since the last     *)
(* synchronisation; it is never called with zero (catcher.c:218).          *)
(***************************************************************************)
LoggedAfterFrame == [][Len(log') > Len(log) => frames' > 0]_vars

(***************************************************************************)
(* While a cell is asked for a channel, rach_ref never counts as confirmed *)
(* with the frame of a burst to another cell: it is that of a burst sent   *)
(* since the synchronisation, or 0, which the phone reports when the next  *)
(* request has cleared last_rach.  Until the burst is repeated it is the   *)
(* very burst of the reference, so that no assignment meant for another    *)
(* phone can match (catcher.c:504 match_ra, 833 chan_conf).                *)
(***************************************************************************)
OnCell(f) == f = 0 \/ \E r \in onAir : r.fn = f

ConfirmedBurst ==
  state = "RACH" /\ rach_ref.valid =>
    /\ OnCell(rach_ref.fn)
    /\ rach_count = 0 => [ra |-> rach_ref.cr, fn |-> rach_ref.fn] \in onAir

(***************************************************************************)
(* The scanner keeps sweeping: whatever the cells do, it is back to        *)
(* measuring again and again (catcher.c:389 start_sync).                   *)
(***************************************************************************)
KeepsSweeping == []<>(state = "PM")

(***************************************************************************)
(* Every cell heard loud enough is tuned to before the sweep ends          *)
(* (catcher.c:360 start_sync).                                             *)
(***************************************************************************)
Heard(a) == pm[a].meas /\ pm[a].rxlev >= MIN_RXLEV
HeardIsTuned == \A a \in Arfcns : Heard(a) ~> pm[a].sync
=============================================================================
