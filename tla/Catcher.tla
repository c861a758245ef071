------------------------------- MODULE Catcher -------------------------------
(***************************************************************************)
(* The cell scanner catcher (layer23/src/misc/catcher.c): the host program *)
(* that measures every ARFCN, tunes the phone to the cells it heard,       *)
(* strongest first, reads their system information and logs it.            *)
(*                                                                         *)
(* catcher is single threaded: its select loop runs one handler at a time, *)
(* the callback of an L1CTL message or of the one timer.  Each handler is  *)
(* one action.  The functions start_pm, start_sync and start_rach, which   *)
(* handlers call in their tail, are operators that fix the next value of   *)
(* every variable they may assign.                                         *)
(*                                                                         *)
(* A definition whose name begins with "Wrong" is not part of the model.   *)
(* It is the definition that follows it with a mistake one could make in   *)
(* the code, and serves to show that a property would detect the mistake.  *)
(***************************************************************************)
EXTENDS L1Link

CONSTANTS
  MIN_RXLEV,  \* a cell below this level is not worth a synchronisation
  RACH_MAX,   \* the number of RACH bursts to send to a cell
  Gps,        \* TRUE: a GPS receiver may report a move of more than MAX_DIST
  CountBound  \* bound: value of sync_count from which no more results are counted

ASSUME CatcherAssumption ==
  /\ MIN_RXLEV \in Int
  /\ RACH_MAX \in Nat
  /\ Gps \in BOOLEAN
  /\ CountBound \in Int

VARIABLES
  started,     \* the first reset of the phone has been seen
  state,       \* SCAN_STATE_*
  timer,       \* the timer is pending
  pm,          \* per ARFCN: measured, synchronised to, and its level
  pm_index,    \* the band being measured
  sync_count,  \* the number of cells left to synchronise to, as logged
  sysinfo,     \* the tuned ARFCN and the system information read from it
  rach_count,  \* RACH bursts given up on since the sysinfo was complete
  rach_ref,    \* the channel request waiting for an assignment
  frames,      \* ms->meas.frames: frames received since the sync, capped at 1
  log          \* the [SysInfo] blocks written since the last [power] block

sweep == <<pm, pm_index, sync_count>>
rach == <<rach_count, rach_ref>>
hostVars == <<started, state, timer, sweep, sysinfo, rach, frames, log>>

NoMeasurement == [a \in Arfcns |-> [meas |-> FALSE, sync |-> FALSE, rxlev |-> 0]]

CatcherInit ==
  /\ started = FALSE
  /\ state = "PM"
  /\ timer = FALSE
  /\ pm = NoMeasurement
  /\ pm_index = 0
  /\ sync_count = 0
  /\ sysinfo = [arfcn |-> 0, si |-> {}]
  /\ rach_count = 0
  /\ \E cr \in RA : rach_ref = [valid |-> FALSE, cr |-> cr, fn |-> 0]
  /\ frames = 0
  /\ log = <<>>

-----------------------------------------------------------------------------
(* What start_pm and start_sync decide from. *)

(***************************************************************************)
(* The rows of band_range that index i, counted from 0, can read: a band,  *)
(* the terminating <<0, 0>>, and past that whatever follows the array in   *)
(* memory, which is taken to be a terminator or the range of some band.    *)
(***************************************************************************)
End == <<0, 0>>
Rows(i) ==
  {row \in {Bands[j] : j \in DOMAIN Bands} \cup {End} :
     /\ i < Len(Bands) => row = Bands[i + 1]
     /\ i = Len(Bands) => row = End}

(* Every index past the array stands for one. *)
NextIndex == IF pm_index <= Len(Bands) THEN pm_index + 1 ELSE pm_index

PmRequests(row) == <<ResetReq, PmReq(row[1], row[2])>>

Unsynced == {a \in Arfcns : pm[a].meas /\ ~pm[a].sync}

(* Not strictly louder: the highest ARFCN of equals. *)
WrongStrongest(a) ==
  /\ a \in Unsynced
  /\ \A b \in Unsynced :
       pm[b].rxlev < pm[a].rxlev \/ (pm[b].rxlev = pm[a].rxlev /\ a >= b)

(* The scan over pm[]: strictly louder wins, so the lowest ARFCN of equals. *)
Strongest(a) ==
  /\ a \in Unsynced
  /\ \A b \in Unsynced :
       \/ pm[b].rxlev < pm[a].rxlev
       \/ pm[b].rxlev = pm[a].rxlev /\ a <= b

(* A cell exactly at MIN_RXLEV is skipped. *)
WrongNextCell(a) == Strongest(a) /\ pm[a].rxlev > MIN_RXLEV

NextCell(a) == Strongest(a) /\ pm[a].rxlev >= MIN_RXLEV

(* The new sweep starts with the measurements of the old one. *)
WrongNewSweep(s, out) ==
  /\ Gps \/ ~\E a \in Arfcns : NextCell(a)
  /\ pm_index' = 0 /\ sync_count' = 0 /\ state' = "PM"
  /\ sysinfo' = s /\ UNCHANGED pm
  /\ toPhone' = toPhone \o out \o PmRequests(Bands[1])

(* start_sync with nothing left to tune to, or after a move: a new sweep. *)
NewSweep(s, out) ==
  /\ Gps \/ ~\E a \in Arfcns : NextCell(a)
  /\ pm' = NoMeasurement
  /\ pm_index' = 0
  /\ sync_count' = 0
  /\ state' = "PM"
  /\ sysinfo' = s
  /\ toPhone' = toPhone \o out \o PmRequests(Bands[1])

(* sysinfo is cleared after its ARFCN was set. *)
WrongTuneToOrder(a, index, out) ==
  /\ NextCell(a)
  /\ pm' = [pm EXCEPT ![a].sync = TRUE]
  /\ pm_index' = index /\ sync_count' = sync_count - 1 /\ state' = "SYNC"
  /\ sysinfo' = [arfcn |-> 0, si |-> {}]
  /\ toPhone' = toPhone \o out \o <<ResetReq, FbsbReq(a)>>

(* start_sync with a cell left: tune to the strongest. *)
TuneTo(a, index, out) ==
  /\ NextCell(a)
  /\ pm' = [pm EXCEPT ![a].sync = TRUE]
  /\ pm_index' = index
  /\ sync_count' = sync_count - 1
  /\ sysinfo' = [arfcn |-> a, si |-> {}]
  /\ state' = "SYNC"
  /\ toPhone' = toPhone \o out \o <<ResetReq, FbsbReq(a)>>

(***************************************************************************)
(* start_sync, reached with band index and sysinfo s and after the handler *)
(* has sent the requests out.                                              *)
(***************************************************************************)
StartSync(index, s, out) ==
  \/ \E a \in Arfcns : TuneTo(a, index, out)
  \/ NewSweep(s, out)

(* The reference of the burst before stays valid. *)
WrongSendBurst(s, n, out) ==
  /\ n # RACH_MAX
  /\ state' = "RACH" /\ timer' = TRUE /\ rach_count' = n
  /\ \E cr \in RA :
       /\ rach_ref' = [rach_ref EXCEPT !.cr = cr]
       /\ toPhone' = toPhone \o out \o <<RachReq(cr)>>
  /\ sysinfo' = s
  /\ UNCHANGED <<sweep, log>>
(* Without the comparison with the number of bursts. *)
WrongSendBurstUnlimited(s, n, out) ==
  /\ state' = "RACH" /\ timer' = TRUE /\ rach_count' = n
  /\ \E cr \in RA :
       /\ rach_ref' = [rach_ref EXCEPT !.valid = FALSE, !.cr = cr]
       /\ toPhone' = toPhone \o out \o <<RachReq(cr)>>
  /\ sysinfo' = s
  /\ UNCHANGED <<sweep, log>>

(***************************************************************************)
(* start_rach with sysinfo s after n bursts: send the next burst or, when  *)
(* all are spent, log the cell and move on.                                *)
(***************************************************************************)
SendBurst(s, n, out) ==
  /\ n # RACH_MAX
  /\ state' = "RACH"
  /\ timer' = TRUE
  /\ rach_count' = n
  /\ \E cr \in RA :
       /\ rach_ref' = [rach_ref EXCEPT !.valid = FALSE, !.cr = cr]
       /\ toPhone' = toPhone \o out \o <<RachReq(cr)>>
  /\ sysinfo' = s
  /\ UNCHANGED <<sweep, log>>

LogSysinfo(s) == log' = Append(log, s)

StartRach(s, n, out) ==
  \/ SendBurst(s, n, out)
  \/ /\ n = RACH_MAX
     /\ LogSysinfo(s)
     /\ rach_count' = n
     /\ timer' = FALSE
     /\ StartSync(pm_index, s, out)
     /\ UNCHANGED rach_ref

-----------------------------------------------------------------------------
(* The handlers of L1CTL messages. *)

Receive(t) == HostGets(t) /\ toHost' = Tail(toHost)

(* Every reset starts the scan. *)
WrongResetSignal ==
  /\ Receive("RESET")
  /\ started' = TRUE
  /\ pm' = NoMeasurement /\ pm_index' = 0 /\ sync_count' = 0 /\ state' = "PM"
  /\ toPhone' = toPhone \o PmRequests(Bands[1])
  /\ UNCHANGED <<timer, sysinfo, rach, frames, log>>

(* signal_cb, S_L1CTL_RESET: only the first one starts the scan. *)
ResetSignal ==
  /\ Receive("RESET")
  /\ \/ /\ started
        /\ UNCHANGED <<hostVars, toPhone>>
     \/ /\ ~started
        /\ started' = TRUE
        /\ pm' = NoMeasurement
        /\ pm_index' = 0
        /\ sync_count' = 0
        /\ state' = "PM"
        /\ toPhone' = toPhone \o PmRequests(Bands[1])
        /\ UNCHANGED <<timer, sysinfo, rach, frames, log>>

(* signal_cb, S_L1CTL_PM_RES: one measured ARFCN. *)
PmResult ==
  /\ Receive("PM_RES") /\ sync_count < CountBound
  /\ LET r == Head(toHost) IN
       /\ pm' = [pm EXCEPT ![r.arfcn].meas = TRUE, ![r.arfcn].rxlev = r.rxlev]
       /\ sync_count' = IF r.rxlev >= MIN_RXLEV THEN sync_count + 1 ELSE sync_count
  /\ UNCHANGED <<started, state, timer, pm_index, sysinfo, rach, frames, log, toPhone>>

(* signal_cb, S_L1CTL_PM_DONE: the next band or, after the last, the cells. *)
PmFinished ==
  /\ Receive("PM_DONE")
  /\ \E row \in Rows(NextIndex) :
       \/ /\ row # End
          /\ pm_index' = NextIndex
          /\ state' = "PM"
          /\ toPhone' = toPhone \o PmRequests(row)
          /\ UNCHANGED <<pm, sync_count, sysinfo, log>>
       \/ /\ row = End
          /\ log' = <<>>
          /\ StartSync(NextIndex, sysinfo, <<>>)
  /\ UNCHANGED <<started, timer, rach, frames>>

(* signal_cb, S_L1CTL_FBSB_RESP and S_L1CTL_FBSB_ERR. *)
SyncResult ==
  /\ Receive("FBSB_CONF")
  /\ \/ /\ Head(toHost).ok
        /\ state' = "READ"
        /\ timer' = TRUE
        /\ frames' = 0
        /\ UNCHANGED <<sweep, sysinfo, toPhone>>
     \/ /\ ~Head(toHost).ok
        /\ StartSync(pm_index, sysinfo, <<>>)
        /\ UNCHANGED <<timer, frames>>
  /\ UNCHANGED <<started, rach, log>>

Store(si, m) == {n \in si : n.si # m.si} \cup {m}

(* new_sysinfo with the sysinfo s just stored. *)
NewSysinfo(s, out) ==
  \/ /\ ~Complete(s.si)
     /\ timer' = TRUE
     /\ sysinfo' = s
     /\ toPhone' = toPhone \o out
     /\ UNCHANGED <<state, sweep, rach, log>>
  \/ /\ Complete(s.si)
     /\ StartRach(s, 0, out)

(* Messages are stored as soon as the next cell is tuned to. *)
WrongReading == state \in {"SYNC", "READ", "RACH"}

Reading == state \in {"READ", "RACH"}

(***************************************************************************)
(* unit_data_ind and bcch: a message is looked at only while reading a     *)
(* cell, and acted on only if it differs from the stored one of its type.  *)
(* SI3 also switches the phone's CCCH mode.                                *)
(***************************************************************************)
Bcch ==
  /\ Receive("BCCH_IND")
  /\ LET m == Head(toHost).msg IN
       \/ /\ ~Reading \/ m \in sysinfo.si
          /\ UNCHANGED <<state, timer, sweep, sysinfo, rach, log, toPhone>>
       \/ /\ Reading /\ m \notin sysinfo.si
          /\ NewSysinfo([sysinfo EXCEPT !.si = Store(@, m)],
                        IF m.si = "SI3" THEN <<CcchModeReq>> ELSE <<>>)
  /\ frames' = 1
  /\ UNCHANGED started

(* match_ra against one request reference. *)
MatchRa(ref) == rach_ref.valid /\ ref.ra = rach_ref.cr /\ ref.fn = rach_ref.fn

(***************************************************************************)
(* imm_ass, imm_ass_ext and imm_ass_rej look for their own request among   *)
(* the one, two or four references of the message and, when it is there,   *)
(* end in ta_result.                                                       *)
(***************************************************************************)
Accepts(refs) == state = "RACH" /\ \E ref \in refs : MatchRa(ref)

(* The timer keeps running. *)
WrongImmediateAssignment ==
  /\ Receive("AGCH_IND")
  /\ \/ /\ Accepts(Head(toHost).refs)
        /\ LogSysinfo(sysinfo)
        /\ StartSync(pm_index, sysinfo, <<>>)
     \/ /\ ~Accepts(Head(toHost).refs)
        /\ UNCHANGED <<state, sweep, sysinfo, log, toPhone>>
  /\ frames' = 1
  /\ UNCHANGED <<started, timer, rach>>

ImmediateAssignment ==
  /\ Receive("AGCH_IND")
  /\ \/ /\ Accepts(Head(toHost).refs)
        /\ timer' = FALSE
        /\ LogSysinfo(sysinfo)
        /\ StartSync(pm_index, sysinfo, <<>>)
     \/ /\ ~Accepts(Head(toHost).refs)
        /\ UNCHANGED <<state, timer, sweep, sysinfo, log, toPhone>>
  /\ frames' = 1
  /\ UNCHANGED <<started, rach>>

(* rcv_cch and chan_conf: the phone has sent a burst in frame fn. *)
ChanConf ==
  /\ Receive("RACH_CONF")
  /\ rach_ref' = IF state = "RACH"
                 THEN [rach_ref EXCEPT !.valid = TRUE, !.fn = Head(toHost).fn]
                 ELSE rach_ref
  /\ UNCHANGED <<started, state, timer, sweep, sysinfo, rach_count, frames, log, toPhone>>

(* S_L1CTL_CCCH_MODE_CONF is not handled. *)
CcchModeConfirmed ==
  /\ Receive("CCCH_MODE_CONF")
  /\ UNCHANGED <<hostVars, toPhone>>

-----------------------------------------------------------------------------
(* The cell is logged with what was read. *)
WrongReadTimeoutLog ==
  /\ timer /\ state = "READ"
  /\ timer' = FALSE
  /\ LogSysinfo(sysinfo)
  /\ StartSync(pm_index, sysinfo, <<>>)
  /\ UNCHANGED <<toHost, started, rach, frames>>

(* Nothing is done about the expiry. *)
WrongReadTimeout ==
  /\ timer /\ state = "READ"
  /\ timer' = FALSE
  /\ UNCHANGED <<link, started, state, sweep, sysinfo, rach, frames, log>>

(* timeout_cb.  In the other states an expiry does nothing. *)
ReadTimeout ==
  /\ timer /\ state = "READ"
  /\ timer' = FALSE
  /\ StartSync(pm_index, sysinfo, <<>>)
  /\ UNCHANGED <<toHost, started, rach, frames, log>>

RachTimeout ==
  /\ timer /\ state = "RACH"
  /\ StartRach(sysinfo, rach_count + 1, <<>>)
  /\ UNCHANGED <<toHost, started, frames>>

IdleTimeout ==
  /\ timer /\ ~Reading
  /\ timer' = FALSE
  /\ UNCHANGED <<link, started, state, sweep, sysinfo, rach, frames, log>>

Receipt ==
  \/ ResetSignal \/ PmResult \/ PmFinished \/ SyncResult
  \/ Bcch \/ ImmediateAssignment \/ ChanConf \/ CcchModeConfirmed

Timeout == ReadTimeout \/ RachTimeout \/ IdleTimeout

CatcherNext == Receipt \/ Timeout

Report == [arfcn : Nat, si : SUBSET SIMessage]

CatcherTypeOK ==
  /\ started \in BOOLEAN
  /\ state \in {"PM", "SYNC", "READ", "RACH"}
  /\ timer \in BOOLEAN
  /\ pm \in [Arfcns -> [meas : BOOLEAN, sync : BOOLEAN, rxlev : Int]]
  /\ pm_index \in 0 .. Len(Bands) + 1
  /\ sync_count \in Int
  /\ sysinfo \in Report
  /\ rach_count \in 0 .. RACH_MAX /\ (state = "RACH" => rach_count < RACH_MAX)
  /\ rach_ref \in [valid : BOOLEAN, cr : RA, fn : Nat]
  /\ frames \in {0, 1}
  /\ log \in Seq(Report)
=============================================================================
