------------------------------ MODULE PchScan ------------------------------
(***************************************************************************)
(* The paging scan: PCHThread of driverConnector.py runs the program       *)
(* pch_scan on one ARFCN after the other, reads what it prints until time  *)
(* is up, and starts it again when it could not synchronise.               *)
(*                                                                         *)
(* pch_scan is a client of the phone of module Layer1.  It is killed, not  *)
(* closed: the phone goes on with what the last client asked for, and what *)
(* it sends meets the next client as soon as that is connected.            *)
(***************************************************************************)
EXTENDS Layer1

CONSTANTS
  Targets,      \* the ARFCNs to scan, in order
  PCH_retries,
  PipeBound     \* lines the pipe holds before its writer waits

ASSUME PchScanAssumption ==
  /\ Targets \in Seq(Arfcns) /\ Targets # <<>>
  /\ {PCH_retries, PipeBound} \subseteq Nat

VARIABLES
  scan,         \* which of the targets is scanned
  client,       \* pch_scan: not running, starting or connected
  ccch_mode,    \* app_state.ccch_mode is not CCCH_MODE_NONE
  pipe,         \* the lines pch_scan has printed, not read yet
  thread,       \* where PCHThread.run is
  pch_retries,
  stale,        \* poll_obj holds a descriptor that is closed
  time,         \* running, up, or known to be up: scan_time is computed late
  found         \* which of pages_found, ia_hop_fund, ia_non_hop_found are not 0

clientVars == <<client, ccch_mode>>
threadVars == <<scan, thread, pch_retries, stale, time, found>>
vars == <<link, phoneVars, clientVars, pipe, threadVars>>

Target == Targets[scan]

(* What the PCH and AGCH carry.  A paging request may name nobody. *)
Kinds == {"nobody", "page", "hop", "nonhop"}
PchInd(a, k) == [type |-> "PCH_IND", arfcn |-> a, kind |-> k]

(* __init__ and the beginning of run: the client is started. *)
Init ==
  /\ Layer1Init
  /\ toPhone = <<>> /\ toHost = <<>>
  /\ scan = 1 /\ client = "starting" /\ ccch_mode = FALSE
  /\ pipe = <<>>
  /\ thread = "loop" /\ pch_retries = PCH_retries /\ stale = FALSE
  /\ time = "running" /\ found = {}

-----------------------------------------------------------------------------
(* pch_scan.c *)
Ask(msgs) == toPhone' = toPhone \o msgs

(* l23_app_init.  The program synchronises without a reset. *)
WrongClientStarts ==
  /\ client = "starting"
  /\ client' = "up" /\ ccch_mode' = FALSE
  /\ Ask(<<FbsbReq(Target)>>)
  /\ UNCHANGED <<toHost, phoneVars, pipe, threadVars>>
ClientStarts ==
  /\ client = "starting"
  /\ client' = "up" /\ ccch_mode' = FALSE
  /\ Ask(<<ResetReq>>)
  /\ UNCHANGED <<toHost, phoneVars, pipe, threadVars>>

Receive(t) ==
  /\ client = "up" /\ HostGets(t)
  /\ toHost' = Tail(toHost)
  /\ UNCHANGED <<phoneVars, client, threadVars>>

(* The pipe is full: a write to it waits. *)
Prints(line) == Len(pipe) < PipeBound /\ pipe' = Append(pipe, line)

(* signal_cb, layer3_app_reset.  A reset is taken for news once only, or the
   state of the application is kept. *)
WrongResetSignal ==
  /\ Receive("RESET")
  /\ Ask(IF ccch_mode THEN <<>> ELSE <<FbsbReq(Target)>>)
  /\ UNCHANGED <<ccch_mode, pipe>>
WrongResetSignalKeeps ==
  /\ Receive("RESET")
  /\ Ask(<<FbsbReq(Target)>>)
  /\ UNCHANGED <<ccch_mode, pipe>>
ResetSignal ==
  /\ Receive("RESET")
  /\ ccch_mode' = FALSE
  /\ Ask(<<FbsbReq(Target)>>)
  /\ UNCHANGED pipe

(* rx_l1_fbsb_conf prints a failure; pch_scan handles neither result. *)
FbsbResult ==
  /\ Receive("FBSB_CONF")
  /\ IF Head(toHost).ok THEN UNCHANGED pipe ELSE Prints("fail")
  /\ UNCHANGED <<toPhone, ccch_mode>>

(* gsm48_rx_bcch, dump_bcch: the first SI3 tells the mode of the CCCH. *)
Bcch == LET first == Head(toHost).msg.si = "SI3" /\ ~ccch_mode IN
  /\ Receive("BCCH_IND")
  /\ ccch_mode' = (ccch_mode \/ first)
  /\ Ask(IF first THEN <<CcchModeReq>> ELSE <<>>)
  /\ UNCHANGED pipe

(* gsm48_rx_ccch: nothing tells the ARFCN a message was heard on. *)
Ccch ==
  /\ Receive("PCH_IND")
  /\ IF Head(toHost).kind = "nobody" THEN UNCHANGED pipe ELSE Prints(Head(toHost).kind)
  /\ UNCHANGED <<toPhone, ccch_mode>>

CcchModeConfirmed ==
  /\ Receive("CCCH_MODE_CONF")
  /\ UNCHANGED <<toPhone, ccch_mode, pipe>>

Receipt == ResetSignal \/ FbsbResult \/ Bcch \/ Ccch \/ CcchModeConfirmed

(* osmocon has no client to forward a message to. *)
Drop ==
  /\ client # "up" /\ toHost # <<>>
  /\ toHost' = Tail(toHost)
  /\ UNCHANGED <<toPhone, phoneVars, clientVars, pipe, threadVars>>

-----------------------------------------------------------------------------
(* PCHThread.run *)

(* Requests the client has not written yet are lost with it. *)
Kill(next) ==
  /\ client' = next /\ ccch_mode' = FALSE
  /\ pipe' = <<>>
  /\ \E n \in 0 .. (IF client = "up" THEN Len(toPhone) ELSE 0) :
       toPhone' = SubSeq(toPhone, 1, Len(toPhone) - n)

Expire ==
  /\ scan <= Len(Targets) /\ time = "running"
  /\ time' = "up"
  /\ UNCHANGED <<link, phoneVars, clientVars, pipe, scan, thread, pch_retries, stale, found>>

(* The inner loop does not look at the time. *)
WrongMayRead == pch_retries > 0
MayRead == pch_retries > 0 /\ time # "known"

(* A closed descriptor is always reported: the thread reads, and waits. *)
Poll ==
  /\ thread = "loop" /\ scan <= Len(Targets) /\ MayRead
  /\ time' = IF time = "running" THEN time ELSE "known"
  /\ thread' = IF stale \/ pipe # <<>> THEN "read" ELSE "loop"
  /\ UNCHANGED <<link, phoneVars, clientVars, pipe, scan, pch_retries, stale, found>>

(* A line is taken for a hopping assignment when it contains HOP: NONHOP does. *)
Counted(line) ==
  CASE line = "page" -> found \cup {"page"}
    [] line \in {"hop", "nonhop"} -> found \cup {"hop"}
    [] line = "fail" -> found

ReadLine ==
  /\ thread = "read" /\ pipe # <<>>
  /\ pipe' = Tail(pipe)
  /\ found' = Counted(Head(pipe))
  /\ thread' = IF Head(pipe) = "fail" THEN "retry" ELSE "loop"
  /\ UNCHANGED <<link, phoneVars, clientVars, scan, pch_retries, stale, time>>

(* The old descriptor stays registered. *)
Retry ==
  /\ thread = "retry"
  /\ pch_retries' = pch_retries - 1
  /\ Kill("starting")
  /\ stale' = TRUE
  /\ thread' = "loop"
  /\ UNCHANGED <<toHost, phoneVars, scan, time, found>>

(* The callback starts the scan of the next ARFCN. *)
Finish ==
  /\ thread = "loop" /\ scan <= Len(Targets) /\ ~MayRead
  /\ scan' = scan + 1
  /\ Kill(IF scan < Len(Targets) THEN "starting" ELSE "none")
  /\ pch_retries' = PCH_retries /\ stale' = FALSE /\ time' = "running"
  /\ found' = {}
  /\ UNCHANGED <<toHost, phoneVars, thread>>

ThreadStep == Poll \/ ReadLine \/ Retry \/ Finish

-----------------------------------------------------------------------------
(* The CCCH is read once its mode is set. *)
HearCcch ==
  /\ Listening /\ ccch
  /\ \E k \in Kinds : Send(<<PchInd(tuned, k)>>)
  /\ UNCHANGED <<toPhone, phoneVars>>

Phone == Request \/ Radio \/ Completion \/ HearBcch \/ Boot
Others == <<clientVars, pipe, threadVars>>

Next ==
  \/ ClientStarts \/ Receipt \/ Drop
  \/ Expire \/ ThreadStep
  \/ (Phone \/ HearCcch) /\ UNCHANGED Others

Spec == Init /\ [][Next]_vars

(* The program, the thread and the phone are scheduled, and time passes.
   Nothing is promised of what a cell sends. *)
Fairness ==
  /\ WF_vars(ClientStarts) /\ WF_vars(Receipt)
  /\ WF_vars(Expire) /\ WF_vars(ThreadStep)
  /\ WF_vars(Request /\ UNCHANGED Others)
  /\ WF_vars(Radio /\ UNCHANGED Others)
  /\ WF_vars(Completion /\ UNCHANGED Others)
  /\ WF_vars(task = "off" /\ Boot /\ UNCHANGED Others)

FairSpec == Spec /\ Fairness

-----------------------------------------------------------------------------
(* The client is connected and its own reset has been answered, so that
   requests and messages of an earlier client are gone. *)
Settled ==
  /\ client = "up"
  /\ \A i \in DOMAIN toPhone : toPhone[i].type # "RESET_REQ"
  /\ \A i \in DOMAIN toHost : toHost[i].type # "RESET"

(* However the last client ended, and whenever the phone was switched off, what
   is heard after the answer to the client's reset is of the ARFCN that is
   scanned: messages are counted for it unseen (pch_scan.c:458, 533). *)
OwnCell ==
  Settled =>
    /\ \A i \in DOMAIN toPhone : toPhone[i].type = "FBSB_REQ" => toPhone[i].arfcn = Target
    /\ task \in {"fbsb", "camped"} => tuned = Target
    /\ \A i \in DOMAIN toHost :
         /\ toHost[i].type = "PCH_IND" => toHost[i].arfcn = Target
         /\ toHost[i].type = "BCCH_IND" => toHost[i].msg.arfcn = Target

(* ccch_mode is asked for once between two resets; each synchronisation turns
   the CCCH off again.  What the program takes for set is set, or will be by a
   request behind the last synchronisation (pch_scan.c:89, 513). *)
ModeInForce ==
  Settled /\ ccch_mode =>
    LET syncs == {i \in DOMAIN toPhone : toPhone[i].type = "FBSB_REQ"}
        modes == {i \in DOMAIN toPhone : toPhone[i] = CcchModeReq}
    IN \/ ccch /\ syncs = {}
       \/ \E i \in modes : \A j \in syncs : j < i

(* While the program is connected, a phone that is idle, because it was switched
   on or could not synchronise, has been or will be told to synchronise, or the
   program is about to be started again: neither end waits for the other
   (pch_scan.c:530, driverConnector.py:241). *)
NeverDeaf ==
  client = "up" /\ task = "idle" =>
    \/ \E i \in DOMAIN toPhone : toPhone[i].type \in {"RESET_REQ", "FBSB_REQ"}
    \/ \E i \in DOMAIN toHost : toHost[i] \in {Reset, FbsbConf(FALSE)}
    \/ "FB" \in compl
    \/ "fail" \in {pipe[i] : i \in DOMAIN pipe} \/ thread = "retry"

(* A scan whose first synchronisations succeed ends after its time is up,
   whatever the cell sends (driverConnector.py:217). *)
EndsInTime == time = "up" /\ ~stale ~> time = "running" \/ stale

(* Every scan ends after its time is up.  The documentation says so; it does
   not after a retry, on a cell that sends nothing to be printed. *)
WaitsUntilTimeout == time = "up" ~> time = "running"
=============================================================================
