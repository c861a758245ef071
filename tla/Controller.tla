----------------------------- MODULE Controller -----------------------------
(***************************************************************************)
(* The controller of the GUI and its driver threads                        *)
(* (PyCatcher/src/pyCatcherController.py, driverConnector.py): the user    *)
(* starts and stops sweeps, which run catcher, and asks for PCH scans,     *)
(* which run pch_scan for one ARFCN after the other.                       *)
(*                                                                         *)
(* Each sweep and each scan of an ARFCN has a thread of its own, which     *)
(* ends by calling back into the controller; nothing orders callbacks and  *)
(* GUI handlers but the attributes they share.  So handler and callback    *)
(* are split where they read an attribute that another thread writes.      *)
(***************************************************************************)
EXTENDS Integers, SequencesExt

CONSTANTS
  Requests,     \* the lists of ARFCNs the user may enter
  Timeouts,     \* the timeouts the user may enter
  ScanThreads,  \* bound: sweep threads alive at a time
  PchThreads,   \* bound: PCH threads alive at a time
  Patience      \* the users considered: TRUE waits for the result of a PCH scan

ASSUME ControllerAssumption ==
  /\ Requests \subseteq Seq(Nat) \ {<<>>}
  /\ Timeouts \subseteq Int
  /\ Patience \subseteq BOOLEAN

VARIABLES
  patient,      \* the user waits for a result before asking for more
  asked,        \* the ARFCNs last asked for
  answer,       \* those the displayed result is of, empty until there is one
  pressed,      \* the scan button is down
  sweep_active,
  scan_thread,  \* the latest sweep thread
  scans,        \* the sweep threads
  pch_active,
  running,      \* _pch_scan_running
  user_mode,    \* _user_mode_flag
  remaining,    \* _remaining_pch_arfcns
  results,      \* _accumulated_pch_results
  timeout,      \* _pch_timeout
  gui,          \* where the GUI thread is in a PCH handler
  pchs          \* the PCH threads

sweepVars == <<pressed, sweep_active, scan_thread, scans>>
user == <<patient, asked>>
request == <<user_mode, timeout>>
vars == <<user, answer, sweepVars, pch_active, running, request, remaining, results, gui, pchs>>

GuiIdle == [at |-> "idle", arfcn |-> 0]
NoThread == [at |-> "none", arfcn |-> 0, timeout |-> 0]
Scanning(a, t) == [at |-> "scanning", arfcn |-> a, timeout |-> t]

Init ==
  /\ patient \in Patience
  /\ asked = <<>> /\ answer = <<>>
  /\ pressed = FALSE /\ sweep_active = FALSE
  /\ scan_thread \in ScanThreads
  /\ scans = [t \in ScanThreads |-> "none"]
  /\ pch_active = FALSE /\ running = FALSE
  /\ user_mode = FALSE /\ timeout = 10
  /\ remaining = <<>> /\ results = <<>>
  /\ gui = GuiIdle
  /\ pchs = [t \in PchThreads |-> NoThread]

Waiting == asked # <<>> /\ answer = <<>>
MayAsk == gui = GuiIdle /\ (patient => ~Waiting)

-----------------------------------------------------------------------------
(* The scan button, and the thread that reads the output of catcher. *)

StartScan ==
  /\ MayAsk /\ ~pressed
  /\ pressed' = TRUE
  /\ \/ /\ pch_active
        /\ UNCHANGED <<sweep_active, scan_thread, scans>>
     \/ /\ ~pch_active
        /\ sweep_active' = TRUE
        /\ \E t \in ScanThreads :
             /\ scans[t] = "none"
             /\ scan_thread' = t
             /\ scans' = [scans EXCEPT ![t] = "reading"]
  /\ UNCHANGED <<user, answer, pch_active, running, request, remaining, results, gui, pchs>>

(* The thread is not told. *)
WrongStopScan ==
  /\ gui = GuiIdle /\ pressed
  /\ pressed' = FALSE /\ sweep_active' = FALSE
  /\ UNCHANGED <<scan_thread, scans>>
  /\ UNCHANGED <<user, answer, pch_active, running, request, remaining, results, gui, pchs>>

(* stop_scan only tells the thread, which ends after its next line. *)
StopScan ==
  /\ gui = GuiIdle /\ pressed
  /\ pressed' = FALSE
  /\ \/ /\ ~sweep_active
        /\ UNCHANGED <<sweep_active, scan_thread, scans>>
     \/ /\ sweep_active
        /\ sweep_active' = FALSE
        /\ scans' = [scans EXCEPT ![scan_thread] = "told"]
        /\ UNCHANGED scan_thread
  /\ UNCHANGED <<user, answer, pch_active, running, request, remaining, results, gui, pchs>>

ScanEnds(t) ==
  /\ scans[t] = "told"
  /\ scans' = [scans EXCEPT ![t] = "none"]
  /\ UNCHANGED <<user, answer, pressed, sweep_active, scan_thread, pch_active, running,
                 request, remaining, results, gui, pchs>>

-----------------------------------------------------------------------------
(* What the user asks for.  During a sweep both handlers only log. *)

(* The flag of the mode is not reset. *)
WrongNormalPchScan(arfcns, t) ==
  /\ MayAsk /\ ~sweep_active
  /\ pch_active' = TRUE /\ results' = <<>> /\ remaining' = arfcns
  /\ timeout' = t /\ UNCHANGED user_mode
  /\ asked' = arfcns /\ answer' = <<>> /\ gui' = [gui EXCEPT !.at = "next"]
  /\ UNCHANGED <<patient, sweepVars, running, pchs>>

NormalPchScan(arfcns, t) ==
  /\ MayAsk /\ ~sweep_active
  /\ pch_active' = TRUE
  /\ results' = <<>>
  /\ user_mode' = FALSE
  /\ remaining' = arfcns
  /\ timeout' = t
  /\ gui' = [gui EXCEPT !.at = "next"]
  /\ asked' = arfcns /\ answer' = <<>>
  /\ UNCHANGED <<patient, sweepVars, running, pchs>>

(* The strongest station of the provider is a, and is rated OK. *)
UserPchScan(a) ==
  /\ MayAsk /\ ~sweep_active
  /\ pch_active' = TRUE
  /\ user_mode' = TRUE
  /\ remaining' = <<a>>
  /\ results' = <<>>
  /\ gui' = [gui EXCEPT !.at = "next"]
  /\ asked' = <<a>> /\ answer' = <<>>
  /\ UNCHANGED <<patient, sweepVars, running, timeout, pchs>>

(* No provider was entered, it has no station, or the station is not OK. *)
UserAnsweredAtOnce ==
  /\ MayAsk /\ ~sweep_active
  /\ pch_active' = TRUE
  /\ user_mode' \in {user_mode, TRUE}
  /\ UNCHANGED <<user, answer, sweepVars, running, timeout, remaining, results, gui, pchs>>

-----------------------------------------------------------------------------
(***************************************************************************)
(* _do_next_pch_scan, called by the GUI thread and by callbacks.  The next *)
(* ARFCN is popped before it is known whether a scan is running, in which  *)
(* case it is dropped.                                                     *)
(***************************************************************************)
Pop == remaining # <<>> /\ remaining' = Front(remaining)

(* The pop and the check of running, and then the start. *)
GuiNext ==
  /\ gui.at = "next"
  /\ \/ remaining = <<>> /\ gui' = GuiIdle /\ UNCHANGED remaining
     \/ Pop /\ running /\ gui' = GuiIdle
     \/ Pop /\ ~running /\ gui' = [at |-> "start", arfcn |-> Last(remaining)]
  /\ UNCHANGED <<user, answer, sweepVars, pch_active, running, request, results, pchs>>

GuiStart ==
  /\ gui.at = "start"
  /\ running' = TRUE
  /\ \E t \in PchThreads :
       /\ pchs[t] = NoThread
       /\ pchs' = [pchs EXCEPT ![t] = Scanning(gui.arfcn, timeout)]
  /\ gui' = GuiIdle
  /\ UNCHANGED <<user, answer, sweepVars, pch_active, request, remaining, results>>

-----------------------------------------------------------------------------
(* A PCH thread: PCHThread.run, then _pch_done_callback. *)

At(t, where) == pchs' = [pchs EXCEPT ![t].at = where]
Ends(t) == pchs' = [pchs EXCEPT ![t] = NoThread]

(***************************************************************************)
(* The scan is over and its process killed.  Whether pch_scan ever found   *)
(* the cell makes no difference: pch_failed is never True.                 *)
(***************************************************************************)
Scanned(t) ==
  /\ pchs[t].at = "scanning" /\ pchs[t].timeout > 0
  /\ At(t, "done")
  /\ UNCHANGED <<user, answer, sweepVars, pch_active, running, request, remaining, results, gui>>

(* Without time to scan, pch_failed has no value and the thread dies. *)
Crash(t) ==
  /\ pchs[t].at = "scanning" /\ pchs[t].timeout <= 0
  /\ Ends(t)
  /\ UNCHANGED <<user, answer, sweepVars, pch_active, running, request, remaining, results, gui>>

(* _pch_scan_running is not reset. *)
WrongRecord(t) ==
  /\ pchs[t].at = "done"
  /\ results' = Append(results, pchs[t].arfcn)
  /\ At(t, "next")
  /\ UNCHANGED <<user, answer, sweepVars, pch_active, running, request, remaining, gui>>

Record(t) ==
  /\ pchs[t].at = "done"
  /\ results' = Append(results, pchs[t].arfcn)
  /\ running' = FALSE
  /\ At(t, "next")
  /\ UNCHANGED <<user, answer, sweepVars, pch_active, request, remaining, gui>>

(* The verdict of user mode is on the result added last. *)
Verdict(t) ==
  /\ pchs[t].at = "next" /\ user_mode
  /\ \/ /\ results # <<>>
        /\ results' = Front(results)
        /\ answer' = <<Last(results)>>
        /\ At(t, "clear")
     \/ /\ results = <<>>
        /\ Ends(t)
        /\ UNCHANGED <<results, answer>>
  /\ UNCHANGED <<user, sweepVars, pch_active, running, request, remaining, gui>>

(* The results are shown after every scan. *)
WrongNextArfcn(t) ==
  /\ pchs[t].at = "next" /\ ~user_mode
  /\ \/ /\ remaining = <<>> /\ At(t, "clear") /\ UNCHANGED remaining
     \/ /\ Pop /\ pchs' = [pchs EXCEPT ![t].at = "start", ![t].arfcn = Last(remaining)]
  /\ answer' = results
  /\ UNCHANGED <<user, sweepVars, pch_active, running, request, results, gui>>

NextArfcn(t) ==
  /\ pchs[t].at = "next" /\ ~user_mode
  /\ \/ /\ remaining = <<>>
        /\ answer' = results
        /\ At(t, "clear")
        /\ UNCHANGED remaining
     \/ /\ Pop /\ running
        /\ At(t, "clear")
        /\ UNCHANGED answer
     \/ /\ Pop /\ ~running
        /\ pchs' = [pchs EXCEPT ![t].at = "start", ![t].arfcn = Last(remaining)]
        /\ UNCHANGED answer
  /\ UNCHANGED <<user, sweepVars, pch_active, running, request, results, gui>>

(* The thread of the next scan is started before this one ends. *)
StartNext(t) ==
  /\ pchs[t].at = "start"
  /\ running' = TRUE
  /\ \E n \in PchThreads :
       /\ pchs[n] = NoThread
       /\ pchs' = [pchs EXCEPT ![t].at = "clear", ![n] = Scanning(pchs[t].arfcn, timeout)]
  /\ UNCHANGED <<user, answer, sweepVars, pch_active, request, remaining, results, gui>>

Clear(t) ==
  /\ pchs[t].at = "clear"
  /\ pch_active' = FALSE
  /\ Ends(t)
  /\ UNCHANGED <<user, answer, sweepVars, running, request, remaining, results, gui>>

-----------------------------------------------------------------------------
Ask ==
  \/ \E arfcns \in Requests, t \in Timeouts : NormalPchScan(arfcns, t)
  \/ \E arfcns \in Requests : UserPchScan(arfcns[1])
  \/ UserAnsweredAtOnce

GuiStep == GuiNext \/ GuiStart

(* What a PCH thread does by itself, once its reads have returned. *)
GoesOn(t) ==
  \/ Crash(t) \/ Record(t) \/ Verdict(t)
  \/ NextArfcn(t) \/ StartNext(t) \/ Clear(t)

PchStep(t) == Scanned(t) \/ GoesOn(t)

Next ==
  \/ StartScan \/ StopScan \/ Ask \/ GuiStep
  \/ \E t \in ScanThreads : ScanEnds(t)
  \/ \E t \in PchThreads : PchStep(t)

Spec == Init /\ [][Next]_vars

(***************************************************************************)
(* Threads and handlers, once begun, run on.  The user need not do         *)
(* anything; a sweep thread waits for a line that may never come, and so   *)
(* may a PCH thread (module PchScan), whose scan need not end.             *)
(***************************************************************************)
Fairness == WF_vars(GuiStep) /\ \A t \in PchThreads : WF_vars(GoesOn(t))

FairSpec == Spec /\ Fairness

-----------------------------------------------------------------------------
(* Type invariant. *)
TypeOK ==
  /\ patient \in BOOLEAN
  /\ asked \in Seq(Nat) /\ answer \in Seq(Nat)
  /\ pressed \in BOOLEAN /\ sweep_active \in BOOLEAN
  /\ scan_thread \in ScanThreads
  /\ scans \in [ScanThreads -> {"none", "reading", "told"}]
  /\ pch_active \in BOOLEAN /\ running \in BOOLEAN
  /\ user_mode \in BOOLEAN /\ timeout \in Int
  /\ remaining \in Seq(Nat) /\ results \in Seq(Nat)
  /\ gui \in [at : {"idle", "next", "start"}, arfcn : Nat]
  /\ pchs \in [PchThreads ->
       [at : {"none", "scanning", "done", "next", "start", "clear"},
        arfcn : Nat, timeout : Int]]

(***************************************************************************)
(* While a sweep is active one sweep thread, the one stop_scan would tell, *)
(* reads from catcher; otherwise none goes on reading, although start_scan *)
(* may have refused when the button was pressed and threads told earlier   *)
(* linger (pyCatcherController.py:93, 101).                                *)
(***************************************************************************)
OneListener ==
  /\ sweep_active => pressed
  /\ \A t \in ScanThreads : scans[t] = "reading" <=> sweep_active /\ t = scan_thread

(***************************************************************************)
(* With a user who waits, one pch_scan at a time has the phone, although   *)
(* the next one is started from the callback of the last                   *)
(* (pyCatcherController.py:187).                                           *)
(***************************************************************************)
OnePchScan ==
  patient => \A s, t \in PchThreads :
    pchs[s].at = "scanning" /\ pchs[t].at = "scanning" => s = t

(***************************************************************************)
(* With a user who waits, the result shown is of the ARFCNs asked for,     *)
(* every one of them and in the order of their scans, the last one first   *)
(* (pyCatcherController.py:198).                                           *)
(***************************************************************************)
AnsweredAsAsked == patient /\ answer # <<>> => answer = Reverse(asked)

(***************************************************************************)
(* If every scan returns, a user who waits gets a result, however the GUI  *)
(* thread, the threads of the scans and their callbacks overlap, but for   *)
(* one case: with no time to scan the thread dies, and leaves no thread    *)
(* and a controller that takes a scan to be running                        *)
(* (pyCatcherController.py:187, 198, driverConnector.py:190).              *)
(***************************************************************************)
Died == timeout <= 0 /\ running /\ \A t \in PchThreads : pchs[t] = NoThread

ScansReturn == \A t \in PchThreads : []<>(pchs[t].at # "scanning")

Answered == ScansReturn => (patient /\ Waiting ~> answer # <<>> \/ Died)

(***************************************************************************)
(* A PCH scan can only be done when no sweep scan is active and vice       *)
(* versa: catcher and pch_scan never have the phone at the same time       *)
(* (pyCatcherController.py:94, 143).                                       *)
(***************************************************************************)
PhoneExclusive ==
  ~ \E s \in ScanThreads, t \in PchThreads :
      scans[s] # "none" /\ pchs[t].at = "scanning"
=============================================================================
