-------------------------- MODULE ControllerProofs --------------------------
(***************************************************************************)
(* Proofs about the controller of the GUI, for every user and any number   *)
(* of threads; the result it shows is of what was asked for.               *)
(***************************************************************************)
EXTENDS Controller, SequenceTheorems, TLAPS

(* What _do_next_pch_scan pops, and what it leaves. *)
LEMMA PopType ==
  ASSUME NEW s \in Seq(Nat), s # <<>>
  PROVE  Front(s) \in Seq(Nat) /\ Last(s) \in Nat
<1>1. Len(s) \in Nat /\ Len(s) > 0
  BY EmptySeq
<1>2. Last(s) \in Nat
  BY <1>1 DEF Last
<1>3. Front(s) \in Seq(Nat)
  BY <1>1, SubSeqProperties DEF Front
<1> QED
  BY <1>2, <1>3

(* The lists of ARFCNs entered are not empty. *)
LEMMA RequestType ==
  ASSUME NEW r \in Requests
  PROVE  r \in Seq(Nat) /\ r # <<>> /\ r[1] \in Nat /\ <<r[1]>> \in Seq(Nat) /\ <<r[1]>> # <<>>
<1>1. r \in Seq(Nat) /\ r # <<>>
  BY ControllerAssumption
<1>2. Len(r) > 0 /\ r[1] \in Nat
  BY <1>1, EmptySeq
<1> QED
  BY <1>1, <1>2

-----------------------------------------------------------------------------
(* Type correctness. *)

PchThread ==
  [at : {"none", "scanning", "done", "next", "start", "clear"}, arfcn : Nat, timeout : Int]

LEMMA TypeInit == Init => TypeOK
<1> SUFFICES ASSUME Init PROVE TypeOK
  OBVIOUS
<1>1. patient \in BOOLEAN
  BY ControllerAssumption DEF Init
<1>2. pchs \in [PchThreads -> PchThread]
  BY DEF Init, NoThread, PchThread
<1>3. gui \in [at : {"idle", "next", "start"}, arfcn : Nat]
  BY DEF Init, GuiIdle
<1>4. <<>> \in Seq(Nat)
  OBVIOUS
<1>5. asked \in Seq(Nat) /\ answer \in Seq(Nat) /\ remaining \in Seq(Nat) /\ results \in Seq(Nat)
  BY <1>4, Zenon DEF Init
<1>6. scans \in [ScanThreads -> {"none", "reading", "told"}] /\ scan_thread \in ScanThreads
  BY DEF Init
<1>7. /\ pressed \in BOOLEAN /\ sweep_active \in BOOLEAN /\ pch_active \in BOOLEAN
      /\ running \in BOOLEAN /\ user_mode \in BOOLEAN
  BY Zenon DEF Init
<1>8. timeout \in Int
  BY DEF Init
<1> QED
  BY <1>1, <1>2, <1>3, <1>5, <1>6, <1>7, <1>8 DEF TypeOK, PchThread

(* The updates of the PCH threads. *)
LEMMA PchTypes ==
  ASSUME pchs \in [PchThreads -> PchThread], NEW t \in PchThreads
  PROVE  /\ [pchs EXCEPT ![t] = NoThread] \in [PchThreads -> PchThread]
         /\ \A a \in Nat, n \in Int : Scanning(a, n) \in PchThread
         /\ \A r \in PchThread : [pchs EXCEPT ![t] = r] \in [PchThreads -> PchThread]
         /\ \A w \in {"done", "next", "clear"} :
              [pchs EXCEPT ![t].at = w] \in [PchThreads -> PchThread]
         /\ \A a \in Nat :
              [pchs EXCEPT ![t].at = "start", ![t].arfcn = a] \in [PchThreads -> PchThread]
<1>1. NoThread \in PchThread /\ \A a \in Nat, n \in Int : Scanning(a, n) \in PchThread
  BY DEF NoThread, Scanning, PchThread
<1>2. \A r \in PchThread : [pchs EXCEPT ![t] = r] \in [PchThreads -> PchThread]
  OBVIOUS
<1>3. \A w \in {"done", "next", "clear"} : [pchs[t] EXCEPT !.at = w] \in PchThread
  BY DEF PchThread
<1>4. \A a \in Nat : [pchs[t] EXCEPT !.at = "start", !.arfcn = a] \in PchThread
  BY DEF PchThread
<1>5. \A w \in {"done", "next", "clear"} :
        [pchs EXCEPT ![t].at = w] = [pchs EXCEPT ![t] = [pchs[t] EXCEPT !.at = w]]
  OBVIOUS
<1>6. \A a \in Nat :
        [pchs EXCEPT ![t].at = "start", ![t].arfcn = a]
          = [pchs EXCEPT ![t] = [pchs[t] EXCEPT !.at = "start", !.arfcn = a]]
  OBVIOUS
<1> QED
  BY <1>1, <1>2, <1>3, <1>4, <1>5, <1>6

(* The handlers of the scan button and the end of a sweep thread. *)
LEMMA TypeSweep ==
  ASSUME TypeOK, StartScan \/ StopScan \/ \E t \in ScanThreads : ScanEnds(t)
  PROVE  TypeOK'
<1> USE DEF TypeOK, user, request, sweepVars
<1>1. CASE StartScan
  BY <1>1 DEF StartScan
<1>2. CASE StopScan
  BY <1>2 DEF StopScan
<1>3. CASE \E t \in ScanThreads : ScanEnds(t)
  BY <1>3 DEF ScanEnds
<1> QED
  BY <1>1, <1>2, <1>3

(* What the GUI thread does for a PCH scan. *)
LEMMA TypeGui ==
  ASSUME TypeOK, Ask \/ GuiStep
  PROVE  TypeOK'
<1> USE DEF TypeOK, user, request, sweepVars
<1>1. ASSUME NEW r \in Requests, NEW t \in Timeouts, NormalPchScan(r, t) PROVE TypeOK'
  <2>1. r \in Seq(Nat) /\ t \in Int
    BY RequestType, ControllerAssumption
  <2>2. remaining' = r /\ asked' = r /\ results' = <<>> /\ answer' = <<>>
    BY <1>1, Zenon DEF NormalPchScan
  <2>3. remaining' \in Seq(Nat) /\ asked' \in Seq(Nat) /\ results' \in Seq(Nat) /\ answer' \in Seq(Nat)
    BY <2>1, <2>2
  <2>4. gui' \in [at : {"idle", "next", "start"}, arfcn : Nat]
    BY <1>1 DEF NormalPchScan
  <2>5. pch_active' \in BOOLEAN /\ user_mode' \in BOOLEAN /\ timeout' \in Int
    BY <1>1, <2>1 DEF NormalPchScan
  <2>6. UNCHANGED <<patient, pressed, sweep_active, scan_thread, scans, running, pchs>>
    BY <1>1 DEF NormalPchScan
  <2> HIDE DEF TypeOK
  <2> QED
    BY <2>3, <2>4, <2>5, <2>6 DEF TypeOK
<1>2. ASSUME NEW r \in Requests, UserPchScan(r[1]) PROVE TypeOK'
  <2>1. <<r[1]>> \in Seq(Nat)
    BY RequestType
  <2>2. remaining' = <<r[1]>> /\ asked' = <<r[1]>> /\ results' = <<>> /\ answer' = <<>>
    BY <1>2, Zenon DEF UserPchScan
  <2>3. remaining' \in Seq(Nat) /\ asked' \in Seq(Nat) /\ results' \in Seq(Nat) /\ answer' \in Seq(Nat)
    BY <2>1, <2>2
  <2>4. gui' \in [at : {"idle", "next", "start"}, arfcn : Nat]
    BY <1>2 DEF UserPchScan
  <2>5. pch_active' \in BOOLEAN /\ user_mode' \in BOOLEAN /\ timeout' \in Int
    BY <1>2, <2>1 DEF UserPchScan
  <2>6. UNCHANGED <<patient, pressed, sweep_active, scan_thread, scans, running, pchs>>
    BY <1>2 DEF UserPchScan
  <2> HIDE DEF TypeOK
  <2> QED
    BY <2>3, <2>4, <2>5, <2>6 DEF TypeOK
<1>3. CASE UserAnsweredAtOnce
  BY <1>3 DEF UserAnsweredAtOnce
<1>4. CASE GuiNext
  <2>1. Pop => remaining' \in Seq(Nat) /\ Last(remaining) \in Nat
    BY PopType DEF Pop
  <2> QED
    BY <1>4, <2>1 DEF GuiNext, GuiIdle
<1>5. CASE GuiStart
  BY <1>5 DEF GuiStart, GuiIdle, Scanning
<1> QED
  BY <1>1, <1>2, <1>3, <1>4, <1>5 DEF Ask, GuiStep

(* A step of a PCH thread keeps the types of what it leaves alone. *)
LEMMA TypePchRest ==
  ASSUME TypeOK, NEW t \in PchThreads, PchStep(t),
         pchs' \in [PchThreads -> PchThread],
         remaining' \in Seq(Nat), results' \in Seq(Nat), answer' \in Seq(Nat)
  PROVE  TypeOK'
<1>1. UNCHANGED <<patient, asked, pressed, sweep_active, scan_thread, scans, user_mode, timeout, gui>>
  BY DEF PchStep, GoesOn, Scanned, Crash, Record, Verdict, NextArfcn, StartNext, Clear,
         user, request, sweepVars
<1>2. running' \in BOOLEAN /\ pch_active' \in BOOLEAN
  BY DEF PchStep, GoesOn, Scanned, Crash, Record, Verdict, NextArfcn, StartNext, Clear, TypeOK
<1> QED
  BY <1>1, <1>2 DEF TypeOK, PchThread

(* The PCH threads. *)
LEMMA TypePch ==
  ASSUME TypeOK, NEW t \in PchThreads, PchStep(t)
  PROVE  TypeOK'
<1> USE DEF At, Ends
<1>a. /\ pchs \in [PchThreads -> PchThread]
      /\ remaining \in Seq(Nat) /\ results \in Seq(Nat) /\ answer \in Seq(Nat)
      /\ timeout \in Int
  BY DEF TypeOK, PchThread
<1>b. pchs[t].arfcn \in Nat
  BY <1>a DEF PchThread
<1>p. Pop => remaining' \in Seq(Nat) /\ Last(remaining) \in Nat
  BY <1>a, PopType DEF Pop
<1>1. CASE Scanned(t)
  BY <1>1, <1>a, PchTypes, TypePchRest DEF Scanned
<1>2. CASE Crash(t)
  BY <1>2, <1>a, PchTypes, TypePchRest DEF Crash
<1>3. CASE Record(t)
  <2>1. results' \in Seq(Nat)
    BY <1>3, <1>a, <1>b DEF Record
  <2> QED
    BY <1>3, <2>1, <1>a, PchTypes, TypePchRest DEF Record
<1>4. CASE Verdict(t)
  <2>1. results # <<>> => Front(results) \in Seq(Nat) /\ Last(results) \in Nat
    BY <1>a, PopType
  <2>2. results' \in Seq(Nat) /\ answer' \in Seq(Nat)
    <3>1. CASE results # <<>>
      <4>1. results' = Front(results) /\ answer' = <<Last(results)>>
        BY <1>4, <3>1, Zenon DEF Verdict
      <4> QED
        BY <2>1, <3>1, <4>1
    <3>2. CASE results = <<>>
      BY <1>4, <1>a, <3>2 DEF Verdict
    <3> QED
      BY <3>1, <3>2
  <2>3. pchs' \in [PchThreads -> PchThread]
    <3>1. pchs' = [pchs EXCEPT ![t].at = "clear"] \/ pchs' = [pchs EXCEPT ![t] = NoThread]
      BY <1>4, Zenon DEF Verdict
    <3>2. /\ [pchs EXCEPT ![t].at = "clear"] \in [PchThreads -> PchThread]
          /\ [pchs EXCEPT ![t] = NoThread] \in [PchThreads -> PchThread]
      BY <1>a, PchTypes
    <3> QED
      BY <3>1, <3>2, Zenon
  <2> QED
    BY <1>4, <1>a, <2>2, <2>3, TypePchRest DEF Verdict
<1>5. CASE NextArfcn(t)
  <2>1. remaining' \in Seq(Nat) /\ answer' \in Seq(Nat) /\ results' \in Seq(Nat)
    BY <1>5, <1>a, <1>p DEF NextArfcn
  <2>2. pchs' \in [PchThreads -> PchThread]
    <3>1. CASE Pop /\ pchs' = [pchs EXCEPT ![t].at = "start", ![t].arfcn = Last(remaining)]
      BY <3>1, <1>a, <1>p, PchTypes
    <3>2. CASE pchs' = [pchs EXCEPT ![t].at = "clear"]
      BY <3>2, <1>a, PchTypes
    <3> QED
      BY <1>5, <3>1, <3>2 DEF NextArfcn
  <2> QED
    BY <2>1, <2>2, TypePchRest
<1>6. CASE StartNext(t)
  <2>1. PICK n \in PchThreads :
          /\ pchs[n] = NoThread
          /\ pchs' = [pchs EXCEPT ![t].at = "clear", ![n] = Scanning(pchs[t].arfcn, timeout)]
    BY <1>6 DEF StartNext
  <2>2. n # t
    BY <1>6, <2>1 DEF StartNext, NoThread
  <2>3. [pchs[t] EXCEPT !.at = "clear"] \in PchThread
    BY <1>a DEF PchThread
  <2>4. Scanning(pchs[t].arfcn, timeout) \in PchThread
    BY <1>a, <1>b, PchTypes
  <2>5. pchs' \in [PchThreads -> PchThread]
    BY <1>a, <2>1, <2>2, <2>3, <2>4
  <2> QED
    BY <1>6, <1>a, <2>5, TypePchRest DEF StartNext
<1>7. CASE Clear(t)
  BY <1>7, <1>a, PchTypes, TypePchRest DEF Clear
<1> QED
  BY <1>1, <1>2, <1>3, <1>4, <1>5, <1>6, <1>7 DEF PchStep, GoesOn

LEMMA TypeStep == TypeOK /\ [Next]_vars => TypeOK'
<1> SUFFICES ASSUME TypeOK, [Next]_vars PROVE TypeOK'
  OBVIOUS
<1>1. CASE UNCHANGED vars
  BY <1>1 DEF TypeOK, vars, user, request, sweepVars
<1> QED
  BY <1>1, TypeSweep, TypeGui, TypePch DEF Next

(* The controller's attributes and threads keep their types. *)
THEOREM ControllerTypeCorrect == Spec => []TypeOK
<1> QED
  BY TypeInit, TypeStep, PTL DEF Spec

-----------------------------------------------------------------------------
(* One sweep thread at most goes on reading. *)

LEMMA ListenerStep == TypeOK /\ OneListener /\ [Next]_vars => OneListener'
<1> SUFFICES ASSUME TypeOK, OneListener, [Next]_vars PROVE OneListener'
  OBVIOUS
<1> USE DEF OneListener
<1>1. CASE StartScan
  BY <1>1 DEF StartScan, TypeOK
<1>2. CASE StopScan
  BY <1>2 DEF StopScan, TypeOK
<1>3. ASSUME NEW t \in ScanThreads, ScanEnds(t) PROVE OneListener'
  BY <1>3 DEF ScanEnds, TypeOK
<1>4. CASE UNCHANGED sweepVars
  BY <1>4 DEF sweepVars
<1>5. CASE Ask
  BY <1>4, <1>5 DEF Ask, NormalPchScan, UserPchScan, UserAnsweredAtOnce
<1>6. CASE GuiStep
  BY <1>4, <1>6 DEF GuiStep, GuiNext, GuiStart
<1>7. ASSUME NEW t \in PchThreads, PchStep(t) PROVE OneListener'
  BY <1>4, <1>7 DEF PchStep, GoesOn, Scanned, Crash, Record, Verdict, NextArfcn, StartNext, Clear
<1>8. CASE UNCHANGED vars
  BY <1>4, <1>8 DEF vars
<1> QED
  BY <1>1, <1>2, <1>3, <1>5, <1>6, <1>7, <1>8 DEF Next

(* Whatever the user does, one sweep thread at most goes on reading, and it
   is the one that stop_scan would tell. *)
THEOREM SweepHasOneListener == Spec => []OneListener
<1>1. Init => OneListener
  BY DEF Init, OneListener
<1> QED
  BY <1>1, ListenerStep, ControllerTypeCorrect, PTL DEF Spec

-----------------------------------------------------------------------------
(***************************************************************************)
(* With a user who waits, one thread at a time is busy with a request: the *)
(* GUI thread or one PCH thread, and none when the result is there.  A PCH *)
(* thread that only has to clear pch_active is not busy any more.          *)
(***************************************************************************)
Busy(t) == pchs[t].at \in {"scanning", "done", "next", "start"}

OneBusy ==
  patient =>
    /\ gui.at # "idle" => \A t \in PchThreads : ~Busy(t)
    /\ \A s, t \in PchThreads : Busy(s) /\ Busy(t) => s = t
    /\ ~Waiting => gui.at = "idle" /\ \A t \in PchThreads : ~Busy(t)

(* A request is made when nothing is busy with another. *)
LEMMA BusyAsk ==
  ASSUME OneBusy, Ask
  PROVE  OneBusy'
<1>1. MayAsk /\ patient' = patient /\ pchs' = pchs
  BY DEF Ask, NormalPchScan, UserPchScan, UserAnsweredAtOnce, user
<1>2. patient => \A t \in PchThreads : ~Busy(t)
  BY <1>1 DEF MayAsk, OneBusy
<1>3. Waiting' \/ UNCHANGED <<asked, answer, gui>>
  <2>1. CASE UserAnsweredAtOnce
    BY <2>1 DEF UserAnsweredAtOnce, user
  <2>2. ASSUME NEW r \in Requests, NEW t \in Timeouts, NormalPchScan(r, t) PROVE Waiting'
    BY <2>2, RequestType DEF NormalPchScan, Waiting
  <2>3. ASSUME NEW r \in Requests, UserPchScan(r[1]) PROVE Waiting'
    BY <2>3 DEF UserPchScan, Waiting
  <2> QED
    BY <2>1, <2>2, <2>3 DEF Ask
<1> QED
  BY <1>1, <1>2, <1>3 DEF OneBusy, Busy, Waiting

(* The GUI thread hands the request over to the thread it starts. *)
LEMMA BusyGui ==
  ASSUME TypeOK, OneBusy, GuiStep
  PROVE  OneBusy'
<1>1. UNCHANGED <<patient, asked, answer>> /\ gui.at # "idle"
  BY DEF GuiStep, GuiNext, GuiStart, user
<1>2. patient => Waiting /\ \A t \in PchThreads : ~Busy(t)
  BY <1>1 DEF OneBusy
<1>3. Waiting' = Waiting
  BY <1>1 DEF Waiting
<1>4. CASE GuiNext
  <2>1. pchs' = pchs
    BY <1>4 DEF GuiNext
  <2> QED
    BY <1>1, <1>2, <1>3, <2>1 DEF OneBusy, Busy
<1>5. CASE GuiStart
  <2>1. PICK n \in PchThreads : pchs' = [pchs EXCEPT ![n] = Scanning(gui.arfcn, timeout)]
    BY <1>5 DEF GuiStart
  <2>2. \A t \in PchThreads : t # n => pchs'[t] = pchs[t]
    BY <2>1 DEF TypeOK
  <2>3. gui'.at = "idle"
    BY <1>5 DEF GuiStart, GuiIdle
  <2> QED
    BY <1>1, <1>2, <1>3, <2>2, <2>3 DEF OneBusy, Busy
<1> QED
  BY <1>4, <1>5 DEF GuiStep

(* A PCH thread goes on, hands over to the next, or is done. *)
LEMMA BusyPch ==
  ASSUME TypeOK, OneBusy, NEW t \in PchThreads, PchStep(t)
  PROVE  OneBusy'
<1> USE DEF At, Ends, NoThread
<1>1. UNCHANGED <<patient, asked, gui>>
  BY DEF PchStep, GoesOn, Scanned, Crash, Record, Verdict, NextArfcn, StartNext, Clear, user
<1>2. ASSUME UNCHANGED answer,
             \A s \in PchThreads : s # t => pchs'[s] = pchs[s],
             Busy(t)' => Busy(t)
      PROVE  OneBusy'
  BY <1>1, <1>2 DEF OneBusy, Busy, Waiting
<1>3. ASSUME Busy(t), ~Busy(t)', \A s \in PchThreads : s # t => pchs'[s] = pchs[s]
      PROVE  OneBusy'
  <2>1. patient => gui.at = "idle" /\ \A s \in PchThreads : ~Busy(s)'
    BY <1>3 DEF OneBusy, Busy
  <2> QED
    BY <1>1, <2>1 DEF OneBusy, Busy
<1>4. CASE Scanned(t)
  BY <1>2, <1>4 DEF Scanned, TypeOK, Busy
<1>5. CASE Crash(t)
  BY <1>2, <1>5 DEF Crash, TypeOK, Busy
<1>6. CASE Record(t)
  BY <1>2, <1>6 DEF Record, TypeOK, Busy
<1>7. CASE Verdict(t)
  BY <1>3, <1>7 DEF Verdict, TypeOK, Busy
<1>8. CASE NextArfcn(t)
  <2>1. \A s \in PchThreads : s # t => pchs'[s] = pchs[s]
    BY <1>8 DEF NextArfcn, TypeOK
  <2>2. Busy(t) /\ (~Busy(t)' \/ UNCHANGED answer)
    BY <1>8 DEF NextArfcn, TypeOK, Busy
  <2> QED
    BY <1>2, <1>3, <2>1, <2>2
<1>9. CASE StartNext(t)
  <2>1. PICK n \in PchThreads :
          /\ pchs[n] = NoThread
          /\ pchs' = [pchs EXCEPT ![t].at = "clear", ![n] = Scanning(pchs[t].arfcn, timeout)]
    BY <1>9 DEF StartNext
  <2>2. Busy(t) /\ n # t
    BY <1>9, <2>1 DEF StartNext, Busy
  <2>3. \A s \in PchThreads : s # n /\ s # t => pchs'[s] = pchs[s]
    BY <2>1 DEF TypeOK
  <2>4. ~Busy(t)'
    BY <2>1, <2>2 DEF TypeOK, Busy
  <2>5. patient => Waiting /\ gui.at = "idle" /\ \A s \in PchThreads : s # n => ~Busy(s)'
    BY <2>2, <2>3, <2>4 DEF OneBusy, Busy
  <2>6. Waiting' = Waiting
    BY <1>1, <1>9 DEF StartNext, Waiting
  <2> QED
    BY <1>1, <2>5, <2>6 DEF OneBusy
<1>10. CASE Clear(t)
  BY <1>2, <1>10 DEF Clear, TypeOK, Busy
<1> QED
  BY <1>4, <1>5, <1>6, <1>7, <1>8, <1>9, <1>10 DEF PchStep, GoesOn

LEMMA BusyStep == TypeOK /\ OneBusy /\ [Next]_vars => OneBusy'
<1> SUFFICES ASSUME TypeOK, OneBusy, [Next]_vars PROVE OneBusy'
  OBVIOUS
<1>1. ASSUME UNCHANGED <<patient, asked, answer, gui, pchs>> PROVE OneBusy'
  BY <1>1 DEF OneBusy, Busy, Waiting
<1>2. CASE StartScan
  BY <1>1, <1>2 DEF StartScan, user
<1>3. CASE StopScan
  BY <1>1, <1>3 DEF StopScan, user
<1>4. ASSUME NEW t \in ScanThreads, ScanEnds(t) PROVE OneBusy'
  BY <1>1, <1>4 DEF ScanEnds, user
<1>5. CASE UNCHANGED vars
  BY <1>1, <1>5 DEF vars, user
<1> QED
  BY <1>2, <1>3, <1>4, <1>5, BusyAsk, BusyGui, BusyPch DEF Next

(* With a user who waits, at most one pch_scan runs at a time. *)
THEOREM OnePchScanAtATime == Spec => []OnePchScan
<1>1. Init => OneBusy
  BY DEF Init, OneBusy, Busy, GuiIdle, NoThread
<1>2. OneBusy => OnePchScan
  BY DEF OneBusy, Busy, OnePchScan
<1> QED
  BY <1>1, <1>2, BusyStep, ControllerTypeCorrect, PTL DEF Spec

-----------------------------------------------------------------------------
(* The result that is shown. *)

(***************************************************************************)
(* The books of a request: what is left to scan is its first part, what    *)
(* has a result its last part, reversed, and between them are the n ARFCNs *)
(* in hand.                                                                *)
(***************************************************************************)
Taken(n) ==
  /\ Len(remaining) + n + Len(results) = Len(asked)
  /\ \A i \in 1..Len(remaining) : remaining[i] = asked[i]
  /\ \A i \in 1..Len(results) : results[i] = asked[(Len(asked) - i) + 1]

InHand(a) == Taken(1) /\ a = asked[Len(remaining) + 1]

Ledger ==
  patient =>
    /\ gui.at = "next" => Taken(0)
    /\ gui.at = "start" => InHand(gui.arfcn)
    /\ \A t \in PchThreads : pchs[t].at \in {"scanning", "done", "start"} => InHand(pchs[t].arfcn)
    /\ \A t \in PchThreads : pchs[t].at = "next" => Taken(0)
    /\ user_mode /\ Waiting => Len(asked) = 1
    /\ AnsweredAsAsked

(* Popping the last of what is left takes it in hand. *)
LEMMA PopTakes ==
  ASSUME TypeOK, Taken(0), Pop, UNCHANGED <<asked, results>>
  PROVE  Taken(1)' /\ Last(remaining) = asked'[Len(remaining') + 1]
<1>1. /\ remaining \in Seq(Nat) /\ remaining # <<>> /\ remaining' = Front(remaining)
      /\ results \in Seq(Nat) /\ asked \in Seq(Nat)
  BY DEF TypeOK, Pop
<1>2. Len(remaining) \in Nat \ {0} /\ Last(remaining) = remaining[Len(remaining)]
  BY <1>1, EmptySeq DEF Last
<1>3. /\ Len(remaining') = Len(remaining) - 1
      /\ \A i \in 1..(Len(remaining) - 1) : remaining'[i] = remaining[i]
  <2> DEFINE n == Len(remaining) - 1
             s == SubSeq(remaining, 1, n)
  <2>1. n \in Nat /\ \A i \in 1..n : remaining[i] \in Nat
    BY <1>1, <1>2
  <2> HIDE DEF n
  <2>2. /\ Len(s) = IF 1 <= n THEN n - 1 + 1 ELSE 0
        /\ \A i \in 1..(n - 1 + 1) : s[i] = remaining[1 + i - 1]
    BY <2>1, SubSeqProperties
  <2> HIDE DEF s
  <2>3. Len(s) = n /\ \A i \in 1..n : s[i] = remaining[i]
    BY <2>1, <2>2
  <2> QED
    BY <1>1, <2>3 DEF Front, s, n
<1>4. /\ Len(remaining) + Len(results) = Len(asked)
      /\ \A i \in 1..Len(remaining) : remaining[i] = asked[i]
      /\ \A i \in 1..Len(results) : results[i] = asked[(Len(asked) - i) + 1]
  BY <1>1, <1>2 DEF Taken
<1>5. Len(remaining') + 1 = Len(remaining)
  BY <1>2, <1>3
<1>6. Taken(1)'
  <2>1. Len(remaining') + 1 + Len(results) = Len(asked)
    BY <1>4, <1>5
  <2>2. \A i \in 1..Len(remaining') : remaining'[i] = asked[i]
    BY <1>2, <1>3, <1>4
  <2> QED
    BY <1>4, <2>1, <2>2 DEF Taken
<1>7. Last(remaining) = asked'[Len(remaining') + 1]
  BY <1>2, <1>4, <1>5
<1> QED
  BY <1>6, <1>7

(* A result is recorded of the ARFCN in hand. *)
LEMMA RecordKeeps ==
  ASSUME TypeOK, NEW a \in Nat, InHand(a), UNCHANGED <<asked, remaining>>,
         results' = Append(results, a)
  PROVE  Taken(0)'
<1>1. remaining \in Seq(Nat) /\ results \in Seq(Nat) /\ asked \in Seq(Nat)
  BY DEF TypeOK
<1>2. Len(remaining) \in Nat /\ Len(results) \in Nat /\ Len(asked) \in Nat
  BY <1>1
<1>3. /\ Len(results') = Len(results) + 1 /\ results'[Len(results) + 1] = a
      /\ \A i \in 1..Len(results) : results'[i] = results[i]
  BY <1>1, AppendProperties
<1>4. ASSUME NEW i \in 1..Len(results') PROVE results'[i] = asked[(Len(asked) - i) + 1]
  <2>1. CASE i = Len(results) + 1
    BY <1>2, <1>3, <2>1 DEF InHand, Taken
  <2>2. CASE i # Len(results) + 1
    BY <1>2, <1>3, <2>2 DEF InHand, Taken
  <2> QED
    BY <2>1, <2>2
<1> QED
  BY <1>2, <1>3, <1>4 DEF InHand, Taken

(* When nothing is left and nothing in hand, the results are the request reversed. *)
LEMMA AllTaken ==
  ASSUME TypeOK, Taken(0), remaining = <<>>
  PROVE  results = Reverse(asked)
<1>1. results \in Seq(Nat) /\ asked \in Seq(Nat) /\ Len(results) = Len(asked)
  BY DEF TypeOK, Taken
<1>2. Reverse(asked) = [i \in 1..Len(asked) |-> asked[(Len(asked) - i) + 1]]
  BY DEF Reverse
<1>3. results = [i \in 1..Len(results) |-> results[i]]
  BY <1>1
<1> QED
  BY <1>1, <1>2, <1>3 DEF Taken

(* Of a request for one ARFCN the verdict is on the last result. *)
LEMMA OneTaken ==
  ASSUME TypeOK, Taken(0), Len(asked) = 1, results # <<>>
  PROVE  <<Last(results)>> = Reverse(asked)
<1>1. /\ results \in Seq(Nat) /\ asked \in Seq(Nat) /\ remaining \in Seq(Nat)
      /\ Len(results) # 0
  BY EmptySeq DEF TypeOK
<1>2. Len(results) = 1 /\ results[1] = asked[1]
  BY <1>1 DEF Taken
<1>3. Last(results) = asked[1]
  BY <1>2 DEF Last
<1>4. Reverse(asked) = [i \in 1..1 |-> asked[(1 - i) + 1]]
  BY DEF Reverse
<1> QED
  BY <1>3, <1>4

-----------------------------------------------------------------------------
(* A request opens its books. *)
LEMMA LedgerAsk ==
  ASSUME TypeOK, OneBusy, Ledger, Ask
  PROVE  Ledger'
<1>1. MayAsk /\ patient' = patient /\ pchs' = pchs
  BY DEF Ask, NormalPchScan, UserPchScan, UserAnsweredAtOnce, user
<1>2. patient => ~Waiting /\ gui = GuiIdle /\ \A t \in PchThreads : ~Busy(t)
  BY <1>1 DEF MayAsk, OneBusy
<1>3. ASSUME NEW r \in Seq(Nat), asked' = r, remaining' = r, results' = <<>>, answer' = <<>>,
             gui'.at = "next", user_mode' => Len(r) = 1
      PROVE  Ledger'
  <2>1. Taken(0)'
    BY <1>3 DEF Taken
  <2> QED
    BY <1>1, <1>2, <1>3, <2>1 DEF Ledger, Busy, AnsweredAsAsked
<1>4. CASE UserAnsweredAtOnce
  <2>1. UNCHANGED <<patient, asked, answer, remaining, results, gui, pchs>>
    BY <1>4 DEF UserAnsweredAtOnce, user
  <2>2. patient => ~Waiting'
    BY <1>2, <2>1 DEF Waiting
  <2> QED
    BY <1>2, <2>1, <2>2 DEF Ledger, Busy, GuiIdle, AnsweredAsAsked
<1>5. ASSUME NEW r \in Requests, NEW t \in Timeouts, NormalPchScan(r, t) PROVE Ledger'
  <2>1. /\ asked' = r /\ remaining' = r /\ results' = <<>> /\ answer' = <<>> /\ ~user_mode'
        /\ gui' = [gui EXCEPT !.at = "next"]
    BY <1>5 DEF NormalPchScan
  <2>2. gui'.at = "next"
    BY <2>1 DEF TypeOK
  <2> QED
    BY <1>3, <2>1, <2>2, RequestType
<1>6. ASSUME NEW r \in Requests, UserPchScan(r[1]) PROVE Ledger'
  <2> DEFINE q == <<r[1]>>
  <2>1. q \in Seq(Nat) /\ Len(q) = 1
    BY RequestType
  <2>2. /\ asked' = q /\ remaining' = q /\ results' = <<>> /\ answer' = <<>>
        /\ gui' = [gui EXCEPT !.at = "next"]
    BY <1>6 DEF UserPchScan
  <2> HIDE DEF q
  <2>3. gui'.at = "next"
    BY <2>2 DEF TypeOK
  <2> QED
    BY <1>3, <2>1, <2>2, <2>3
<1> QED
  BY <1>4, <1>5, <1>6 DEF Ask

(* The GUI thread takes the first ARFCN in hand and gives it to a thread. *)
LEMMA LedgerGui ==
  ASSUME TypeOK, OneBusy, Ledger, GuiStep
  PROVE  Ledger'
<1>1. UNCHANGED <<patient, asked, answer, user_mode, results>> /\ gui.at # "idle"
  BY DEF GuiStep, GuiNext, GuiStart, user, request
<1>2. patient => \A t \in PchThreads : ~Busy(t)
  BY <1>1 DEF OneBusy
<1>3. patient => (user_mode' /\ Waiting' => Len(asked') = 1) /\ AnsweredAsAsked'
  BY <1>1 DEF Ledger, Waiting, AnsweredAsAsked
<1>4. CASE GuiNext
  <2>1. pchs' = pchs
    BY <1>4 DEF GuiNext
  <2>2. gui'.at = "idle" \/ (Pop /\ gui' = [at |-> "start", arfcn |-> Last(remaining)])
    BY <1>4 DEF GuiNext, GuiIdle
  <2>3. patient => gui'.at # "next" /\ (gui'.at = "start" => InHand(gui.arfcn)')
    <3>1. patient => Taken(0)
      BY <1>4 DEF GuiNext, Ledger
    <3>2. ASSUME patient, Pop, gui' = [at |-> "start", arfcn |-> Last(remaining)]
          PROVE  InHand(gui.arfcn)'
      <4>1. Taken(1)' /\ Last(remaining) = asked'[Len(remaining') + 1]
        BY <1>1, <3>1, <3>2, PopTakes
      <4>2. gui'.arfcn = Last(remaining)
        BY <3>2
      <4> QED
        BY <4>1, <4>2 DEF InHand
    <3> QED
      BY <2>2, <3>2
  <2> QED
    BY <1>1, <1>2, <1>3, <2>1, <2>3 DEF Ledger, Busy
<1>5. CASE GuiStart
  <2>1. PICK n \in PchThreads : pchs' = [pchs EXCEPT ![n] = Scanning(gui.arfcn, timeout)]
    BY <1>5 DEF GuiStart
  <2>2. /\ \A t \in PchThreads : t # n => pchs'[t] = pchs[t]
        /\ pchs'[n].at = "scanning" /\ pchs'[n].arfcn = gui.arfcn
    BY <2>1 DEF TypeOK, Scanning
  <2>3. gui'.at = "idle" /\ remaining' = remaining
    BY <1>5 DEF GuiStart, GuiIdle
  <2>4. patient => InHand(gui.arfcn)
    BY <1>5 DEF GuiStart, Ledger
  <2>5. patient => InHand(pchs[n].arfcn)'
    BY <1>1, <2>2, <2>3, <2>4 DEF InHand, Taken
  <2> QED
    BY <1>1, <1>2, <1>3, <2>2, <2>3, <2>5 DEF Ledger, Busy
<1> QED
  BY <1>4, <1>5 DEF GuiStep

(* A thread scans, records, and takes the next ARFCN or shows the results. *)
LEMMA LedgerPch ==
  ASSUME TypeOK, OneBusy, Ledger, NEW t \in PchThreads, PchStep(t)
  PROVE  Ledger'
<1> USE DEF At, Ends, NoThread
<1>1. UNCHANGED <<patient, asked, gui, user_mode>>
  BY DEF PchStep, GoesOn, Scanned, Crash, Record, Verdict, NextArfcn, StartNext, Clear, user, request
<1>2. patient /\ Busy(t) =>
        gui.at = "idle" /\ Waiting /\ \A s \in PchThreads : s # t => ~Busy(s)
  BY DEF OneBusy
<1>3. patient /\ AnsweredAsAsked /\ UNCHANGED answer =>
        (user_mode' /\ Waiting' => Len(asked') = 1) /\ AnsweredAsAsked'
  BY <1>1 DEF Ledger, Waiting, AnsweredAsAsked
(* The thread that is busy takes a step, and no other one has a part in the books. *)
<1>4. ASSUME Busy(t), \A s \in PchThreads : s # t => pchs'[s] = pchs[s],
             patient => (user_mode' /\ Waiting' => Len(asked') = 1) /\ AnsweredAsAsked',
             patient /\ pchs'[t].at \in {"scanning", "done", "start"} => InHand(pchs[t].arfcn)',
             patient /\ pchs'[t].at = "next" => Taken(0)'
      PROVE  Ledger'
  BY <1>1, <1>2, <1>4 DEF Ledger, Busy
<1>5. patient => AnsweredAsAsked
  BY DEF Ledger
<1>6. pchs[t] \in PchThread
  BY DEF TypeOK, PchThread
<1>7. CASE Scanned(t)
  <2>1. /\ Busy(t) /\ \A s \in PchThreads : s # t => pchs'[s] = pchs[s]
        /\ pchs'[t].at = "done" /\ pchs'[t].arfcn = pchs[t].arfcn
        /\ UNCHANGED <<answer, remaining, results>>
    BY <1>7 DEF Scanned, TypeOK, Busy
  <2>2. patient => InHand(pchs[t].arfcn)
    BY <1>7 DEF Scanned, Ledger
  <2>3. patient => InHand(pchs[t].arfcn)'
    BY <1>1, <2>1, <2>2 DEF InHand, Taken
  <2> QED
    BY <1>3, <1>4, <1>5, <2>1, <2>3
<1>8. CASE Crash(t)
  <2>1. /\ Busy(t) /\ \A s \in PchThreads : s # t => pchs'[s] = pchs[s]
        /\ pchs'[t].at = "none" /\ UNCHANGED answer
    BY <1>8 DEF Crash, TypeOK, Busy
  <2> QED
    BY <1>3, <1>4, <1>5, <2>1
<1>9. CASE Record(t)
  <2>1. /\ Busy(t) /\ \A s \in PchThreads : s # t => pchs'[s] = pchs[s]
        /\ pchs'[t].at = "next" /\ UNCHANGED <<answer, remaining>>
        /\ results' = Append(results, pchs[t].arfcn)
    BY <1>9 DEF Record, TypeOK, Busy
  <2>2. patient => InHand(pchs[t].arfcn)
    BY <1>9 DEF Record, Ledger
  <2>3. patient => Taken(0)'
    BY <1>1, <1>6, <2>1, <2>2, RecordKeeps DEF PchThread
  <2> QED
    BY <1>3, <1>4, <1>5, <2>1, <2>3
<1>10. CASE Verdict(t)
  <2>1. /\ Busy(t) /\ \A s \in PchThreads : s # t => pchs'[s] = pchs[s]
        /\ pchs'[t].at \in {"clear", "none"}
        /\ UNCHANGED answer \/ (results # <<>> /\ answer' = <<Last(results)>>)
    BY <1>10 DEF Verdict, TypeOK, Busy
  <2>2. patient => Taken(0) /\ Len(asked) = 1
    BY <1>2, <1>10, <2>1 DEF Verdict, Ledger
  <2>3. ASSUME patient, results # <<>>, answer' = <<Last(results)>>
        PROVE  (user_mode' /\ Waiting' => Len(asked') = 1) /\ AnsweredAsAsked'
    <3>1. answer' = Reverse(asked)
      BY <2>2, <2>3, OneTaken
    <3> QED
      BY <1>1, <2>2, <2>3, <3>1 DEF AnsweredAsAsked
  <2> QED
    BY <1>3, <1>4, <1>5, <2>1, <2>3
<1>11. CASE NextArfcn(t)
  <2>1. /\ Busy(t) /\ \A s \in PchThreads : s # t => pchs'[s] = pchs[s]
        /\ UNCHANGED results
    BY <1>11 DEF NextArfcn, TypeOK, Busy
  <2>2. patient => Taken(0)
    BY <1>11 DEF NextArfcn, Ledger
  <2>3. CASE pchs'[t].at = "clear" /\ UNCHANGED answer
    BY <1>3, <1>4, <1>5, <2>1, <2>3
  <2>u. ~user_mode
    BY <1>11, Zenon DEF NextArfcn
  <2>4. CASE pchs'[t].at = "clear" /\ remaining = <<>> /\ answer' = results
    <3>1. patient => answer' = Reverse(asked)
      BY <2>2, <2>4, AllTaken
    <3>2. patient => AnsweredAsAsked'
      BY <1>1, <3>1 DEF AnsweredAsAsked
    <3>3. ~user_mode'
      BY <1>1, <2>u, Zenon
    <3> QED
      BY <1>4, <2>1, <2>4, <3>2, <3>3
  <2>5. CASE /\ pchs'[t].at = "start" /\ pchs'[t].arfcn = Last(remaining)
             /\ Pop /\ UNCHANGED answer
    <3>1. patient => Taken(1)' /\ Last(remaining) = asked'[Len(remaining') + 1]
      BY <1>1, <2>1, <2>2, <2>5, PopTakes
    <3>2. patient => InHand(pchs[t].arfcn)'
      BY <2>5, <3>1 DEF InHand
    <3> QED
      BY <1>3, <1>4, <1>5, <2>1, <2>5, <3>2
  <2> QED
    BY <1>11, <2>3, <2>4, <2>5 DEF NextArfcn, TypeOK
<1>12. CASE StartNext(t)
  <2>1. PICK n \in PchThreads :
          /\ pchs[n] = [at |-> "none", arfcn |-> 0, timeout |-> 0]
          /\ pchs' = [pchs EXCEPT ![t].at = "clear", ![n] = Scanning(pchs[t].arfcn, timeout)]
    BY <1>12 DEF StartNext
  <2>2. Busy(t) /\ n # t
    BY <1>12, <2>1 DEF StartNext, Busy
  <2>3. /\ \A s \in PchThreads : s # n /\ s # t => pchs'[s] = pchs[s]
        /\ pchs'[t].at = "clear" /\ pchs'[n].at = "scanning" /\ pchs'[n].arfcn = pchs[t].arfcn
    BY <2>1, <2>2 DEF TypeOK, Scanning
  <2>4. patient => InHand(pchs[t].arfcn)
    BY <1>12 DEF StartNext, Ledger
  <2>5. UNCHANGED <<answer, remaining, results>>
    BY <1>12 DEF StartNext
  <2>6. patient => InHand(pchs[n].arfcn)'
    BY <1>1, <2>3, <2>4, <2>5 DEF InHand, Taken
  <2>7. patient => (user_mode' /\ Waiting' => Len(asked') = 1) /\ AnsweredAsAsked'
    BY <1>3, <1>5, <2>5
  <2> QED
    BY <1>1, <1>2, <2>2, <2>3, <2>6, <2>7 DEF Ledger, Busy
<1>13. CASE Clear(t)
  <2>1. /\ \A s \in PchThreads : s # t => pchs'[s] = pchs[s]
        /\ pchs'[t].at = "none" /\ UNCHANGED <<answer, remaining, results>>
    BY <1>13 DEF Clear, TypeOK
  <2>2. patient => (user_mode' /\ Waiting' => Len(asked') = 1) /\ AnsweredAsAsked'
    BY <1>3, <1>5, <2>1
  <2>3. /\ Taken(0)' = Taken(0)
        /\ \A s \in PchThreads : s # t => InHand(pchs[s].arfcn)' = InHand(pchs[s].arfcn)
        /\ InHand(gui.arfcn)' = InHand(gui.arfcn)
    BY <1>1, <2>1 DEF InHand, Taken
  <2> QED
    BY <1>1, <2>1, <2>2, <2>3 DEF Ledger
<1> QED
  BY <1>7, <1>8, <1>9, <1>10, <1>11, <1>12, <1>13 DEF PchStep, GoesOn

LEMMA LedgerStep == TypeOK /\ OneBusy /\ Ledger /\ [Next]_vars => Ledger'
<1> SUFFICES ASSUME TypeOK, OneBusy, Ledger, [Next]_vars PROVE Ledger'
  OBVIOUS
<1>1. ASSUME UNCHANGED <<patient, asked, answer, gui, pchs, user_mode, remaining, results>>
      PROVE  Ledger'
  BY <1>1 DEF Ledger, InHand, Taken, Waiting, AnsweredAsAsked
<1>2. CASE StartScan
  BY <1>1, <1>2 DEF StartScan, user, request
<1>3. CASE StopScan
  BY <1>1, <1>3 DEF StopScan, user, request
<1>4. ASSUME NEW t \in ScanThreads, ScanEnds(t) PROVE Ledger'
  BY <1>1, <1>4 DEF ScanEnds, user, request
<1>5. CASE UNCHANGED vars
  BY <1>1, <1>5 DEF vars, user, request
<1> QED
  BY <1>2, <1>3, <1>4, <1>5, LedgerAsk, LedgerGui, LedgerPch DEF Next

(***************************************************************************)
(* A user who waits for results is shown the results of exactly the ARFCNs *)
(* asked for last, the last one first, although the callbacks of the scan  *)
(* threads pop, record and start on lists that every request replaces.     *)
(***************************************************************************)
THEOREM AnswerIsOfRequest == Spec => []AnsweredAsAsked
<1>1. Init => OneBusy /\ Ledger
  BY DEF Init, OneBusy, Busy, Waiting, Ledger, AnsweredAsAsked, GuiIdle, NoThread
<1>2. Ledger => AnsweredAsAsked
  BY DEF Ledger, AnsweredAsAsked
<1> QED
  BY <1>1, <1>2, LedgerStep, BusyStep, ControllerTypeCorrect, PTL DEF Spec
=============================================================================
