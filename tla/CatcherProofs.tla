--------------------------- MODULE CatcherProofs ---------------------------
(***************************************************************************)
(* Proofs about catcher and the phone it drives, for every value of the    *)
(* constants: first whatever an earlier client left under way, then what   *)
(* holds of the link when none left the phone busy.                        *)
(***************************************************************************)
EXTENDS CatcherSystem, SequenceTheorems, FiniteSetTheorems, TLAPS

-----------------------------------------------------------------------------
(* Messages. *)

(* What a message of each type to the host carries. *)
LEMMA HostMsgFields ==
  ASSUME NEW m \in HostMsg
  PROVE  /\ m.type = "PM_RES" => m.arfcn \in Arfcns /\ m.rxlev \in Levels
         /\ m.type = "FBSB_CONF" => m.ok \in BOOLEAN
         /\ m.type = "BCCH_IND" => m.msg \in SIMessage
         /\ m.type = "RACH_CONF" => m.fn \in Nat
  BY DEF HostMsg, PmResults, Reset, PmDone, CcchModeConf

(* What a message of each type to the phone carries. *)
LEMMA PhoneMsgFields ==
  ASSUME NEW m \in PhoneMsg
  PROVE  /\ m.type = "PM_REQ" =>
              \E i \in DOMAIN Bands : m.from = Bands[i][1] /\ m.to = Bands[i][2]
         /\ m.type = "FBSB_REQ" => m.arfcn \in Arfcns
         /\ m.type = "RACH_REQ" => m.ra \in RA
  BY DEF PhoneMsg, ResetReq, CcchModeReq, PmReq

(* The messages the phone sends are messages to the host. *)
LEMMA HostMsgs ==
  /\ Reset \in HostMsg /\ PmDone \in HostMsg /\ CcchModeConf \in HostMsg
  /\ \A a \in Arfcns, lev \in Levels : PmRes(a, lev) \in PmResults
  /\ PmResults \subseteq HostMsg
  /\ \A ok \in BOOLEAN : FbsbConf(ok) \in HostMsg
  /\ \A m \in SIMessage : BcchInd(m) \in HostMsg
  /\ \A refs \in SUBSET Ref : AgchInd(refs) \in HostMsg
  /\ \A n \in Nat : RachConf(n) \in HostMsg
  BY DEF HostMsg, PmResults, Reset, PmDone, CcchModeConf, PmRes, FbsbConf,
         BcchInd, AgchInd, RachConf

(* The requests catcher sends are messages to the phone. *)
LEMMA PhoneMsgs ==
  /\ ResetReq \in PhoneMsg /\ CcchModeReq \in PhoneMsg
  /\ \A i \in DOMAIN Bands : PmReq(Bands[i][1], Bands[i][2]) \in PhoneMsg
  /\ \A a \in Arfcns : FbsbReq(a) \in PhoneMsg
  /\ \A ra \in RA : RachReq(ra) \in PhoneMsg
  BY DEF PhoneMsg, ResetReq, CcchModeReq, PmReq, FbsbReq, RachReq

-----------------------------------------------------------------------------
(* The constants. *)

LEMMA BandFacts ==
  /\ Len(Bands) \in Nat \ {0} /\ DOMAIN Bands = 1 .. Len(Bands)
  /\ \A i \in DOMAIN Bands :
       /\ Bands[i][1] \in Nat /\ Bands[i][2] \in Nat /\ Bands[i][1] <= Bands[i][2]
       /\ Range2Set(Bands[i]) \subseteq Arfcns
  /\ Arfcns \subseteq Nat
<1>1. Bands \in Seq(Nat \X Nat) /\ Len(Bands) > 0
  BY LinkAssumption
<1>2. Len(Bands) \in Nat \ {0} /\ DOMAIN Bands = 1 .. Len(Bands)
  BY <1>1
<1>3. \A i \in DOMAIN Bands : Bands[i] \in Nat \X Nat
  BY <1>1
<1>4. \A i \in DOMAIN Bands : Bands[i][1] <= Bands[i][2]
  BY LinkAssumption
<1>5. \A i \in DOMAIN Bands : Range2Set(Bands[i]) \subseteq Nat
  BY <1>3 DEF Range2Set
<1>6. Arfcns \subseteq Nat
  BY <1>5 DEF Arfcns
<1>7. \A i \in DOMAIN Bands : Range2Set(Bands[i]) \subseteq Arfcns
  BY DEF Arfcns
<1> QED
  BY <1>2, <1>3, <1>4, <1>6, <1>7

(* A row of band_range is a band or the terminator. *)
LEMMA RowIsBand ==
  ASSUME NEW n \in Nat, NEW row \in Rows(n), row # End
  PROVE  \E j \in DOMAIN Bands : row = Bands[j]
  BY DEF Rows

-----------------------------------------------------------------------------
(* Type correctness. *)

(* Both requests of a pair can be appended to what is under way. *)
LEMMA SendPair ==
  ASSUME LinkTypeOK, NEW out \in Seq(PhoneMsg), NEW p \in PhoneMsg, NEW q \in PhoneMsg
  PROVE  toPhone \o out \o <<p, q>> \in Seq(PhoneMsg)
<1>1. toPhone \o out \in Seq(PhoneMsg)
  BY ConcatProperties DEF LinkTypeOK
<1>2. <<p, q>> \in Seq(PhoneMsg)
  OBVIOUS
<1> QED
  BY <1>1, <1>2, ConcatProperties

PmType == [Arfcns -> [meas : BOOLEAN, sync : BOOLEAN, rxlev : Int]]

(* What start_sync leaves behind is well typed. *)
LEMMA StartSyncType ==
  ASSUME TypeOK, NEW index \in 0 .. Len(Bands) + 1, NEW s \in Report,
         NEW out \in Seq(PhoneMsg), StartSync(index, s, out)
  PROVE  /\ toPhone' \in Seq(PhoneMsg)
         /\ state' \in {"PM", "SYNC"}
         /\ pm' \in PmType /\ pm_index' \in 0 .. Len(Bands) + 1
         /\ sync_count' \in Int /\ sysinfo' \in Report
<1> USE DEF TypeOK, CatcherTypeOK
<1>1. ASSUME NEW a \in Arfcns, TuneTo(a, index, out)
      PROVE  /\ toPhone' \in Seq(PhoneMsg) /\ state' = "SYNC"
             /\ pm' \in PmType /\ pm_index' = index
             /\ sync_count' \in Int /\ sysinfo' \in Report
  <2>1. toPhone' \in Seq(PhoneMsg)
    BY <1>1, SendPair, PhoneMsgs DEF TuneTo
  <2>2. pm' \in PmType
    BY <1>1 DEF TuneTo, PmType
  <2>3. sysinfo' \in Report
    BY <1>1, BandFacts DEF TuneTo, Report
  <2> QED
    BY <1>1, <2>1, <2>2, <2>3 DEF TuneTo
<1>2. ASSUME NewSweep(s, out)
      PROVE  /\ toPhone' \in Seq(PhoneMsg) /\ state' = "PM"
             /\ pm' \in PmType /\ pm_index' = 0
             /\ sync_count' = 0 /\ sysinfo' = s
  <2>1. toPhone' \in Seq(PhoneMsg)
    <3>1. 1 \in DOMAIN Bands
      BY BandFacts
    <3>2. PmReq(Bands[1][1], Bands[1][2]) \in PhoneMsg /\ ResetReq \in PhoneMsg
      BY <3>1, PhoneMsgs
    <3>3. toPhone' = toPhone \o out \o <<ResetReq, PmReq(Bands[1][1], Bands[1][2])>>
      BY <1>2 DEF NewSweep, PmRequests
    <3> QED
      BY <3>2, <3>3, SendPair
  <2>2. pm' \in PmType
    BY <1>2 DEF NewSweep, NoMeasurement, PmType
  <2> QED
    BY <1>2, <2>1, <2>2 DEF NewSweep
<1> QED
  BY <1>1, <1>2, BandFacts DEF StartSync

(* What start_rach leaves behind is well typed. *)
LEMMA StartRachType ==
  ASSUME TypeOK, NEW s \in Report, NEW n \in 0 .. RACH_MAX,
         NEW out \in Seq(PhoneMsg), StartRach(s, n, out)
  PROVE  /\ toPhone' \in Seq(PhoneMsg)
         /\ state' \in {"PM", "SYNC", "RACH"} /\ timer' \in BOOLEAN
         /\ pm' \in PmType /\ pm_index' \in 0 .. Len(Bands) + 1
         /\ sync_count' \in Int /\ sysinfo' \in Report
         /\ rach_count' \in 0 .. RACH_MAX
         /\ state' = "RACH" => rach_count' < RACH_MAX
         /\ rach_ref' \in [valid : BOOLEAN, cr : RA, fn : Nat]
         /\ log' \in Seq(Report)
<1>0. RACH_MAX \in Nat
  BY CatcherAssumption
<1>1. CASE SendBurst(s, n, out)
  <2>1. PICK cr \in RA :
          /\ rach_ref' = [rach_ref EXCEPT !.valid = FALSE, !.cr = cr]
          /\ toPhone' = toPhone \o out \o <<RachReq(cr)>>
    BY <1>1 DEF SendBurst
  <2>2. toPhone \o out \in Seq(PhoneMsg) /\ <<RachReq(cr)>> \in Seq(PhoneMsg)
    BY ConcatProperties, PhoneMsgs DEF TypeOK, LinkTypeOK
  <2>3. toPhone' \in Seq(PhoneMsg)
    BY <2>1, <2>2, ConcatProperties
  <2>4. rach_ref' \in [valid : BOOLEAN, cr : RA, fn : Nat]
    BY <2>1 DEF TypeOK, CatcherTypeOK
  <2> QED
    BY <1>0, <1>1, <2>3, <2>4 DEF SendBurst, sweep, TypeOK, CatcherTypeOK, PmType
<1>2. CASE ~SendBurst(s, n, out)
  <2>1. /\ n = RACH_MAX /\ log' = Append(log, s) /\ rach_count' = n
        /\ timer' = FALSE /\ StartSync(pm_index, s, out) /\ rach_ref' = rach_ref
    BY <1>2 DEF StartRach, LogSysinfo
  <2>2. log' \in Seq(Report)
    BY <2>1, AppendProperties DEF TypeOK, CatcherTypeOK
  <2>3. pm_index \in 0 .. Len(Bands) + 1
    BY DEF TypeOK, CatcherTypeOK
  <2> QED
    BY <1>0, <2>1, <2>2, <2>3, StartSyncType DEF TypeOK, CatcherTypeOK
<1> QED
  BY <1>1, <1>2

(* The message at the head of a queue and what is left behind it. *)
LEMMA HostQueue ==
  ASSUME LinkTypeOK, NEW t, Receive(t)
  PROVE  /\ Head(toHost) \in HostMsg /\ Head(toHost).type = t
         /\ toHost' = Tail(toHost) /\ toHost' \in Seq(HostMsg)
  BY HeadTailProperties DEF LinkTypeOK, Receive, HostGets

(* Every handler of catcher keeps the types. *)
LEMMA CatcherType ==
  ASSUME TypeOK, CatcherNext, UNCHANGED phoneVars
  PROVE  TypeOK'
<1>a. <<>> \in Seq(PhoneMsg) /\ sysinfo \in Report /\ pm_index \in 0 .. Len(Bands) + 1
  BY DEF TypeOK, CatcherTypeOK
<1>b. ASSUME NEW index \in 0 .. Len(Bands) + 1, StartSync(index, sysinfo, <<>>)
      PROVE  /\ toPhone' \in Seq(PhoneMsg) /\ state' \in {"PM", "SYNC"}
             /\ pm' \in PmType /\ pm_index' \in 0 .. Len(Bands) + 1
             /\ sync_count' \in Int /\ sysinfo' \in Report
  BY <1>a, <1>b, StartSyncType
<1>c. ASSUME NEW n \in 0 .. RACH_MAX, StartRach(sysinfo, n, <<>>)
      PROVE  /\ toPhone' \in Seq(PhoneMsg)
             /\ state' \in {"PM", "SYNC", "RACH"} /\ timer' \in BOOLEAN
             /\ pm' \in PmType /\ pm_index' \in 0 .. Len(Bands) + 1
             /\ sync_count' \in Int /\ sysinfo' \in Report
             /\ rach_count' \in 0 .. RACH_MAX
             /\ state' = "RACH" => rach_count' < RACH_MAX
             /\ rach_ref' \in [valid : BOOLEAN, cr : RA, fn : Nat]
             /\ log' \in Seq(Report)
  BY <1>a, <1>c, StartRachType
<1> USE DEF TypeOK, LinkTypeOK, CatcherTypeOK, PmType, sweep, rach, link
<1>0. Layer1TypeOK'
  BY DEF Layer1TypeOK, phoneVars, phonePm, phoneRach
<1>1. CASE ResetSignal
  <2>1. toHost' \in Seq(HostMsg)
    BY <1>1, HostQueue DEF ResetSignal
  <2>2. CASE started
    BY <1>0, <1>1, <2>1, <2>2 DEF ResetSignal, hostVars
  <2>3. CASE ~started
    <3>1. /\ started' = TRUE /\ pm' = NoMeasurement /\ pm_index' = 0 /\ sync_count' = 0
          /\ state' = "PM" /\ toPhone' = toPhone \o PmRequests(Bands[1])
          /\ UNCHANGED <<timer, sysinfo, rach, frames, log>>
      BY <1>1, <2>3, Zenon DEF ResetSignal
    <3>2. PmRequests(Bands[1]) \in Seq(PhoneMsg)
      BY PhoneMsgs, BandFacts DEF PmRequests
    <3>3. toPhone' \in Seq(PhoneMsg)
      BY <3>1, <3>2, ConcatProperties
    <3>4. pm' \in PmType
      BY <3>1 DEF NoMeasurement
    <3> QED
      BY <1>0, <2>1, <3>1, <3>3, <3>4, BandFacts
  <2> QED
    BY <2>2, <2>3
<1>2. CASE PmResult
  <2>1. /\ toHost' \in Seq(HostMsg)
        /\ Head(toHost).arfcn \in Arfcns /\ Head(toHost).rxlev \in Int
    BY <1>2, HostQueue, HostMsgFields, LinkAssumption DEF PmResult
  <2>2. pm' \in PmType
    BY <1>2, <2>1 DEF PmResult
  <2>3. sync_count' \in Int
    BY <1>2 DEF PmResult
  <2> QED
    BY <1>0, <1>2, <2>1, <2>2, <2>3 DEF PmResult
<1>3. CASE PmFinished
  <2>1. toHost' \in Seq(HostMsg)
    BY <1>3, HostQueue DEF PmFinished
  <2>2. NextIndex \in 0 .. Len(Bands) + 1
    BY BandFacts DEF NextIndex
  <2>3. PICK row \in Rows(NextIndex) :
          \/ /\ row # End
             /\ pm_index' = NextIndex
             /\ state' = "PM"
             /\ toPhone' = toPhone \o PmRequests(row)
             /\ UNCHANGED <<pm, sync_count, sysinfo, log>>
          \/ log' = <<>> /\ StartSync(NextIndex, sysinfo, <<>>)
    BY <1>3 DEF PmFinished
  <2>4. CASE row # End /\ state' = "PM" /\ pm_index' = NextIndex
             /\ toPhone' = toPhone \o PmRequests(row)
             /\ UNCHANGED <<pm, sync_count, sysinfo, log>>
    <3>1. PmRequests(row) \in Seq(PhoneMsg)
      BY <2>2, <2>4, RowIsBand, PhoneMsgs DEF PmRequests
    <3>2. toPhone' \in Seq(PhoneMsg)
      BY <2>4, <3>1, ConcatProperties
    <3> QED
      BY <1>0, <1>3, <2>1, <2>2, <2>4, <3>2 DEF PmFinished
  <2>5. CASE log' = <<>> /\ StartSync(NextIndex, sysinfo, <<>>)
    BY <1>0, <1>b, <1>3, <2>1, <2>2, <2>5 DEF PmFinished
  <2> QED
    BY <2>3, <2>4, <2>5
<1>4. CASE SyncResult
  <2>1. toHost' \in Seq(HostMsg)
    BY <1>4, HostQueue DEF SyncResult
  <2>2. CASE Head(toHost).ok
    BY <1>0, <1>4, <2>1, <2>2 DEF SyncResult
  <2>3. CASE ~Head(toHost).ok
    BY <1>0, <1>a, <1>b, <1>4, <2>1, <2>3 DEF SyncResult
  <2> QED
    BY <2>2, <2>3
<1>5. CASE Bcch
  <2>1. toHost' \in Seq(HostMsg) /\ Head(toHost).msg \in SIMessage
    BY <1>5, HostQueue, HostMsgFields DEF Bcch
  <2>2. CASE UNCHANGED <<state, timer, sweep, sysinfo, rach, log, toPhone>>
    BY <1>0, <1>5, <2>1, <2>2 DEF Bcch
  <2>3. CASE ~UNCHANGED <<state, timer, sweep, sysinfo, rach, log, toPhone>>
    <3> DEFINE m == Head(toHost).msg
               s == [sysinfo EXCEPT !.si = Store(@, m)]
               out == IF m.si = "SI3" THEN <<CcchModeReq>> ELSE <<>>
    <3>1. NewSysinfo(s, out) /\ Reading
      BY <1>5, <2>3 DEF Bcch
    <3>2. s \in Report
      BY <2>1 DEF Report, Store
    <3>3. out \in Seq(PhoneMsg)
      BY PhoneMsgs
    <3>4. CASE ~Complete(s.si)
      <4>1. toPhone' = toPhone \o out /\ sysinfo' = s /\ timer' = TRUE
            /\ UNCHANGED <<state, sweep, rach, log>>
        BY <3>1, <3>4 DEF NewSysinfo
      <4>2. toPhone' \in Seq(PhoneMsg)
        BY <3>3, <4>1, ConcatProperties
      <4> QED
        BY <1>0, <1>5, <2>1, <3>2, <4>1, <4>2 DEF Bcch
    <3>5. CASE Complete(s.si)
      <4>1. StartRach(s, 0, out)
        BY <3>1, <3>5 DEF NewSysinfo
      <4>2. 0 \in 0 .. RACH_MAX
        BY CatcherAssumption
      <4> HIDE DEF s, out
      <4> QED
        BY <1>0, <1>5, <2>1, <3>2, <3>3, <4>1, <4>2, StartRachType DEF Bcch
    <3> QED
      BY <3>4, <3>5
  <2> QED
    BY <2>2, <2>3
<1>6. CASE ImmediateAssignment
  <2>1. toHost' \in Seq(HostMsg)
    BY <1>6, HostQueue DEF ImmediateAssignment
  <2>2. CASE ~Accepts(Head(toHost).refs)
    BY <1>0, <1>6, <2>1, <2>2 DEF ImmediateAssignment
  <2>3. CASE Accepts(Head(toHost).refs)
    <3>1. log' = Append(log, sysinfo)
      BY <1>6, <2>3, Zenon DEF ImmediateAssignment, LogSysinfo
    <3>2. log' \in Seq(Report)
      BY <1>a, <3>1, AppendProperties
    <3> QED
      BY <1>0, <1>a, <1>b, <1>6, <2>1, <2>3, <3>2 DEF ImmediateAssignment
  <2> QED
    BY <2>2, <2>3
<1>7. CASE ChanConf
  <2>1. toHost' \in Seq(HostMsg) /\ Head(toHost).fn \in Nat
    BY <1>7, HostQueue, HostMsgFields DEF ChanConf
  <2>2. rach_ref' \in [valid : BOOLEAN, cr : RA, fn : Nat]
    BY <1>7, <2>1 DEF ChanConf
  <2> QED
    BY <1>0, <1>7, <2>1, <2>2 DEF ChanConf
<1>8. CASE CcchModeConfirmed
  BY <1>0, <1>8, HostQueue DEF CcchModeConfirmed, hostVars
<1>9. CASE ReadTimeout
  BY <1>0, <1>a, <1>b, <1>9 DEF ReadTimeout
<1>10. CASE RachTimeout
  <2>1. sysinfo \in Report /\ rach_count + 1 \in 0 .. RACH_MAX
    BY <1>10, CatcherAssumption DEF RachTimeout
  <2>2. StartRach(sysinfo, rach_count + 1, <<>>)
    BY <1>10 DEF RachTimeout
  <2> QED
    BY <1>0, <1>c, <1>10, <2>1, <2>2 DEF RachTimeout
<1>11. CASE IdleTimeout
  BY <1>0, <1>11 DEF IdleTimeout
<1> QED
  BY <1>1, <1>2, <1>3, <1>4, <1>5, <1>6, <1>7, <1>8, <1>9, <1>10, <1>11
  DEF CatcherNext, Receipt, Timeout

(* One more message to the host. *)
LEMMA SendOne ==
  ASSUME LinkTypeOK, NEW m \in HostMsg, Send(<<m>>)
  PROVE  toHost' \in Seq(HostMsg)
<1>1. <<m>> \in Seq(HostMsg)
  OBVIOUS
<1> QED
  BY <1>1, ConcatProperties DEF LinkTypeOK, Send

(* The request at the head of the queue and what is left behind it. *)
LEMMA PhoneQueue ==
  ASSUME LinkTypeOK, NEW t, Take(t)
  PROVE  /\ Head(toPhone) \in PhoneMsg /\ Head(toPhone).type = t
         /\ toPhone' \in Seq(PhoneMsg)
  BY HeadTailProperties DEF LinkTypeOK, Take

(* Every step of the phone keeps the types. *)
LEMMA Layer1Type ==
  ASSUME TypeOK, Layer1Next, UNCHANGED hostVars
  PROVE  TypeOK'
<1> USE DEF TypeOK, LinkTypeOK, Layer1TypeOK, phonePm, phoneRach, phoneVars, link
<1>0. CatcherTypeOK'
  BY DEF CatcherTypeOK, hostVars, sweep, rach
<1>1. CASE ResetRequest
  BY <1>0, <1>1, PhoneQueue, SendOne, HostMsgs DEF ResetRequest, ResetSchedulers, Take
<1>2. CASE PmRequest
  <2>1. /\ Head(toPhone) \in PhoneMsg /\ Head(toPhone).type = "PM_REQ"
        /\ toPhone' \in Seq(PhoneMsg)
    BY <1>2, PhoneQueue DEF PmRequest
  <2>2. PICK i \in DOMAIN Bands :
          Head(toPhone).from = Bands[i][1] /\ Head(toPhone).to = Bands[i][2]
    BY <2>1, PhoneMsgFields
  <2>3. pmNext' \in Range2Set(Bands[i]) /\ pmEnd' = Bands[i][2]
    BY <1>2, <2>2, BandFacts DEF PmRequest, Range2Set
  <2> QED
    BY <1>0, <1>2, <2>1, <2>3 DEF PmRequest, Take
<1>3. CASE FbsbRequest
  BY <1>0, <1>3, PhoneQueue, PhoneMsgFields DEF FbsbRequest, ResetSchedulers, Take
<1>4. CASE CcchModeRequest
  BY <1>0, <1>4, PhoneQueue, SendOne, HostMsgs DEF CcchModeRequest, Take
<1>5. CASE RachRequest
  BY <1>0, <1>5, PhoneQueue, PhoneMsgFields DEF RachRequest, Take
<1>6. CASE MeasureNext
  <2>1. PICK lev \in Levels :
          LET full  == Len(pmMsg) = PmBatch
              msg   == (IF full THEN <<>> ELSE pmMsg) \o <<PmRes(pmNext, lev)>>
              flush == IF full THEN pmMsg ELSE <<>>
          IN \/ /\ pmNext # pmEnd
                /\ pmNext' = pmNext + 1
                /\ pmMsg' = msg
                /\ Send(flush)
                /\ UNCHANGED task
             \/ /\ pmNext = pmEnd
                /\ pmMsg' = <<>>
                /\ Send(flush \o msg \o <<PmDone>>)
                /\ task' = "idle"
                /\ UNCHANGED pmNext
    BY <1>6 DEF MeasureNext
  <2> DEFINE full  == Len(pmMsg) = PmBatch
             msg   == (IF full THEN <<>> ELSE pmMsg) \o <<PmRes(pmNext, lev)>>
             flush == IF full THEN pmMsg ELSE <<>>
  <2>2. PICK i \in DOMAIN Bands : pmNext \in Range2Set(Bands[i]) /\ pmEnd = Bands[i][2]
    BY <1>6 DEF MeasureNext
  <2>3. <<PmRes(pmNext, lev)>> \in Seq(PmResults)
    <3>1. pmNext \in Arfcns
      BY <2>2, BandFacts
    <3>2. PmRes(pmNext, lev) \in PmResults
      BY <3>1, HostMsgs
    <3> QED
      BY <3>2
  <2>4. (IF full THEN <<>> ELSE pmMsg) \in Seq(PmResults) /\ flush \in Seq(PmResults)
    OBVIOUS
  <2>5. msg \in Seq(PmResults)
    BY <2>3, <2>4, ConcatProperties
  <2>6. flush \in Seq(HostMsg) /\ msg \in Seq(HostMsg)
    BY <2>4, <2>5, HostMsgs, SeqMonotonic
  <2>7. <<PmDone>> \in Seq(HostMsg)
    BY HostMsgs
  <2>8. \/ /\ pmNext # pmEnd /\ pmNext' = pmNext + 1 /\ pmMsg' = msg
           /\ Send(flush) /\ task' = task
        \/ /\ pmNext = pmEnd /\ pmNext' = pmNext /\ pmMsg' = <<>>
           /\ Send(flush \o msg \o <<PmDone>>) /\ task' = "idle"
    BY <2>1
  <2> HIDE DEF full, msg, flush
  <2>9. flush \o msg \o <<PmDone>> \in Seq(HostMsg)
    <3>1. flush \o msg \in Seq(HostMsg)
      BY <2>6, ConcatProperties
    <3> QED
      BY <2>7, <3>1, ConcatProperties
  <2>10. toHost' \in Seq(HostMsg)
    <3>1. PICK out \in Seq(HostMsg) : toHost' = toHost \o out
      BY <2>6, <2>8, <2>9, Zenon DEF Send
    <3> QED
      BY <3>1, ConcatProperties
  <2>11. pmMsg' \in Seq(PmResults)
    <3>1. <<>> \in Seq(PmResults)
      OBVIOUS
    <3> QED
      BY <2>5, <2>8, <3>1, Zenon
  <2>12. task' = "pm" => pmNext' \in Range2Set(Bands[i]) /\ pmEnd' = Bands[i][2]
    BY <1>6, <2>2, <2>8, BandFacts, SMTT(40) DEF Range2Set, MeasureNext
  <2>13. task' \in {"idle", "pm"}
    BY <1>6, <2>8 DEF MeasureNext
  <2> QED
    BY <1>0, <1>6, <2>10, <2>11, <2>12, <2>13 DEF MeasureNext
<1>7. CASE Synchronise
  <2>1. 0 \in 0 .. FnBound /\ {} \subseteq Ref
    BY Layer1Assumption
  <2>2. compl' \subseteq {"FB", "RACH"} /\ overdue' \subseteq compl'
    BY <1>7 DEF Synchronise
  <2>3. fn' \in 0 .. FnBound /\ onAir' \subseteq Ref
    BY <1>7, <2>1 DEF Synchronise
  <2> QED
    BY <1>0, <1>7, <2>2, <2>3 DEF Synchronise
<1>8. CASE GiveUpSync
  BY <1>0, <1>8 DEF GiveUpSync
<1>9. CASE TransmitRach
  BY <1>0, <1>9, Layer1Assumption DEF TransmitRach, Ref
<1>10. CASE HearBcch
  <2>1. PICK m \in Air[tuned] : Send(<<BcchInd(m)>>)
    BY <1>10 DEF HearBcch
  <2>2. BcchInd(m) \in HostMsg
    BY <1>10, <2>1, LinkAssumption, HostMsgs DEF HearBcch, Listening
  <2> QED
    BY <1>0, <1>10, <2>1, <2>2, SendOne DEF HearBcch
<1>11. CASE HearAgch
  <2>1. PICK refs \in SUBSET [ra : RA, fn : 0 .. fn] : Send(<<AgchInd(refs)>>)
    BY <1>11 DEF HearAgch
  <2>2. AgchInd(refs) \in HostMsg
    BY <2>1, HostMsgs, Layer1Assumption DEF Ref
  <2> QED
    BY <1>0, <1>11, <2>1, <2>2, SendOne DEF HearAgch
<1>12. CASE SyncCompletion
  BY <1>0, <1>12, SendOne, HostMsgs DEF SyncCompletion
<1>13. CASE RachCompletion
  BY <1>0, <1>13, SendOne, HostMsgs DEF RachCompletion
<1>14. CASE Boot
  <2>1. reboots' \in 0 .. MaxReboots
    BY <1>14, Layer1Assumption DEF Boot
  <2>2. toHost' \in Seq(HostMsg)
    BY <1>14, SendOne, HostMsgs DEF Boot
  <2>3. 0 \in 0 .. FnBound /\ {} \subseteq Ref /\ <<>> \in Seq(PmResults) /\ <<>> \in Seq(PhoneMsg)
    BY Layer1Assumption
  <2>4. fn' \in 0 .. FnBound /\ onAir' \subseteq Ref /\ pmMsg' \in Seq(PmResults)
        /\ toPhone' \in Seq(PhoneMsg)
    BY <1>14, <2>3 DEF Boot
  <2> QED
    BY <1>0, <1>14, <2>1, <2>2, <2>4 DEF Boot
<1> QED
  BY <1>1, <1>2, <1>3, <1>4, <1>5, <1>6, <1>7, <1>8, <1>9, <1>10, <1>11, <1>12, <1>13, <1>14
  DEF Layer1Next, Request, Radio, Completion, Cell

(* The state of a phone and of catcher at the start is well typed. *)
LEMMA InitType == Init => TypeOK
<1> SUFFICES ASSUME Init PROVE TypeOK
  OBVIOUS
<1>1. LinkTypeOK
  BY PhoneMsgs DEF Init, LinkTypeOK
<1>2. CatcherTypeOK
  <2>1. CatcherInit
    BY DEF Init
  <2>2. pm \in PmType
    BY <2>1 DEF CatcherInit, NoMeasurement, PmType
  <2>3. sysinfo \in Report /\ log \in Seq(Report)
    BY <2>1 DEF CatcherInit, Report
  <2>4. rach_ref \in [valid : BOOLEAN, cr : RA, fn : Nat]
    BY <2>1 DEF CatcherInit
  <2>5. pm_index \in 0 .. Len(Bands) + 1 /\ sync_count \in Int
    BY <2>1, BandFacts DEF CatcherInit
  <2>6. rach_count \in 0 .. RACH_MAX /\ state = "PM"
    BY <2>1, CatcherAssumption DEF CatcherInit
  <2> QED
    BY <2>1, <2>2, <2>3, <2>4, <2>5, <2>6 DEF CatcherInit, CatcherTypeOK, PmType
<1>3. ASSUME Layer1Init \/ LeftBehind PROVE Layer1TypeOK
  <2>1. 0 \in 0 .. FnBound /\ 0 \in 0 .. MaxReboots /\ {} \subseteq Ref /\ <<>> \in Seq(PmResults)
    BY Layer1Assumption
  <2>2. /\ pmMsg = <<>> /\ compl = {} /\ overdue = {} /\ synced = FALSE /\ ccch = FALSE
        /\ rachDue = 0 /\ lastRach = 0 /\ fn = 0 /\ onAir = {} /\ reboots = 0
        /\ rachRa \in RA
    BY <1>3 DEF Layer1Init, LeftBehind
  <2>3. CASE Layer1Init
    <3>1. task \in {"off", "idle"} /\ tuned = 0
      BY <2>3 DEF Layer1Init
    <3> QED
      BY <2>1, <2>2, <3>1 DEF Layer1TypeOK
  <2>4. CASE LeftBehind
    <3>1. task = "pm" =>
            \E i \in DOMAIN Bands : pmNext \in Range2Set(Bands[i]) /\ pmEnd = Bands[i][2]
      <4>1. ASSUME task = "pm"
            PROVE  \E i \in DOMAIN Bands : pmNext = Bands[i][1] /\ pmEnd = Bands[i][2]
        BY <2>4, <4>1 DEF LeftBehind
      <4> QED
        BY <4>1, BandFacts DEF Range2Set
    <3>2. task \in {"fbsb", "pm"} /\ tuned \in Arfcns
      BY <2>4 DEF LeftBehind
    <3> QED
      BY <2>1, <2>2, <3>1, <3>2 DEF Layer1TypeOK
  <2> QED
    BY <1>3, <2>3, <2>4
<1> QED
  BY <1>1, <1>2, <1>3 DEF Init, TypeOK

(***************************************************************************)
(* Type correctness (TypeOK): every variable of catcher and of the phone   *)
(* keeps its type, whatever the bands, the cells, the options and an       *)
(* earlier client of the phone.                                            *)
(***************************************************************************)
THEOREM TypeCorrect == Spec => []TypeOK
<1>1. TypeOK /\ UNCHANGED vars => TypeOK'
  BY DEF TypeOK, LinkTypeOK, CatcherTypeOK, Layer1TypeOK, vars, link, hostVars,
         phoneVars, sweep, rach, phonePm, phoneRach
<1>2. TypeOK /\ [Next]_vars => TypeOK'
  BY <1>1, CatcherType, Layer1Type DEF Next
<1> QED
  BY <1>2, InitType, PTL DEF Spec

-----------------------------------------------------------------------------
(* The frame counter. *)

(* A channel is asked for only after a frame of the cell was received. *)
FrameHeard == state = "RACH" => frames = 1

(* start_sync leaves neither the log nor the frame counter's users running. *)
LEMMA StartSyncState ==
  ASSUME NEW index, NEW s, NEW out, StartSync(index, s, out)
  PROVE  state' \in {"PM", "SYNC"}
  BY DEF StartSync, TuneTo, NewSweep

(* A step that logs, or leaves catcher asking for a channel, has a frame. *)
LEMMA FrameStep ==
  ASSUME TypeOK, FrameHeard, [Next]_vars
  PROVE  FrameHeard' /\ (Len(log') > Len(log) => frames' > 0)
<1> USE DEF FrameHeard, sweep, rach, hostVars
<1>0. ASSUME log' = log PROVE ~(Len(log') > Len(log))
  BY <1>0 DEF TypeOK, CatcherTypeOK
<1>1. CASE UNCHANGED hostVars
  BY <1>0, <1>1
<1>2. CASE ResetSignal
  BY <1>0, <1>2 DEF ResetSignal
<1>3. CASE PmResult
  BY <1>0, <1>3 DEF PmResult
<1>4. CASE PmFinished
  <2>1. state' # "RACH" /\ frames' = frames /\ (log' = log \/ log' = <<>>)
    BY <1>4, StartSyncState DEF PmFinished
  <2>2. Len(log) \in Nat
    BY DEF TypeOK, CatcherTypeOK
  <2> QED
    BY <1>0, <2>1, <2>2
<1>5. CASE SyncResult
  BY <1>0, <1>5, StartSyncState DEF SyncResult
<1>6. CASE Bcch \/ ImmediateAssignment
  BY <1>6 DEF Bcch, ImmediateAssignment
<1>7. CASE ChanConf
  BY <1>0, <1>7 DEF ChanConf
<1>8. CASE CcchModeConfirmed
  BY <1>0, <1>8 DEF CcchModeConfirmed
<1>9. CASE ReadTimeout
  BY <1>0, <1>9, StartSyncState DEF ReadTimeout
<1>10. CASE RachTimeout
  BY <1>10 DEF RachTimeout
<1>11. CASE IdleTimeout
  BY <1>0, <1>11 DEF IdleTimeout
<1> QED
  BY <1>1, <1>2, <1>3, <1>4, <1>5, <1>6, <1>7, <1>8, <1>9, <1>10, <1>11
  DEF Next, CatcherNext, Receipt, Timeout, vars

(***************************************************************************)
(* log_sysinfo never divides by zero (LoggedAfterFrame): whenever a cell   *)
(* is logged, a frame was received since the last synchronisation, also    *)
(* when an earlier client left the phone busy.                             *)
(***************************************************************************)
THEOREM NeverLoggedWithoutFrame == Spec => LoggedAfterFrame
<1>1. Init => FrameHeard
  BY DEF Init, CatcherInit, FrameHeard
<1>2. TypeOK /\ FrameHeard /\ [Next]_vars => FrameHeard'
  BY FrameStep
<1>3. TypeOK /\ FrameHeard /\ [Next]_vars => [Len(log') > Len(log) => frames' > 0]_vars
  BY FrameStep
<1> QED
  BY <1>1, <1>2, <1>3, TypeCorrect, PTL DEF Spec, LoggedAfterFrame

-----------------------------------------------------------------------------
(***************************************************************************)
(* Proofs about what is under way between catcher and the phone, when no   *)
(* earlier client left the phone busy: one request at a time, and answers  *)
(* and broadcasts of the cell that catcher means; the phone is camped on   *)
(* that cell, and what is stored as its system information is its own.     *)
(***************************************************************************)

-----------------------------------------------------------------------------
(* Queues. *)

(* What stands where in a queue to which a batch was appended. *)
LEMMA Appended ==
  ASSUME NEW S, NEW q \in Seq(S), NEW b \in Seq(S)
  PROVE  /\ q \o b \in Seq(S) /\ Len(q \o b) = Len(q) + Len(b)
         /\ \A i \in DOMAIN q : i \in DOMAIN (q \o b) /\ (q \o b)[i] = q[i]
         /\ \A i \in DOMAIN (q \o b) : i \notin DOMAIN q =>
              i - Len(q) \in DOMAIN b /\ (q \o b)[i] = b[i - Len(q)]
  BY ConcatProperties

(* What stands where in a queue whose head was taken. *)
LEMMA Taken ==
  ASSUME NEW S, NEW q \in Seq(S), q # <<>>
  PROVE  /\ 1 \in DOMAIN q /\ Head(q) = q[1]
         /\ \A i \in DOMAIN Tail(q) : i + 1 \in DOMAIN q /\ Tail(q)[i] = q[i + 1]
  BY HeadTailProperties

(* What catcher finds behind the message it handles. *)
LEMMA HostTaken ==
  ASSUME TypeOK, NEW t, Receive(t)
  PROVE  /\ 1 \in DOMAIN toHost /\ toHost[1] = Head(toHost) /\ toHost[1].type = t
         /\ \A i \in DOMAIN toHost' : i \in Nat /\ i + 1 \in DOMAIN toHost /\ toHost'[i] = toHost[i + 1]
  BY Taken DEF TypeOK, LinkTypeOK, Receive, HostGets

(* What the phone finds behind the request it handles. *)
LEMMA PhoneTaken ==
  ASSUME TypeOK, NEW t, Take(t)
  PROVE  /\ 1 \in DOMAIN toPhone /\ toPhone[1] = Head(toPhone) /\ toPhone[1].type = t
         /\ \A i \in DOMAIN toPhone' : i \in Nat /\ i + 1 \in DOMAIN toPhone /\ toPhone'[i] = toPhone[i + 1]
  BY Taken DEF TypeOK, LinkTypeOK, Take

-----------------------------------------------------------------------------
(* One request at a time. *)

(* Nothing is outstanding, except what toHost may still hold. *)
Idle == NoAsk /\ NoWork /\ NoCompletion

(* The requests of a batch that does not ask for anything to be answered. *)
Silent(out) == out \in Seq(PhoneMsg) /\ \A i \in DOMAIN out : ~Asks(out[i])

(* A handler that asks only silent requests of an otherwise unchanged link. *)
LEMMA SilentSent ==
  ASSUME TypeOK, NEW out, Silent(out), toPhone' = toPhone \o out
  PROVE  /\ NoAsk => NoAsk'
         /\ \A i \in DOMAIN toPhone' : Asks(toPhone'[i]) =>
              i \in DOMAIN toPhone /\ toPhone'[i] = toPhone[i]
  BY Appended DEF TypeOK, LinkTypeOK, Silent, NoAsk

(* A handler that asks one thing when nothing is asked. *)
LEMMA OneSent ==
  ASSUME TypeOK, NoAsk, NEW out, Silent(out), NEW q \in PhoneMsg, Asks(q),
         toPhone' = toPhone \o out \o <<ResetReq, q>>
  PROVE  /\ \A i \in DOMAIN toPhone' : Asks(toPhone'[i]) => toPhone'[i] = q
         /\ \A i, j \in DOMAIN toPhone' : Asks(toPhone'[i]) /\ Asks(toPhone'[j]) => i = j
<1> DEFINE p == toPhone \o out
           b == <<ResetReq, q>>
<1>1. p \in Seq(PhoneMsg) /\ \A i \in DOMAIN p : ~Asks(p[i])
  BY Appended DEF TypeOK, LinkTypeOK, Silent, NoAsk
<1>2. b \in Seq(PhoneMsg) /\ DOMAIN b = {1, 2} /\ b[1] = ResetReq /\ b[2] = q
  BY PhoneMsgs
<1>3. ~Asks(ResetReq)
  BY DEF Asks, ResetReq
<1>4. toPhone' = p \o b
  OBVIOUS
<1> HIDE DEF p, b
<1>a. /\ Len(p) \in Nat
      /\ \A i \in DOMAIN p : toPhone'[i] = p[i]
      /\ \A i \in DOMAIN toPhone' : i \in Nat
      /\ \A i \in DOMAIN toPhone' : i \notin DOMAIN p =>
           i - Len(p) \in DOMAIN b /\ toPhone'[i] = b[i - Len(p)]
  <2>1. /\ p \o b \in Seq(PhoneMsg)
        /\ \A i \in DOMAIN p : (p \o b)[i] = p[i]
        /\ \A i \in DOMAIN (p \o b) : i \notin DOMAIN p =>
             i - Len(p) \in DOMAIN b /\ (p \o b)[i] = b[i - Len(p)]
    BY <1>1, <1>2, Appended, ZenonT(60)
  <2>2. Len(p) \in Nat /\ \A i \in DOMAIN (p \o b) : i \in Nat
    BY <1>1, <2>1
  <2> QED
    BY <1>4, <2>1, <2>2, Zenon
<1>5. \A i \in DOMAIN toPhone' : Asks(toPhone'[i]) =>
        i = Len(p) + 2 /\ toPhone'[i] = q
  <2> SUFFICES ASSUME NEW i \in DOMAIN toPhone', Asks(toPhone'[i])
               PROVE  i = Len(p) + 2 /\ toPhone'[i] = q
    OBVIOUS
  <2>1. i \notin DOMAIN p
    BY <1>1, <1>a, Zenon
  <2>2. i - Len(p) \in {1, 2} /\ toPhone'[i] = b[i - Len(p)]
    BY <1>2, <1>a, <2>1, Zenon
  <2>3. i - Len(p) # 1
    BY <1>2, <1>3, <2>2, Zenon
  <2> QED
    BY <1>2, <1>a, <2>2, <2>3
<1> QED
  BY <1>5

(* No answer is on its way when the handler is done: the state may be new. *)
LEMMA AskedOnce ==
  ASSUME TypeOK, Idle, NoAnswer', UNCHANGED phoneVars, started',
         NEW out, Silent(out), NEW q \in PhoneMsg, toPhone' = toPhone \o out \o <<ResetReq, q>>,
         \/ q.type = "PM_REQ" /\ state' = "PM"
         \/ q.type = "FBSB_REQ" /\ state' = "SYNC"
  PROVE  OneOutstanding'
<1>1. Asks(q)
  BY DEF Asks
<1>2. /\ \A i \in DOMAIN toPhone' : Asks(toPhone'[i]) => toPhone'[i] = q
      /\ \A i, j \in DOMAIN toPhone' : Asks(toPhone'[i]) /\ Asks(toPhone'[j]) => i = j
  BY <1>1, OneSent DEF Idle
<1>3. NoWork' /\ NoCompletion'
  BY DEF Idle, NoWork, NoCompletion, phoneVars
<1> QED
  BY <1>2, <1>3
  DEF OneOutstanding, NoMeasuring, NoSynchronising, Asks, Answers, NoAnswer, NoWork,
      NoCompletion, Reading

(* start_sync asks for a measurement or for a synchronisation. *)
LEMMA StartSyncAsks ==
  ASSUME TypeOK, Idle, NoAnswer', UNCHANGED phoneVars, started',
         NEW index, NEW s, NEW out, Silent(out), StartSync(index, s, out)
  PROVE  OneOutstanding' /\ state' \in {"PM", "SYNC"}
<1>1. ASSUME NEW a \in Arfcns, TuneTo(a, index, out)
      PROVE  OneOutstanding' /\ state' \in {"PM", "SYNC"}
  <2>1. FbsbReq(a) \in PhoneMsg /\ FbsbReq(a).type = "FBSB_REQ"
    BY PhoneMsgs DEF FbsbReq
  <2>2. toPhone' = toPhone \o out \o <<ResetReq, FbsbReq(a)>> /\ state' = "SYNC"
    BY <1>1 DEF TuneTo
  <2> QED
    BY <2>1, <2>2, AskedOnce
<1>2. ASSUME NewSweep(s, out)
      PROVE  OneOutstanding' /\ state' \in {"PM", "SYNC"}
  <2> DEFINE q == PmReq(Bands[1][1], Bands[1][2])
  <2>1. q \in PhoneMsg /\ q.type = "PM_REQ"
    BY PhoneMsgs, BandFacts DEF PmReq
  <2>2. toPhone' = toPhone \o out \o <<ResetReq, q>> /\ state' = "PM"
    BY <1>2 DEF NewSweep, PmRequests
  <2> HIDE DEF q
  <2> QED
    BY <2>1, <2>2, AskedOnce
<1> QED
  BY <1>1, <1>2 DEF StartSync

(* What is left on the way to catcher when it has taken a message. *)
LEMMA AnswersLeft ==
  ASSUME TypeOK, OneOutstanding, NEW t, Receive(t)
  PROVE  /\ NoAnswer => NoAnswer'
         /\ t \in {"PM_DONE", "FBSB_CONF"} => Idle /\ NoAnswer'
         /\ \A i, j \in DOMAIN toHost' : Answers(toHost'[i]) /\ Answers(toHost'[j]) => i = j
<1>1. /\ 1 \in DOMAIN toHost /\ toHost[1].type = t
      /\ \A i \in DOMAIN toHost' : i \in Nat /\ i + 1 \in DOMAIN toHost /\ toHost'[i] = toHost[i + 1]
  BY HostTaken
<1>2. \A i, j \in DOMAIN toHost : Answers(toHost[i]) /\ Answers(toHost[j]) => i = j
  BY DEF OneOutstanding
<1>3. NoAnswer => NoAnswer'
  BY <1>1 DEF NoAnswer
<1>4. \A i, j \in DOMAIN toHost' : Answers(toHost'[i]) /\ Answers(toHost'[j]) => i = j
  <2> SUFFICES ASSUME NEW i \in DOMAIN toHost', NEW j \in DOMAIN toHost',
                      Answers(toHost'[i]), Answers(toHost'[j])
               PROVE  i = j
    OBVIOUS
  <2>1. i + 1 = j + 1
    BY <1>1, <1>2, Zenon
  <2> QED
    BY <1>1, <2>1
<1>5. ASSUME t \in {"PM_DONE", "FBSB_CONF"} PROVE Idle /\ NoAnswer'
  <2>1. Answers(toHost[1])
    BY <1>1, <1>5 DEF Answers
  <2>2. ~NoAnswer
    BY <1>1, <2>1 DEF NoAnswer
  <2>3. Idle
    BY <2>2 DEF OneOutstanding, Idle
  <2>4. ASSUME NEW i \in DOMAIN toHost', Answers(toHost'[i]) PROVE FALSE
    <3>1. i + 1 = 1 /\ i \in DOMAIN toHost' /\ i \in Nat
      BY <1>1, <1>2, <2>1, <2>4, Zenon
    <3>2. \A n \in DOMAIN toHost' : n >= 1
      BY HeadTailProperties, HostQueue DEF TypeOK
    <3> QED
      BY <3>1, <3>2
  <2> QED
    BY <2>3, <2>4 DEF NoAnswer
<1> QED
  BY <1>3, <1>4, <1>5

(* A handler that neither asks nor answers keeps what is outstanding. *)
LEMMA Undisturbed ==
  ASSUME TypeOK, OneOutstanding, UNCHANGED phoneVars, started' = started,
         (\E t : Receive(t)) \/ UNCHANGED toHost,
         state' = state \/ (Reading /\ Reading'),
         NEW out, Silent(out), toPhone' = toPhone \o out
  PROVE  OneOutstanding'
<1>1. /\ NoAsk => NoAsk'
      /\ \A i \in DOMAIN toPhone' : Asks(toPhone'[i]) =>
           i \in DOMAIN toPhone /\ toPhone'[i] = toPhone[i]
  BY SilentSent
<1>2. /\ \A i \in DOMAIN toHost' : \E j \in DOMAIN toHost : toHost'[i] = toHost[j]
      /\ NoAnswer => NoAnswer'
      /\ \A i, j \in DOMAIN toHost' : Answers(toHost'[i]) /\ Answers(toHost'[j]) => i = j
  <2>1. CASE UNCHANGED toHost
    BY <2>1 DEF OneOutstanding, NoAnswer
  <2>2. CASE \E t : Receive(t)
    BY <2>2, HostTaken, AnswersLeft
  <2> QED
    BY <2>1, <2>2
<1>3. task' = task /\ compl' = compl
  BY DEF phoneVars
<1>4. \A i, j \in DOMAIN toPhone' : Asks(toPhone'[i]) /\ Asks(toPhone'[j]) => i = j
  BY <1>1 DEF OneOutstanding
<1>5. NoMeasuring => NoMeasuring'
  <2>1. \A m : m.type = "PM_REQ" => Asks(m)
    BY DEF Asks
  <2> QED
    BY <1>1, <1>2, <1>3, <2>1 DEF NoMeasuring
<1>6. NoSynchronising => NoSynchronising'
  <2>1. \A m : m.type = "FBSB_REQ" => Asks(m)
    BY DEF Asks
  <2> QED
    BY <1>1, <1>2, <1>3, <2>1 DEF NoSynchronising, NoCompletion
<1>7. (NoWork => NoWork') /\ (NoCompletion => NoCompletion')
  BY <1>3 DEF NoWork, NoCompletion
<1>8. /\ state' = "PM" => state = "PM"
      /\ state' = "SYNC" => state = "SYNC"
      /\ Reading' => Reading
  BY DEF Reading
<1> QED
  BY <1>1, <1>2, <1>4, <1>5, <1>6, <1>7, <1>8 DEF OneOutstanding

(* While catcher reads a cell, and before it has started, nothing is asked. *)
LEMMA NothingAsked ==
  ASSUME OneOutstanding, Reading \/ ~started
  PROVE  Idle /\ NoAnswer
<1>1. NoMeasuring /\ NoSynchronising
  BY DEF OneOutstanding
<1> QED
  BY <1>1 DEF NoMeasuring, NoSynchronising, Idle, NoAsk, NoWork, NoCompletion, NoAnswer, Asks, Answers

(* The batches that carry nothing but a change of the CCCH mode, or a burst. *)
LEMMA SilentBatches ==
  /\ Silent(<<>>) /\ Silent(<<CcchModeReq>>)
  /\ \A ra \in RA : Silent(<<RachReq(ra)>>)
  BY PhoneMsgs DEF Silent, Asks, CcchModeReq, RachReq

LEMMA SilentPair ==
  ASSUME NEW a, NEW b, Silent(a), Silent(b), TypeOK
  PROVE  Silent(a \o b) /\ toPhone \o a \o b = toPhone \o (a \o b)
<1>1. /\ a \o b \in Seq(PhoneMsg)
      /\ \A i \in DOMAIN a : (a \o b)[i] = a[i]
      /\ \A i \in DOMAIN (a \o b) : i \notin DOMAIN a =>
           i - Len(a) \in DOMAIN b /\ (a \o b)[i] = b[i - Len(a)]
  BY Appended, ZenonT(60) DEF Silent
<1>2. \A i \in DOMAIN (a \o b) : ~Asks((a \o b)[i])
  BY <1>1, Zenon DEF Silent
<1>3. toPhone \o a \o b = toPhone \o (a \o b)
  <2>1. toPhone \in Seq(PhoneMsg) /\ a \in Seq(PhoneMsg) /\ b \in Seq(PhoneMsg)
    BY DEF Silent, TypeOK, LinkTypeOK
  <2> QED
    BY <2>1, ConcatAssociative, SMTT(40)
<1> QED
  BY <1>1, <1>2, <1>3 DEF Silent

(* start_rach sends a burst or ends in start_sync. *)
LEMMA StartRachAsks ==
  ASSUME TypeOK, OneOutstanding, Reading, started, started' = started,
         (\E t : Receive(t)) \/ UNCHANGED toHost, UNCHANGED phoneVars,
         NEW s, NEW n, NEW out \in {<<>>, <<CcchModeReq>>}, StartRach(s, n, out)
  PROVE  OneOutstanding'
<1>1. Idle /\ NoAnswer' /\ Silent(out)
  BY NothingAsked, AnswersLeft, SilentBatches DEF NoAnswer
<1>2. CASE SendBurst(s, n, out)
  <2>1. PICK cr \in RA : toPhone' = toPhone \o out \o <<RachReq(cr)>>
    BY <1>2 DEF SendBurst
  <2>2. Silent(<<RachReq(cr)>>)
    BY SilentBatches
  <2> DEFINE b == out \o <<RachReq(cr)>>
  <2>3. Silent(b) /\ toPhone' = toPhone \o b
    BY <1>1, <2>1, <2>2, SilentPair
  <2>4. Reading'
    BY <1>2 DEF SendBurst, Reading
  <2> HIDE DEF b
  <2> QED
    BY <2>3, <2>4, Undisturbed
<1>3. CASE StartSync(pm_index, s, out)
  BY <1>1, <1>3, StartSyncAsks
<1> QED
  BY <1>2, <1>3 DEF StartRach

(* Catcher starts with the first reset and measures first. *)
MeasuresFirst == ~started => state = "PM"

(* Every handler of catcher keeps one request outstanding. *)
LEMMA CatcherOutstanding ==
  ASSUME TypeOK, OneOutstanding, MeasuresFirst, CatcherNext, UNCHANGED phoneVars
  PROVE  OneOutstanding' /\ MeasuresFirst'
<1>a. Silent(<<>>) /\ Silent(<<CcchModeReq>>)
  BY SilentBatches
<1>b. toPhone \o <<>> = toPhone
  BY ConcatEmptySeq DEF TypeOK, LinkTypeOK
<1>c. Reading => started
  BY DEF MeasuresFirst, Reading
<1>d. ASSUME NEW index, StartSync(index, sysinfo, <<>>), Idle, NoAnswer', started, started' = started
      PROVE  OneOutstanding' /\ MeasuresFirst'
  BY <1>a, <1>d, StartSyncAsks DEF MeasuresFirst
<1>e. ASSUME (\E t : Receive(t)) \/ UNCHANGED toHost, UNCHANGED toPhone, started' = started,
             state' = state
      PROVE  OneOutstanding' /\ MeasuresFirst'
  BY <1>a, <1>b, <1>e, Undisturbed DEF MeasuresFirst
<1>1. CASE ResetSignal
  <2>1. CASE started
    BY <1>1, <1>e, <2>1, Zenon DEF ResetSignal, hostVars
  <2>2. CASE ~started
    <3>1. Idle /\ NoAnswer'
      BY <1>1, <2>2, NothingAsked, AnswersLeft DEF ResetSignal
    <3> DEFINE q == PmReq(Bands[1][1], Bands[1][2])
    <3>2. q \in PhoneMsg /\ q.type = "PM_REQ"
      BY PhoneMsgs, BandFacts DEF PmReq
    <3>3. toPhone' = toPhone \o <<ResetReq, q>> /\ state' = "PM" /\ started'
      BY <1>1, <2>2, Zenon DEF ResetSignal, PmRequests
    <3> HIDE DEF q
    <3> QED
      BY <1>a, <1>b, <3>1, <3>2, <3>3, AskedOnce DEF MeasuresFirst
  <2> QED
    BY <2>1, <2>2
<1>2. CASE PmResult
  BY <1>2, <1>e DEF PmResult
<1>3. CASE PmFinished
  <2>1. Idle /\ NoAnswer' /\ started' = started
    BY <1>3, AnswersLeft DEF PmFinished
  <2>2. started
    BY <1>3, HostTaken DEF PmFinished, OneOutstanding, NoMeasuring
  <2>3. PICK row \in Rows(NextIndex) :
          \/ /\ row # End
             /\ state' = "PM"
             /\ toPhone' = toPhone \o PmRequests(row)
          \/ StartSync(NextIndex, sysinfo, <<>>)
    BY <1>3 DEF PmFinished
  <2>4. CASE row # End /\ state' = "PM" /\ toPhone' = toPhone \o PmRequests(row)
    <3> DEFINE q == PmReq(row[1], row[2])
    <3>1. NextIndex \in Nat
      BY BandFacts DEF NextIndex, TypeOK, CatcherTypeOK
    <3>2. q \in PhoneMsg /\ q.type = "PM_REQ"
      BY <2>4, <3>1, RowIsBand, PhoneMsgs DEF PmReq
    <3>3. toPhone' = toPhone \o <<ResetReq, q>>
      BY <2>4 DEF PmRequests
    <3> HIDE DEF q
    <3> QED
      BY <1>a, <1>b, <2>1, <2>2, <2>4, <3>2, <3>3, AskedOnce DEF MeasuresFirst
  <2>5. CASE StartSync(NextIndex, sysinfo, <<>>)
    BY <1>d, <2>1, <2>2, <2>5
  <2> QED
    BY <2>3, <2>4, <2>5
<1>4. CASE SyncResult
  <2>1. Idle /\ NoAnswer' /\ started' = started
    BY <1>4, AnswersLeft DEF SyncResult
  <2>2. started
    BY <1>4, HostTaken DEF SyncResult, OneOutstanding, NoSynchronising
  <2>3. CASE Head(toHost).ok
    <3>1. state' = "READ" /\ toPhone' = toPhone
      BY <1>4, <2>3, Zenon DEF SyncResult
    <3>2. NoAsk' /\ NoWork' /\ NoCompletion'
      BY <2>1, <3>1 DEF Idle, NoAsk, NoWork, NoCompletion, phoneVars
    <3> QED
      BY <2>1, <2>2, <3>1, <3>2
      DEF MeasuresFirst, OneOutstanding, NoAsk, NoWork, NoCompletion, NoAnswer,
          NoMeasuring, NoSynchronising, Asks, Answers, Reading
  <2>4. CASE ~Head(toHost).ok
    <3>1. StartSync(pm_index, sysinfo, <<>>)
      BY <1>4, <2>4, Zenon DEF SyncResult
    <3> QED
      BY <1>d, <2>1, <2>2, <3>1
  <2> QED
    BY <2>3, <2>4
<1>5. CASE Bcch
  <2> DEFINE m == Head(toHost).msg
             s == [sysinfo EXCEPT !.si = Store(@, m)]
             out == IF m.si = "SI3" THEN <<CcchModeReq>> ELSE <<>>
  <2>1. (\E t : Receive(t)) /\ started' = started
    BY <1>5 DEF Bcch
  <2>2. \/ UNCHANGED <<state, toPhone>>
        \/ Reading /\ NewSysinfo(s, out)
    BY <1>5 DEF Bcch
  <2>3. out \in {<<>>, <<CcchModeReq>>}
    OBVIOUS
  <2> HIDE DEF m, s, out
  <2>4. CASE UNCHANGED <<state, toPhone>>
    BY <1>e, <2>1, <2>4
  <2>5. CASE Reading /\ StartRach(s, 0, out)
    BY <1>c, <2>1, <2>3, <2>5, StartRachAsks DEF MeasuresFirst
  <2>6. CASE UNCHANGED state /\ toPhone' = toPhone \o out
    BY <1>a, <2>1, <2>3, <2>6, Undisturbed DEF MeasuresFirst
  <2> QED
    BY <2>2, <2>4, <2>5, <2>6 DEF NewSysinfo
<1>6. CASE ImmediateAssignment
  <2>1. (\E t : Receive(t)) /\ started' = started
    BY <1>6 DEF ImmediateAssignment
  <2>2. CASE Accepts(Head(toHost).refs)
    <3>1. StartSync(pm_index, sysinfo, <<>>)
      BY <1>6, <2>2, Zenon DEF ImmediateAssignment
    <3>2. Reading
      BY <2>2 DEF Accepts, Reading
    <3> QED
      BY <1>c, <1>d, <2>1, <3>1, <3>2, NothingAsked, AnswersLeft
  <2>3. CASE ~Accepts(Head(toHost).refs)
    BY <1>6, <1>e, <2>1, <2>3 DEF ImmediateAssignment
  <2> QED
    BY <2>2, <2>3
<1>7. CASE ChanConf
  BY <1>7, <1>e DEF ChanConf
<1>8. CASE CcchModeConfirmed
  BY <1>8, <1>e DEF CcchModeConfirmed, hostVars
<1>9. CASE ReadTimeout
  <2>1. Reading /\ toHost' = toHost /\ started' = started /\ StartSync(pm_index, sysinfo, <<>>)
    BY <1>9 DEF ReadTimeout, Reading
  <2>2. Idle /\ NoAnswer'
    BY <2>1, NothingAsked DEF NoAnswer
  <2> QED
    BY <1>c, <1>d, <2>1, <2>2
<1>10. CASE RachTimeout
  <2>1. /\ Reading /\ toHost' = toHost /\ started' = started
        /\ StartRach(sysinfo, rach_count + 1, <<>>)
    BY <1>10 DEF RachTimeout, Reading
  <2> QED
    BY <1>c, <2>1, StartRachAsks DEF MeasuresFirst
<1>11. CASE IdleTimeout
  BY <1>11, <1>e DEF IdleTimeout, link
<1> QED
  BY <1>1, <1>2, <1>3, <1>4, <1>5, <1>6, <1>7, <1>8, <1>9, <1>10, <1>11
  DEF CatcherNext, Receipt, Timeout

-----------------------------------------------------------------------------
(* The phone's side. *)

(* A request the phone takes was the only one that asks, if it asks. *)
LEMMA AskTaken ==
  ASSUME TypeOK, OneOutstanding, NEW t, Take(t)
  PROVE  /\ NoAsk => NoAsk'
         /\ t \in {"PM_REQ", "FBSB_REQ"} => NoAsk' /\ NoWork /\ NoCompletion /\ NoAnswer
         /\ \A i, j \in DOMAIN toPhone' : Asks(toPhone'[i]) /\ Asks(toPhone'[j]) => i = j
         /\ \A i \in DOMAIN toPhone' : \E j \in DOMAIN toPhone : toPhone'[i] = toPhone[j]
<1>1. /\ 1 \in DOMAIN toPhone /\ toPhone[1].type = t
      /\ \A i \in DOMAIN toPhone' : i \in Nat /\ i + 1 \in DOMAIN toPhone /\ toPhone'[i] = toPhone[i + 1]
  BY PhoneTaken
<1>2. \A i, j \in DOMAIN toPhone : Asks(toPhone[i]) /\ Asks(toPhone[j]) => i = j
  BY DEF OneOutstanding
<1>3. NoAsk => NoAsk'
  BY <1>1 DEF NoAsk
<1>4. \A i, j \in DOMAIN toPhone' : Asks(toPhone'[i]) /\ Asks(toPhone'[j]) => i = j
  <2> SUFFICES ASSUME NEW i \in DOMAIN toPhone', NEW j \in DOMAIN toPhone',
                      Asks(toPhone'[i]), Asks(toPhone'[j])
               PROVE  i = j
    OBVIOUS
  <2>1. i + 1 = j + 1
    BY <1>1, <1>2, Zenon
  <2> QED
    BY <1>1, <2>1
<1>5. ASSUME t \in {"PM_REQ", "FBSB_REQ"}
      PROVE  NoAsk' /\ NoWork /\ NoCompletion /\ NoAnswer
  <2>1. Asks(toPhone[1])
    BY <1>1, <1>5 DEF Asks
  <2>2. ~NoAsk
    BY <1>1, <2>1 DEF NoAsk
  <2>3. NoWork /\ NoCompletion /\ NoAnswer
    BY <2>2 DEF OneOutstanding
  <2>4. ASSUME NEW i \in DOMAIN toPhone', Asks(toPhone'[i]) PROVE FALSE
    <3>1. i + 1 = 1 /\ i \in DOMAIN toPhone' /\ i \in Nat
      BY <1>1, <1>2, <2>1, <2>4, Zenon
    <3>2. \A n \in DOMAIN toPhone' : n >= 1
      BY HeadTailProperties, PhoneQueue DEF TypeOK
    <3> QED
      BY <3>1, <3>2
  <2> QED
    BY <2>3, <2>4 DEF NoAsk
<1> QED
  BY <1>1, <1>3, <1>4, <1>5

(* What the phone appends to the link: nothing that answers, or one answer. *)
LEMMA QuietReply ==
  ASSUME TypeOK, NEW out \in Seq(HostMsg), \A i \in DOMAIN out : ~Answers(out[i]), Send(out)
  PROVE  /\ NoAnswer => NoAnswer'
         /\ \A i \in DOMAIN toHost' : Answers(toHost'[i]) =>
              i \in DOMAIN toHost /\ toHost'[i] = toHost[i]
  BY Appended DEF TypeOK, LinkTypeOK, NoAnswer, Send

LEMMA OneReply ==
  ASSUME TypeOK, NoAnswer, NEW out \in Seq(HostMsg), \A i \in DOMAIN out : ~Answers(out[i]),
         NEW a \in HostMsg, Send(out \o <<a>>)
  PROVE  /\ \A i \in DOMAIN toHost' : Answers(toHost'[i]) => toHost'[i] = a
         /\ \A i, j \in DOMAIN toHost' : Answers(toHost'[i]) /\ Answers(toHost'[j]) => i = j
<1> DEFINE p == toHost \o out
           b == <<a>>
<1>1. p \in Seq(HostMsg) /\ \A i \in DOMAIN p : ~Answers(p[i])
  <2>1. toHost \in Seq(HostMsg)
    BY DEF TypeOK, LinkTypeOK
  <2>2. /\ p \in Seq(HostMsg)
        /\ \A i \in DOMAIN toHost : p[i] = toHost[i]
        /\ \A i \in DOMAIN p : i \notin DOMAIN toHost =>
             i - Len(toHost) \in DOMAIN out /\ p[i] = out[i - Len(toHost)]
    BY <2>1, Appended, ZenonT(60)
  <2> HIDE DEF p
  <2> QED
    BY <2>2, Zenon DEF NoAnswer
<1>2. \A i \in DOMAIN b : i = 1 /\ b[i] = a
  OBVIOUS
<1>b. b \in Seq(HostMsg)
  OBVIOUS
<1>3. toHost' = p \o b
  <2>1. toHost \in Seq(HostMsg)
    BY DEF TypeOK, LinkTypeOK
  <2>2. toHost' = toHost \o (out \o b)
    BY DEF Send
  <2> HIDE DEF b
  <2>3. (toHost \o out) \o b = toHost \o (out \o b)
    BY <1>b, <2>1, ConcatAssociative
  <2> QED
    BY <2>2, <2>3
<1> HIDE DEF p, b
<1>4. /\ p \o b \in Seq(HostMsg)
      /\ \A i \in DOMAIN p : (p \o b)[i] = p[i]
      /\ \A i \in DOMAIN (p \o b) : i \notin DOMAIN p =>
           i - Len(p) \in DOMAIN b /\ (p \o b)[i] = b[i - Len(p)]
  <2>1. p \in Seq(HostMsg)
    BY <1>1
  <2> QED
    BY <1>b, <2>1, Appended, ZenonT(60)
<1>5. Len(p) \in Nat /\ \A i \in DOMAIN (p \o b) : i \in Nat
  BY <1>1, <1>4
<1>6. \A i \in DOMAIN toHost' : Answers(toHost'[i]) => i - Len(p) = 1 /\ toHost'[i] = a
  <2> SUFFICES ASSUME NEW i \in DOMAIN (p \o b), Answers((p \o b)[i])
               PROVE  i - Len(p) = 1 /\ (p \o b)[i] = a
    BY <1>3
  <2>1. i \notin DOMAIN p
    BY <1>1, <1>4, Zenon
  <2> QED
    BY <1>2, <1>4, <2>1, Zenon
<1>7. Len(p) \in Nat /\ \A i \in DOMAIN toHost' : i \in Nat
  BY <1>3, <1>5
<1> QED
  BY <1>6, <1>7

(* The phone has just turned a request into work, or work into a completion, *)
(* or a completion into an answer, or dropped it: in each case at most one   *)
(* of the four remains, and it is of the kind it was.                        *)
LEMMA PhoneKeepsOne ==
  ASSUME OneOutstanding, UNCHANGED hostVars,
         NoMeasuring => NoMeasuring', NoSynchronising => NoSynchronising',
         \A i, j \in DOMAIN toPhone' : Asks(toPhone'[i]) /\ Asks(toPhone'[j]) => i = j,
         \A i, j \in DOMAIN toHost' : Answers(toHost'[i]) /\ Answers(toHost'[j]) => i = j,
         NoAsk' \/ (NoWork' /\ NoCompletion' /\ NoAnswer'),
         NoWork' \/ (NoCompletion' /\ NoAnswer'),
         NoCompletion' \/ NoAnswer'
  PROVE  OneOutstanding'
<1>1. state' = state /\ started' = started /\ (Reading' <=> Reading)
  BY DEF hostVars, Reading
<1> QED
  BY <1>1 DEF OneOutstanding

(* Every step of the phone keeps one request outstanding. *)
LEMMA Layer1Outstanding ==
  ASSUME TypeOK, OneOutstanding, Layer1Next, UNCHANGED hostVars
  PROVE  OneOutstanding'
<1> USE DEF phonePm, phoneRach, phoneVars, link
<1>a. /\ \A i, j \in DOMAIN toPhone : Asks(toPhone[i]) /\ Asks(toPhone[j]) => i = j
      /\ \A i, j \in DOMAIN toHost : Answers(toHost[i]) /\ Answers(toHost[j]) => i = j
      /\ NoAsk \/ (NoWork /\ NoCompletion /\ NoAnswer)
      /\ NoWork \/ (NoCompletion /\ NoAnswer)
      /\ NoCompletion \/ NoAnswer
  BY DEF OneOutstanding
<1>b. ASSUME UNCHANGED toPhone
      PROVE  /\ NoAsk' <=> NoAsk
             /\ \A i, j \in DOMAIN toPhone' : Asks(toPhone'[i]) /\ Asks(toPhone'[j]) => i = j
             /\ \A i \in DOMAIN toPhone' : \E j \in DOMAIN toPhone : toPhone'[i] = toPhone[j]
  BY <1>a, <1>b DEF NoAsk
<1>c. ASSUME UNCHANGED toHost \/
             \E out \in Seq(HostMsg) : Send(out) /\ \A i \in DOMAIN out : ~Answers(out[i])
      PROVE  /\ NoAnswer => NoAnswer'
             /\ \A i, j \in DOMAIN toHost' : Answers(toHost'[i]) /\ Answers(toHost'[j]) => i = j
             /\ \A i \in DOMAIN toHost' : Answers(toHost'[i]) =>
                  \E j \in DOMAIN toHost : toHost'[i] = toHost[j]
  <2>1. CASE UNCHANGED toHost
    BY <1>a, <2>1 DEF NoAnswer
  <2>2. CASE \E out \in Seq(HostMsg) : Send(out) /\ \A i \in DOMAIN out : ~Answers(out[i])
    BY <1>a, <2>2, QuietReply
  <2> QED
    BY <1>c, <2>1, <2>2
(* A step that starts no work, completes nothing and answers nothing. *)
<1>d. ASSUME /\ NoAsk => NoAsk'
             /\ \A i, j \in DOMAIN toPhone' : Asks(toPhone'[i]) /\ Asks(toPhone'[j]) => i = j
             /\ \A i \in DOMAIN toPhone' : \E j \in DOMAIN toPhone : toPhone'[i] = toPhone[j],
             task' = task \/ task' \notin {"pm", "fbsb"},
             "FB" \in compl' => "FB" \in compl,
             UNCHANGED toHost \/
             \E out \in Seq(HostMsg) : Send(out) /\ \A i \in DOMAIN out : ~Answers(out[i])
      PROVE  OneOutstanding'
  <2>1. (NoWork => NoWork') /\ (NoCompletion => NoCompletion')
    BY <1>d DEF NoWork, NoCompletion
  <2>2. NoMeasuring => NoMeasuring'
    BY <1>c, <1>d DEF NoMeasuring, Answers
  <2>3. NoSynchronising => NoSynchronising'
    BY <1>c, <1>d DEF NoSynchronising, NoCompletion, Answers
  <2> QED
    BY <1>a, <1>c, <1>d, <2>1, <2>2, <2>3, PhoneKeepsOne
<1>e. \A m \in HostMsg : ~Answers(m) =>
        <<m>> \in Seq(HostMsg) /\ \A i \in DOMAIN <<m>> : ~Answers(<<m>>[i])
  OBVIOUS
<1>1. CASE ResetRequest
  <2>1. Send(<<Reset>>) /\ Reset \in HostMsg /\ ~Answers(Reset)
    BY <1>1, HostMsgs DEF ResetRequest, Reset, Answers
  <2>2. task' = "idle" /\ compl' = compl /\ \E t : Take(t)
    BY <1>1 DEF ResetRequest, ResetSchedulers
  <2> QED
    BY <1>d, <1>e, <2>1, <2>2, AskTaken
<1>2. CASE PmRequest
  <2>1. NoAsk' /\ NoWork /\ NoCompletion /\ NoAnswer
    BY <1>2, AskTaken DEF PmRequest
  <2>2. task' = "pm" /\ compl' = compl /\ toHost' = toHost
    BY <1>2 DEF PmRequest
  <2>3. state # "SYNC" /\ ~Reading /\ started
    <3>1. toPhone[1].type = "PM_REQ" /\ 1 \in DOMAIN toPhone
      BY <1>2, PhoneTaken DEF PmRequest
    <3> QED
      BY <3>1 DEF OneOutstanding, NoMeasuring
  <2>4. state' = state /\ started' = started
    BY DEF hostVars
  <2> QED
    BY <2>1, <2>2, <2>3, <2>4
    DEF OneOutstanding, NoMeasuring, NoSynchronising, NoAsk, NoWork, NoCompletion, NoAnswer,
        Asks, Answers, Reading
<1>3. CASE FbsbRequest
  <2>1. NoAsk' /\ NoWork /\ NoCompletion /\ NoAnswer
    BY <1>3, AskTaken DEF FbsbRequest
  <2>2. task' = "fbsb" /\ compl' = compl /\ toHost' = toHost
    BY <1>3 DEF FbsbRequest, ResetSchedulers
  <2>3. state # "PM" /\ ~Reading /\ started
    <3>1. toPhone[1].type = "FBSB_REQ" /\ 1 \in DOMAIN toPhone
      BY <1>3, PhoneTaken DEF FbsbRequest
    <3> QED
      BY <3>1 DEF OneOutstanding, NoSynchronising
  <2>4. state' = state /\ started' = started
    BY DEF hostVars
  <2> QED
    BY <2>1, <2>2, <2>3, <2>4
    DEF OneOutstanding, NoMeasuring, NoSynchronising, NoAsk, NoWork, NoCompletion, NoAnswer,
        Asks, Answers, Reading
<1>4. CASE CcchModeRequest
  <2>1. Send(<<CcchModeConf>>) /\ CcchModeConf \in HostMsg /\ ~Answers(CcchModeConf)
    BY <1>4, HostMsgs DEF CcchModeRequest, CcchModeConf, Answers
  <2>2. task' = task /\ compl' = compl /\ \E t : Take(t)
    BY <1>4 DEF CcchModeRequest
  <2> QED
    BY <1>d, <1>e, <2>1, <2>2, AskTaken
<1>5. CASE RachRequest
  <2>1. task' = task /\ compl' = compl /\ toHost' = toHost /\ \E t : Take(t)
    BY <1>5 DEF RachRequest
  <2> QED
    BY <1>d, <2>1, AskTaken
<1>6. CASE MeasureNext
  <2>1. PICK lev \in Levels :
          LET full  == Len(pmMsg) = PmBatch
              msg   == (IF full THEN <<>> ELSE pmMsg) \o <<PmRes(pmNext, lev)>>
              flush == IF full THEN pmMsg ELSE <<>>
          IN \/ Send(flush) /\ task' = task
             \/ Send(flush \o msg \o <<PmDone>>) /\ task' = "idle"
    BY <1>6 DEF MeasureNext
  <2> DEFINE full  == Len(pmMsg) = PmBatch
             msg   == (IF full THEN <<>> ELSE pmMsg) \o <<PmRes(pmNext, lev)>>
             flush == IF full THEN pmMsg ELSE <<>>
  <2>2. pmMsg \in Seq(PmResults) /\ <<PmRes(pmNext, lev)>> \in Seq(PmResults)
    <3>1. PICK i \in DOMAIN Bands : pmNext \in Range2Set(Bands[i])
      BY <1>6 DEF MeasureNext, TypeOK, Layer1TypeOK
    <3>2. pmNext \in Arfcns
      BY <3>1, BandFacts
    <3>3. PmRes(pmNext, lev) \in PmResults
      BY <3>2, HostMsgs
    <3> QED
      BY <3>3 DEF TypeOK, Layer1TypeOK
  <2>3. flush \in Seq(PmResults) /\ msg \in Seq(PmResults)
    BY <2>2, ConcatProperties
  <2>4. \/ Send(flush) /\ task' = task
        \/ Send(flush \o msg \o <<PmDone>>) /\ task' = "idle"
    BY <2>1
  <2> HIDE DEF full, msg, flush
  <2>5. \A out \in Seq(PmResults) :
          out \in Seq(HostMsg) /\ \A i \in DOMAIN out : ~Answers(out[i])
    <3> SUFFICES ASSUME NEW out \in Seq(PmResults)
                 PROVE  out \in Seq(HostMsg) /\ \A i \in DOMAIN out : ~Answers(out[i])
      OBVIOUS
    <3>1. out \in Seq(HostMsg)
      BY HostMsgs, SeqMonotonic
    <3>2. \A i \in DOMAIN out : out[i] \in PmResults
      OBVIOUS
    <3>3. \A m \in PmResults : ~Answers(m)
      BY DEF PmResults, Answers
    <3> QED
      BY <3>1, <3>2, <3>3
  <2>6. UNCHANGED <<toPhone, compl>>
    BY <1>6 DEF MeasureNext
  <2>7. CASE Send(flush) /\ task' = task
    BY <1>b, <1>d, <2>3, <2>5, <2>6, <2>7
  <2>8. CASE Send(flush \o msg \o <<PmDone>>) /\ task' = "idle"
    <3>1. flush \o msg \in Seq(HostMsg) /\ \A i \in DOMAIN (flush \o msg) : ~Answers((flush \o msg)[i])
      BY <2>3, <2>5, ConcatProperties
    <3>2. ~NoWork /\ ~NoMeasuring
      BY <1>6 DEF MeasureNext, NoWork, NoMeasuring
    <3>3. NoAsk /\ NoCompletion /\ NoAnswer
      BY <1>a, <3>2
    <3> DEFINE out == flush \o msg
    <3> HIDE DEF out
    <3>4. /\ \A i \in DOMAIN toHost' : Answers(toHost'[i]) => toHost'[i] = PmDone
          /\ \A i, j \in DOMAIN toHost' : Answers(toHost'[i]) /\ Answers(toHost'[j]) => i = j
      BY <2>8, <3>1, <3>3, OneReply, HostMsgs DEF out
    <3>5. NoAsk' /\ NoWork' /\ NoCompletion'
      BY <1>b, <2>6, <2>8, <3>3 DEF NoWork, NoCompletion
    <3>6. NoSynchronising => NoSynchronising'
      BY <1>b, <2>8, <3>4, <3>5 DEF NoSynchronising, NoAsk, Asks, Answers, PmDone
    <3> QED
      BY <1>b, <2>6, <3>2, <3>4, <3>5, <3>6, PhoneKeepsOne
  <2> QED
    BY <2>4, <2>7, <2>8
<1>7. CASE Synchronise \/ GiveUpSync
  <2>1. /\ task = "fbsb" /\ task' \notin {"pm", "fbsb"} /\ UNCHANGED <<toPhone, toHost>>
    BY <1>7 DEF Synchronise, GiveUpSync
  <2>2. NoAsk /\ NoAnswer /\ ~NoSynchronising
    BY <1>a, <2>1 DEF NoWork, NoSynchronising
  <2>3. NoAsk' /\ NoWork' /\ NoAnswer'
    BY <1>b, <1>c, <2>1, <2>2 DEF NoWork
  <2>4. NoMeasuring => NoMeasuring'
    BY <1>b, <1>c, <2>1, <2>3 DEF NoMeasuring
  <2> QED
    BY <1>b, <1>c, <2>1, <2>2, <2>3, <2>4, PhoneKeepsOne
<1>8. CASE TransmitRach
  <2>1. UNCHANGED <<toPhone, toHost, task>> /\ compl' = compl \cup {"RACH"}
    BY <1>8 DEF TransmitRach
  <2> QED
    BY <1>b, <1>d, <2>1
<1>9. CASE HearBcch
  <2>1. PICK m \in Air[tuned] : Send(<<BcchInd(m)>>)
    BY <1>9 DEF HearBcch
  <2>2. BcchInd(m) \in HostMsg /\ ~Answers(BcchInd(m))
    BY <1>9, LinkAssumption, HostMsgs
    DEF HearBcch, Listening, TypeOK, Layer1TypeOK, Answers, BcchInd
  <2>3. UNCHANGED <<toPhone, task, compl>>
    BY <1>9 DEF HearBcch
  <2> QED
    BY <1>b, <1>d, <1>e, <2>1, <2>2, <2>3
<1>10. CASE HearAgch
  <2>1. PICK refs \in SUBSET [ra : RA, fn : 0 .. fn] : Send(<<AgchInd(refs)>>)
    BY <1>10 DEF HearAgch
  <2>2. AgchInd(refs) \in HostMsg /\ ~Answers(AgchInd(refs))
    BY HostMsgs, Layer1Assumption DEF Ref, TypeOK, Layer1TypeOK, Answers, AgchInd
  <2>3. UNCHANGED <<toPhone, task, compl>>
    BY <1>10 DEF HearAgch
  <2> QED
    BY <1>b, <1>d, <1>e, <2>1, <2>2, <2>3
<1>11. CASE SyncCompletion
  <2> DEFINE a == FbsbConf(synced)
  <2>1. a \in HostMsg /\ a.type = "FBSB_CONF" /\ ~NoCompletion
    BY <1>11, HostMsgs
    DEF SyncCompletion, TypeOK, Layer1TypeOK, FbsbConf, NoCompletion
  <2>2. NoAsk /\ NoWork /\ NoAnswer /\ ~NoSynchronising
    BY <1>a, <2>1 DEF NoSynchronising
  <2>3. <<>> \in Seq(HostMsg) /\ \A i \in DOMAIN <<>> : ~Answers(<<>>[i])
    OBVIOUS
  <2>4. Send(<<>> \o <<a>>)
    BY <1>11 DEF SyncCompletion
  <2> HIDE DEF a
  <2>5. /\ \A i \in DOMAIN toHost' : Answers(toHost'[i]) => toHost'[i] = a
        /\ \A i, j \in DOMAIN toHost' : Answers(toHost'[i]) /\ Answers(toHost'[j]) => i = j
    BY <2>1, <2>2, <2>3, <2>4, OneReply, Zenon
  <2>6. NoAsk' /\ NoWork' /\ NoCompletion' /\ UNCHANGED toPhone
    BY <1>11, <1>b, <2>2 DEF SyncCompletion, NoWork, NoCompletion
  <2>7. NoMeasuring => NoMeasuring'
    BY <2>1, <2>5, <2>6 DEF NoMeasuring, NoAsk, NoWork, Asks, Answers
  <2> QED
    BY <1>b, <2>2, <2>5, <2>6, <2>7, PhoneKeepsOne
<1>12. CASE RachCompletion
  <2>1. RachConf(lastRach) \in HostMsg /\ ~Answers(RachConf(lastRach))
    BY HostMsgs DEF TypeOK, Layer1TypeOK, Answers, RachConf
  <2>2. UNCHANGED <<toPhone, task>> /\ compl' \subseteq compl /\ Send(<<RachConf(lastRach)>>)
    BY <1>12 DEF RachCompletion
  <2> QED
    BY <1>b, <1>d, <1>e, <2>1, <2>2
<1>13. CASE Boot
  <2>1. Send(<<Reset>>) /\ Reset \in HostMsg /\ ~Answers(Reset)
    BY <1>13, HostMsgs DEF Boot, Reset, Answers
  <2>2. task' = "idle" /\ compl' = {} /\ toPhone' = <<>>
    BY <1>13 DEF Boot
  <2>3. \A i \in DOMAIN toPhone' : FALSE
    BY <2>2
  <2>4. NoAsk'
    BY <2>3 DEF NoAsk
  <2> QED
    BY <1>d, <1>e, <2>1, <2>2, <2>3, <2>4
<1> QED
  BY <1>1, <1>2, <1>3, <1>4, <1>5, <1>6, <1>7, <1>8, <1>9, <1>10, <1>11, <1>12, <1>13
  DEF Layer1Next, Request, Radio, Completion, Cell

(* What both theorems below rest on. *)
RequestInv == TypeOK /\ OneOutstanding /\ MeasuresFirst

LEMMA RequestInvariant ==
  ASSUME ~Leftover
  PROVE  Spec => []RequestInv
<1>1. Init => OneOutstanding /\ MeasuresFirst
  BY DEF Init, CatcherInit, Layer1Init, OneOutstanding, MeasuresFirst, NoMeasuring,
         NoSynchronising, NoAsk, NoWork, NoCompletion, NoAnswer, Asks, Reading, ResetReq
<1>2. TypeOK /\ OneOutstanding /\ MeasuresFirst /\ [Next]_vars => (OneOutstanding /\ MeasuresFirst)'
  <2> SUFFICES ASSUME TypeOK, OneOutstanding, MeasuresFirst, [Next]_vars
               PROVE  OneOutstanding' /\ MeasuresFirst'
    OBVIOUS
  <2>1. CASE CatcherNext /\ UNCHANGED phoneVars
    BY <2>1, CatcherOutstanding
  <2>2. CASE Layer1Next /\ UNCHANGED hostVars
    BY <2>2, Layer1Outstanding DEF MeasuresFirst, hostVars
  <2>3. CASE UNCHANGED vars
    BY <2>3 DEF vars, link, hostVars, phoneVars, OneOutstanding, MeasuresFirst, NoMeasuring,
                NoSynchronising, NoAsk, NoWork, NoCompletion, NoAnswer, Reading
  <2> QED
    BY <2>1, <2>2, <2>3 DEF Next
<1> QED
  BY <1>1, <1>2, TypeCorrect, PTL DEF Spec, RequestInv

(***************************************************************************)
(* Unless an earlier client left the phone busy, at most one request is    *)
(* outstanding, of the kind catcher waits for (OneOutstanding), over any   *)
(* number of resets and reboots of the phone.                              *)
(***************************************************************************)
THEOREM AtMostOneOutstanding ==
  ASSUME ~Leftover
  PROVE  Spec => []OneOutstanding
<1>1. RequestInv => OneOutstanding
  BY DEF RequestInv
<1> QED
  BY <1>1, RequestInvariant, PTL

-----------------------------------------------------------------------------
(* The timer. *)

(* start_rach leaves the timer pending exactly when it leaves the state RACH. *)
LEMMA StartRachTimer ==
  ASSUME NEW s, NEW n, NEW out, StartRach(s, n, out)
  PROVE  timer' = (state' = "RACH") /\ state' \in {"PM", "SYNC", "RACH"}
<1>1. CASE SendBurst(s, n, out)
  BY <1>1 DEF SendBurst
<1>2. CASE timer' = FALSE /\ StartSync(pm_index, s, out)
  BY <1>2, StartSyncState
<1> QED
  BY <1>1, <1>2 DEF StartRach

(* Every handler of catcher leaves the timer as TimerArmed says. *)
LEMMA TimerStep ==
  ASSUME RequestInv, TimerArmed, [Next]_vars
  PROVE  TimerArmed'
<1> USE DEF RequestInv, TimerArmed, Reading
<1>1. CASE UNCHANGED hostVars
  BY <1>1, Zenon DEF hostVars
<1>2. CASE ResetSignal
  <2>1. CASE started
    BY <1>2, <2>1, Zenon DEF ResetSignal, hostVars
  <2>2. CASE ~started
    <3>1. state = "PM" /\ state' = "PM" /\ timer' = timer
      BY <1>2, <2>2, Zenon DEF ResetSignal, MeasuresFirst
    <3> QED
      BY <3>1
  <2> QED
    BY <2>1, <2>2
<1>3. CASE PmResult \/ ChanConf \/ CcchModeConfirmed
  BY <1>3 DEF PmResult, ChanConf, CcchModeConfirmed, hostVars
<1>4. CASE PmFinished
  <2>1. timer' = timer /\ state' \in {"PM", "SYNC"}
    BY <1>4, StartSyncState DEF PmFinished
  <2>2. ~Reading
    BY <1>4, HostTaken DEF PmFinished, OneOutstanding, NoMeasuring
  <2> QED
    BY <2>1, <2>2
<1>5. CASE SyncResult
  <2>1. CASE Head(toHost).ok
    BY <1>5, <2>1 DEF SyncResult
  <2>2. CASE ~Head(toHost).ok
    <3>1. timer' = timer /\ state' \in {"PM", "SYNC"}
      BY <1>5, <2>2, StartSyncState DEF SyncResult
    <3>2. ~Reading
      BY <1>5, HostTaken DEF SyncResult, OneOutstanding, NoSynchronising
    <3> QED
      BY <3>1, <3>2
  <2> QED
    BY <2>1, <2>2
<1>6. CASE Bcch
  <2>1. \/ UNCHANGED <<state, timer>>
        \/ \E s, out : Reading /\ NewSysinfo(s, out)
    BY <1>6 DEF Bcch
  <2>2. ASSUME NEW s, NEW out, Reading, NewSysinfo(s, out) PROVE TimerArmed'
    <3>1. CASE timer' = TRUE /\ UNCHANGED state
      BY <2>2, <3>1
    <3>2. CASE StartRach(s, 0, out)
      BY <3>2, StartRachTimer
    <3> QED
      BY <2>2, <3>1, <3>2 DEF NewSysinfo
  <2> QED
    BY <2>1, <2>2
<1>7. CASE ImmediateAssignment
  <2>1. CASE Accepts(Head(toHost).refs)
    BY <1>7, <2>1, StartSyncState DEF ImmediateAssignment
  <2>2. CASE ~Accepts(Head(toHost).refs)
    BY <1>7, <2>2 DEF ImmediateAssignment
  <2> QED
    BY <2>1, <2>2
<1>8. CASE ReadTimeout
  BY <1>8, StartSyncState DEF ReadTimeout
<1>9. CASE RachTimeout
  BY <1>9, StartRachTimer DEF RachTimeout
<1>10. CASE IdleTimeout
  BY <1>10 DEF IdleTimeout
<1> QED
  BY <1>1, <1>2, <1>3, <1>4, <1>5, <1>6, <1>7, <1>8, <1>9, <1>10
  DEF Next, CatcherNext, Receipt, Timeout, vars

(***************************************************************************)
(* Unless an earlier client left the phone busy, the timer is pending      *)
(* exactly while a cell is read or asked for a channel (TimerArmed), so no *)
(* cell inherits the timer of another.                                     *)
(***************************************************************************)
THEOREM TimerOnlyWhileReading ==
  ASSUME ~Leftover
  PROVE  Spec => []TimerArmed
<1>1. Init => TimerArmed
  BY DEF Init, CatcherInit, TimerArmed, Reading
<1>2. RequestInv /\ TimerArmed /\ [Next]_vars => TimerArmed'
  BY TimerStep
<1> QED
  BY <1>1, <1>2, RequestInvariant, PTL DEF Spec

-----------------------------------------------------------------------------
(* The cell that catcher reads. *)

CellInv == RequestInv /\ TunedCell /\ OwnSysinfo

(* A message that, if it is system information, is that of cell a. *)
OwnOf(m, a) == m.type = "BCCH_IND" => m.msg.arfcn = a

(* TunedCell after a step, in terms of the values after the step. *)
LEMMA TunedCellParts ==
  ASSUME Reading' => Camped' /\ \A i \in DOMAIN toHost' : OwnOf(toHost'[i], sysinfo'.arfcn),
         \A i \in DOMAIN toPhone' : toPhone'[i].type = "FBSB_REQ" => toPhone'[i].arfcn = sysinfo'.arfcn,
         task' = "fbsb" => tuned' = sysinfo'.arfcn,
         NoCompletion' \/ Camped',
         \A i, j \in DOMAIN toHost' : toHost'[i].type = "FBSB_CONF" =>
           Camped' /\ (i < j => OwnOf(toHost'[j], sysinfo'.arfcn))
  PROVE  TunedCell'
  BY DEF TunedCell, Own, OwnOf

-----------------------------------------------------------------------------
(* The handlers of catcher. *)

(* A handler that is done with a cell and asks for the next or for a sweep. *)
LEMMA AskedForCell ==
  ASSUME TypeOK, Idle, NoAnswer', UNCHANGED phoneVars,
         NEW out, Silent(out), NEW q \in PhoneMsg, Asks(q), toPhone' = toPhone \o out \o <<ResetReq, q>>,
         q.type = "FBSB_REQ" => q.arfcn = sysinfo'.arfcn,
         state' \in {"PM", "SYNC"}
  PROVE  TunedCell'
<1>1. \A i \in DOMAIN toPhone' : toPhone'[i].type = "FBSB_REQ" => toPhone'[i].arfcn = sysinfo'.arfcn
  BY OneSent, ZenonT(60) DEF Idle, Asks
<1>2. ~Reading' /\ task' # "fbsb" /\ NoCompletion'
  BY DEF Idle, NoWork, NoCompletion, phoneVars, Reading
<1>3. \A i \in DOMAIN toHost' : toHost'[i].type # "FBSB_CONF"
  BY DEF NoAnswer, Answers
<1> QED
  BY <1>1, <1>2, <1>3 DEF TunedCell

LEMMA StartSyncCell ==
  ASSUME TypeOK, Idle, NoAnswer', UNCHANGED phoneVars,
         NEW index, NEW s, \A m \in s.si : m.arfcn = s.arfcn,
         NEW out, Silent(out), StartSync(index, s, out)
  PROVE  TunedCell' /\ OwnSysinfo'
<1>1. ASSUME NEW a \in Arfcns, TuneTo(a, index, out)
      PROVE  TunedCell' /\ OwnSysinfo'
  <2>1. /\ FbsbReq(a) \in PhoneMsg /\ Asks(FbsbReq(a))
        /\ FbsbReq(a).arfcn = a
    BY PhoneMsgs DEF FbsbReq, Asks
  <2>2. /\ toPhone' = toPhone \o out \o <<ResetReq, FbsbReq(a)>> /\ state' = "SYNC"
        /\ sysinfo' = [arfcn |-> a, si |-> {}]
    BY <1>1 DEF TuneTo
  <2>3. OwnSysinfo' /\ FbsbReq(a).arfcn = sysinfo'.arfcn
    BY <2>1, <2>2 DEF OwnSysinfo
  <2> QED
    BY <2>1, <2>2, <2>3, AskedForCell
<1>2. ASSUME NewSweep(s, out)
      PROVE  TunedCell' /\ OwnSysinfo'
  <2> DEFINE q == PmReq(Bands[1][1], Bands[1][2])
  <2>1. q \in PhoneMsg /\ q.type = "PM_REQ" /\ Asks(q)
    BY PhoneMsgs, BandFacts DEF PmReq, Asks
  <2>2. /\ toPhone' = toPhone \o out \o <<ResetReq, q>> /\ state' = "PM"
        /\ sysinfo' = s
    BY <1>2 DEF NewSweep, PmRequests
  <2> HIDE DEF q
  <2> QED
    BY <2>1, <2>2, AskedForCell DEF OwnSysinfo
<1> QED
  BY <1>1, <1>2 DEF StartSync

(* A handler that stays with the cell. *)
LEMMA StaysWithCell ==
  ASSUME TypeOK, TunedCell, UNCHANGED phoneVars, sysinfo'.arfcn = sysinfo.arfcn,
         (\E t : Receive(t)) \/ UNCHANGED toHost, Reading' => Reading,
         NEW out, Silent(out), toPhone' = toPhone \o out
  PROVE  TunedCell'
<1>1. \A i \in DOMAIN toPhone' : Asks(toPhone'[i]) =>
        i \in DOMAIN toPhone /\ toPhone'[i] = toPhone[i]
  BY SilentSent
<1>2. \A i \in DOMAIN toPhone' : toPhone'[i].type = "FBSB_REQ" => toPhone'[i].arfcn = sysinfo'.arfcn
  BY <1>1 DEF TunedCell, Asks
<1>3. task' = task /\ tuned' = tuned /\ (NoCompletion => NoCompletion') /\ (Camped => Camped')
  BY DEF phoneVars, NoCompletion, Camped
<1>4. /\ Reading => \A i \in DOMAIN toHost : OwnOf(toHost[i], sysinfo.arfcn)
      /\ \A i, j \in DOMAIN toHost : toHost[i].type = "FBSB_CONF" =>
           Camped /\ (i < j => OwnOf(toHost[j], sysinfo.arfcn))
  BY DEF TunedCell, Own, OwnOf
<1>5. /\ \A i \in DOMAIN toHost' : \E n \in DOMAIN toHost : toHost'[i] = toHost[n]
      /\ \A i, j \in DOMAIN toHost' : i < j =>
           \E n, k \in DOMAIN toHost : n < k /\ toHost'[i] = toHost[n] /\ toHost'[j] = toHost[k]
  <2>1. CASE UNCHANGED toHost
    BY <2>1
  <2>2. CASE \E t : Receive(t)
    <3>1. \A i \in DOMAIN toHost' : i \in Nat /\ i + 1 \in DOMAIN toHost /\ toHost'[i] = toHost[i + 1]
      BY <2>2, HostTaken
    <3> QED
      BY <3>1
  <2> QED
    BY <2>1, <2>2
<1>6. Reading' => \A i \in DOMAIN toHost' : OwnOf(toHost'[i], sysinfo'.arfcn)
  BY <1>4, <1>5
<1>7. \A i, j \in DOMAIN toHost' : toHost'[i].type = "FBSB_CONF" =>
        Camped' /\ (i < j => OwnOf(toHost'[j], sysinfo'.arfcn))
  BY <1>3, <1>4, <1>5
<1>8. Reading' => Camped'
  BY <1>3 DEF TunedCell
<1>9. (task' = "fbsb" => tuned' = sysinfo'.arfcn) /\ (NoCompletion' \/ Camped')
  BY <1>3 DEF TunedCell, phoneVars, NoCompletion
<1> QED
  BY <1>2, <1>6, <1>7, <1>8, <1>9, TunedCellParts

(* start_rach with sysinfo s, which is the cell's own. *)
LEMMA StartRachCell ==
  ASSUME CellInv, Reading, (\E t : Receive(t)) \/ UNCHANGED toHost, UNCHANGED phoneVars,
         NEW s, s.arfcn = sysinfo.arfcn, \A m \in s.si : m.arfcn = s.arfcn,
         NEW n, NEW out \in {<<>>, <<CcchModeReq>>}, StartRach(s, n, out)
  PROVE  TunedCell' /\ OwnSysinfo'
<1> USE DEF CellInv, RequestInv
<1>1. Idle /\ NoAnswer' /\ Silent(out)
  BY NothingAsked, AnswersLeft, SilentBatches DEF NoAnswer
<1>2. CASE SendBurst(s, n, out)
  <2>1. PICK cr \in RA : toPhone' = toPhone \o out \o <<RachReq(cr)>>
    BY <1>2 DEF SendBurst
  <2>2. Silent(<<RachReq(cr)>>)
    BY SilentBatches
  <2> DEFINE b == out \o <<RachReq(cr)>>
  <2>3. Silent(b) /\ toPhone' = toPhone \o b
    BY <1>1, <2>1, <2>2, SilentPair
  <2>4. sysinfo' = s
    BY <1>2 DEF SendBurst
  <2> HIDE DEF b
  <2> QED
    BY <2>3, <2>4, StaysWithCell DEF OwnSysinfo
<1>3. CASE StartSync(pm_index, s, out)
  BY <1>1, <1>3, StartSyncCell
<1> QED
  BY <1>2, <1>3 DEF StartRach

(* Every handler of catcher keeps to the cell it reads. *)
LEMMA CatcherCell ==
  ASSUME CellInv, CatcherNext, UNCHANGED phoneVars
  PROVE  TunedCell' /\ OwnSysinfo'
<1> USE DEF CellInv, RequestInv
<1>a. Silent(<<>>) /\ Silent(<<CcchModeReq>>)
  BY SilentBatches
<1>b. toPhone \o <<>> = toPhone
  BY ConcatEmptySeq DEF TypeOK, LinkTypeOK
<1>c. ASSUME NEW index, StartSync(index, sysinfo, <<>>), Idle, NoAnswer'
      PROVE  TunedCell' /\ OwnSysinfo'
  BY <1>a, <1>c, StartSyncCell DEF OwnSysinfo
<1>d. ASSUME (\E t : Receive(t)) \/ UNCHANGED toHost, UNCHANGED toPhone,
             state' = state, sysinfo' = sysinfo
      PROVE  TunedCell' /\ OwnSysinfo'
  BY <1>a, <1>b, <1>d, StaysWithCell DEF OwnSysinfo, Reading
<1>1. CASE ResetSignal
  <2>1. CASE started
    BY <1>1, <1>d, <2>1, Zenon DEF ResetSignal, hostVars
  <2>2. CASE ~started
    <3>1. Idle /\ NoAnswer'
      BY <1>1, <2>2, NothingAsked, AnswersLeft DEF ResetSignal
    <3> DEFINE q == PmReq(Bands[1][1], Bands[1][2])
    <3>2. q \in PhoneMsg /\ q.type = "PM_REQ" /\ Asks(q)
      BY PhoneMsgs, BandFacts DEF PmReq, Asks
    <3>3. toPhone' = toPhone \o <<ResetReq, q>> /\ state' = "PM" /\ sysinfo' = sysinfo
      BY <1>1, <2>2, Zenon DEF ResetSignal, PmRequests
    <3> HIDE DEF q
    <3> QED
      BY <1>a, <1>b, <3>1, <3>2, <3>3, AskedForCell DEF OwnSysinfo
  <2> QED
    BY <2>1, <2>2
<1>2. CASE PmResult
  BY <1>2, <1>d DEF PmResult
<1>3. CASE PmFinished
  <2>1. Idle /\ NoAnswer'
    BY <1>3, AnswersLeft DEF PmFinished
  <2>2. PICK row \in Rows(NextIndex) :
          \/ /\ row # End
             /\ state' = "PM" /\ sysinfo' = sysinfo
             /\ toPhone' = toPhone \o PmRequests(row)
          \/ StartSync(NextIndex, sysinfo, <<>>)
    BY <1>3 DEF PmFinished
  <2>3. CASE /\ row # End
             /\ state' = "PM" /\ sysinfo' = sysinfo
             /\ toPhone' = toPhone \o PmRequests(row)
    <3> DEFINE q == PmReq(row[1], row[2])
    <3>1. NextIndex \in Nat
      BY BandFacts DEF NextIndex, TypeOK, CatcherTypeOK
    <3>2. q \in PhoneMsg /\ q.type = "PM_REQ" /\ Asks(q)
      BY <2>3, <3>1, RowIsBand, PhoneMsgs DEF PmReq, Asks
    <3>3. toPhone' = toPhone \o <<ResetReq, q>>
      BY <2>3 DEF PmRequests
    <3> HIDE DEF q
    <3> QED
      BY <1>a, <1>b, <2>1, <2>3, <3>2, <3>3, AskedForCell DEF OwnSysinfo
  <2>4. CASE StartSync(NextIndex, sysinfo, <<>>)
    BY <1>c, <2>1, <2>4
  <2> QED
    BY <2>2, <2>3, <2>4
<1>4. CASE SyncResult
  <2>1. Idle /\ NoAnswer'
    BY <1>4, AnswersLeft DEF SyncResult
  <2>2. CASE Head(toHost).ok
    <3>1. state' = "READ" /\ toPhone' = toPhone /\ sysinfo' = sysinfo
      BY <1>4, <2>2, Zenon DEF SyncResult, sweep
    <3>2. /\ 1 \in DOMAIN toHost /\ toHost[1].type = "FBSB_CONF"
          /\ \A i \in DOMAIN toHost' :
               i \in Nat /\ i + 1 \in DOMAIN toHost /\ toHost'[i] = toHost[i + 1]
      BY <1>4, HostTaken DEF SyncResult
    <3>3. Camped /\ \A j \in DOMAIN toHost : 1 < j => OwnOf(toHost[j], sysinfo.arfcn)
      BY <3>2 DEF TunedCell, Own, OwnOf
    <3>4. \A i \in DOMAIN toHost' : i >= 1
      BY HostQueue, <1>4 DEF SyncResult, TypeOK
    <3>5. \A i \in DOMAIN toHost' : OwnOf(toHost'[i], sysinfo'.arfcn)
      BY <3>1, <3>2, <3>3, <3>4
    <3>6. Camped' /\ NoCompletion' /\ task' # "fbsb"
      BY <2>1, <3>1, <3>3 DEF Idle, NoWork, NoCompletion, Camped, phoneVars
    <3>7. /\ \A i \in DOMAIN toHost' : toHost'[i].type # "FBSB_CONF"
          /\ \A i \in DOMAIN toPhone' : toPhone'[i].type # "FBSB_REQ"
      BY <2>1, <3>1 DEF NoAnswer, Answers, Idle, NoAsk, Asks
    <3> QED
      BY <3>1, <3>5, <3>6, <3>7, TunedCellParts DEF OwnSysinfo
  <2>3. CASE ~Head(toHost).ok
    <3>1. StartSync(pm_index, sysinfo, <<>>)
      BY <1>4, <2>3, Zenon DEF SyncResult
    <3> QED
      BY <1>c, <2>1, <3>1
  <2> QED
    BY <2>2, <2>3
<1>5. CASE Bcch
  <2> DEFINE m == Head(toHost).msg
             s == [sysinfo EXCEPT !.si = Store(@, m)]
             out == IF m.si = "SI3" THEN <<CcchModeReq>> ELSE <<>>
  <2>1. \E t : Receive(t)
    BY <1>5 DEF Bcch
  <2>2. \/ UNCHANGED <<state, sysinfo, toPhone>>
        \/ Reading /\ NewSysinfo(s, out)
    BY <1>5 DEF Bcch
  <2>3. out \in {<<>>, <<CcchModeReq>>}
    OBVIOUS
  <2>4. Reading => /\ s.arfcn = sysinfo.arfcn
                   /\ \A n \in s.si : n.arfcn = s.arfcn
    <3>1. /\ 1 \in DOMAIN toHost /\ toHost[1] = Head(toHost) /\ toHost[1].type = "BCCH_IND"
      BY <1>5, HostTaken DEF Bcch
    <3>2. Reading => m.arfcn = sysinfo.arfcn
      BY <3>1 DEF TunedCell, Own
    <3>3. s.arfcn = sysinfo.arfcn /\ s.si = Store(sysinfo.si, m)
      BY DEF TypeOK, CatcherTypeOK, Report
    <3> HIDE DEF s, m
    <3> QED
      BY <3>2, <3>3 DEF Store, OwnSysinfo
  <2> HIDE DEF m, s, out
  <2>5. CASE UNCHANGED <<state, sysinfo, toPhone>>
    BY <1>d, <2>1, <2>5
  <2>6. CASE Reading /\ StartRach(s, 0, out)
    BY <2>1, <2>3, <2>4, <2>6, StartRachCell
  <2>7. CASE Reading /\ UNCHANGED state /\ sysinfo' = s /\ toPhone' = toPhone \o out
    BY <1>a, <2>1, <2>3, <2>4, <2>7, StaysWithCell DEF OwnSysinfo
  <2> QED
    BY <2>2, <2>5, <2>6, <2>7 DEF NewSysinfo
<1>6. CASE ImmediateAssignment
  <2>1. \E t : Receive(t)
    BY <1>6 DEF ImmediateAssignment
  <2>2. CASE Accepts(Head(toHost).refs)
    <3>1. StartSync(pm_index, sysinfo, <<>>)
      BY <1>6, <2>2, Zenon DEF ImmediateAssignment
    <3>2. Reading
      BY <2>2 DEF Accepts, Reading
    <3> QED
      BY <1>c, <2>1, <3>1, <3>2, NothingAsked, AnswersLeft
  <2>3. CASE ~Accepts(Head(toHost).refs)
    BY <1>6, <1>d, <2>1, <2>3 DEF ImmediateAssignment
  <2> QED
    BY <2>2, <2>3
<1>7. CASE ChanConf
  BY <1>7, <1>d DEF ChanConf
<1>8. CASE CcchModeConfirmed
  BY <1>8, <1>d DEF CcchModeConfirmed, hostVars
<1>9. CASE ReadTimeout
  <2>1. Reading /\ toHost' = toHost /\ StartSync(pm_index, sysinfo, <<>>)
    BY <1>9 DEF ReadTimeout, Reading
  <2>2. Idle /\ NoAnswer'
    BY <2>1, NothingAsked DEF NoAnswer
  <2> QED
    BY <1>c, <2>1, <2>2
<1>10. CASE RachTimeout
  <2>1. Reading /\ toHost' = toHost /\ StartRach(sysinfo, rach_count + 1, <<>>)
    BY <1>10 DEF RachTimeout, Reading
  <2> QED
    BY <2>1, StartRachCell DEF OwnSysinfo
<1>11. CASE IdleTimeout
  BY <1>11, <1>d DEF IdleTimeout, link
<1> QED
  BY <1>1, <1>2, <1>3, <1>4, <1>5, <1>6, <1>7, <1>8, <1>9, <1>10, <1>11
  DEF CatcherNext, Receipt, Timeout

-----------------------------------------------------------------------------
(* The phone. *)

(* What is appended to the link stands behind what was on it. *)
LEMMA HostSent ==
  ASSUME TypeOK, NEW out \in Seq(HostMsg), Send(out)
  PROVE  /\ \A i \in DOMAIN toHost : i \in DOMAIN toHost' /\ toHost'[i] = toHost[i]
         /\ \A i \in DOMAIN toHost' : i \notin DOMAIN toHost =>
              i - Len(toHost) \in DOMAIN out /\ toHost'[i] = out[i - Len(toHost)]
         /\ \A i, j \in DOMAIN toHost' : i < j /\ j \in DOMAIN toHost => i \in DOMAIN toHost
<1>1. toHost \in Seq(HostMsg)
  BY DEF TypeOK, LinkTypeOK
<1>2. /\ toHost \o out \in Seq(HostMsg)
      /\ \A i \in DOMAIN toHost : i \in DOMAIN (toHost \o out) /\ (toHost \o out)[i] = toHost[i]
      /\ \A i \in DOMAIN (toHost \o out) : i \notin DOMAIN toHost =>
           i - Len(toHost) \in DOMAIN out /\ (toHost \o out)[i] = out[i - Len(toHost)]
  BY <1>1, Appended, ZenonT(60)
<1>3. \A i, j \in DOMAIN (toHost \o out) : i < j /\ j \in DOMAIN toHost => i \in DOMAIN toHost
  BY <1>1, <1>2
<1> QED
  BY <1>2, <1>3 DEF Send

(* A step after which the phone is camped on no other cell and that sends    *)
(* nothing but replies, or system information of the cell catcher means.     *)
LEMMA PhoneStaysWithCell ==
  ASSUME TypeOK, TunedCell, UNCHANGED hostVars,
         Camped => Camped',
         task' = "fbsb" => tuned' = sysinfo.arfcn,
         NoCompletion => NoCompletion' \/ Camped',
         \A i \in DOMAIN toPhone' : \E j \in DOMAIN toPhone : toPhone'[i] = toPhone[j],
         \/ UNCHANGED toHost
         \/ \E out \in Seq(HostMsg) :
              /\ Send(out)
              /\ \A i \in DOMAIN out :
                   out[i].type # "FBSB_CONF" /\ (Camped => OwnOf(out[i], sysinfo.arfcn))
  PROVE  TunedCell'
<1>1. sysinfo' = sysinfo /\ (Reading' <=> Reading)
  BY DEF hostVars, Reading
<1>2. /\ Reading => Camped /\ \A i \in DOMAIN toHost : OwnOf(toHost[i], sysinfo.arfcn)
      /\ \A i, j \in DOMAIN toHost : toHost[i].type = "FBSB_CONF" =>
           Camped /\ (i < j => OwnOf(toHost[j], sysinfo.arfcn))
  BY DEF TunedCell, Own, OwnOf
<1>3. /\ Reading' => \A i \in DOMAIN toHost' : OwnOf(toHost'[i], sysinfo'.arfcn)
      /\ \A i, j \in DOMAIN toHost' : toHost'[i].type = "FBSB_CONF" =>
           Camped' /\ (i < j => OwnOf(toHost'[j], sysinfo'.arfcn))
  <2>1. CASE UNCHANGED toHost
    BY <1>1, <1>2, <2>1
  <2>2. CASE \E out \in Seq(HostMsg) :
               /\ Send(out)
               /\ \A i \in DOMAIN out :
                    out[i].type # "FBSB_CONF" /\ (Camped => OwnOf(out[i], sysinfo.arfcn))
    <3>1. /\ \A i \in DOMAIN toHost' : i \in DOMAIN toHost => toHost'[i] = toHost[i]
          /\ \A i \in DOMAIN toHost' : i \notin DOMAIN toHost =>
               toHost'[i].type # "FBSB_CONF" /\ (Camped => OwnOf(toHost'[i], sysinfo.arfcn))
          /\ \A i, j \in DOMAIN toHost' : i < j /\ j \in DOMAIN toHost => i \in DOMAIN toHost
      BY <2>2, HostSent
    <3> QED
      BY <1>1, <1>2, <3>1
  <2> QED
    BY <2>1, <2>2
<1>4. \A i \in DOMAIN toPhone' : toPhone'[i].type = "FBSB_REQ" => toPhone'[i].arfcn = sysinfo'.arfcn
  BY <1>1 DEF TunedCell
<1>5. Reading' => Camped'
  BY <1>1 DEF TunedCell
<1>6. NoCompletion' \/ Camped'
  BY DEF TunedCell
<1> QED
  BY <1>1, <1>3, <1>4, <1>5, <1>6, TunedCellParts

(* Every step of the phone keeps to the cell catcher means. *)
LEMMA Layer1Cell ==
  ASSUME CellInv, Layer1Next, UNCHANGED hostVars
  PROVE  TunedCell' /\ OwnSysinfo'
<1> USE DEF CellInv, RequestInv, phonePm, phoneRach, phoneVars, link
<1>a. sysinfo' = sysinfo /\ OwnSysinfo'
  BY DEF hostVars, OwnSysinfo
<1>b. \A m \in HostMsg : m.type \notin {"FBSB_CONF", "BCCH_IND"} =>
        /\ <<m>> \in Seq(HostMsg)
        /\ \A i \in DOMAIN <<m>> :
             <<m>>[i].type # "FBSB_CONF" /\ (Camped => OwnOf(<<m>>[i], sysinfo.arfcn))
  BY DEF OwnOf
<1>c. UNCHANGED toPhone => \A i \in DOMAIN toPhone' : \E j \in DOMAIN toPhone : toPhone'[i] = toPhone[j]
  OBVIOUS
<1>d. task = "fbsb" => tuned = sysinfo.arfcn
  BY DEF TunedCell
<1>1. CASE ResetRequest
  <2>1. Send(<<Reset>>) /\ Reset \in HostMsg /\ Reset.type = "RESET"
    BY <1>1, HostMsgs DEF ResetRequest, Reset
  <2>2. task' = "idle" /\ compl' = compl /\ \E t : Take(t)
    BY <1>1 DEF ResetRequest, ResetSchedulers
  <2>3. Camped' /\ (NoCompletion => NoCompletion')
    BY <2>2 DEF Camped, NoCompletion
  <2> QED
    BY <1>a, <1>b, <2>1, <2>2, <2>3, AskTaken, PhoneStaysWithCell
<1>2. CASE PmRequest
  <2>1. task' = "pm" /\ compl' = compl /\ toHost' = toHost /\ \E t : Take(t)
    BY <1>2 DEF PmRequest
  <2>2. Camped' /\ (NoCompletion => NoCompletion')
    BY <2>1 DEF Camped, NoCompletion
  <2> QED
    BY <1>a, <2>1, <2>2, AskTaken, PhoneStaysWithCell
<1>3. CASE FbsbRequest
  <2>1. /\ task' = "fbsb" /\ tuned' = Head(toPhone).arfcn /\ compl' = compl
        /\ toHost' = toHost /\ Take("FBSB_REQ")
    BY <1>3 DEF FbsbRequest, ResetSchedulers
  <2>2. tuned' = sysinfo.arfcn
    BY <2>1, PhoneTaken DEF TunedCell
  <2>3. Camped' /\ (NoCompletion => NoCompletion')
    BY <2>1 DEF Camped, NoCompletion
  <2> QED
    BY <1>a, <2>1, <2>2, <2>3, AskTaken, PhoneStaysWithCell
<1>4. CASE CcchModeRequest
  <2>1. Send(<<CcchModeConf>>) /\ CcchModeConf \in HostMsg /\ CcchModeConf.type = "CCCH_MODE_CONF"
    BY <1>4, HostMsgs DEF CcchModeRequest, CcchModeConf
  <2>2. UNCHANGED <<task, tuned, compl>> /\ \E t : Take(t)
    BY <1>4 DEF CcchModeRequest
  <2>3. (Camped => Camped') /\ (NoCompletion => NoCompletion')
    BY <1>a, <2>2 DEF Camped, NoCompletion
  <2> QED
    BY <1>a, <1>b, <1>d, <2>1, <2>2, <2>3, AskTaken, PhoneStaysWithCell
<1>5. CASE RachRequest
  <2>1. UNCHANGED <<task, tuned, compl, toHost>> /\ \E t : Take(t)
    BY <1>5 DEF RachRequest
  <2>2. (Camped => Camped') /\ (NoCompletion => NoCompletion')
    BY <1>a, <2>1 DEF Camped, NoCompletion
  <2> QED
    BY <1>a, <1>d, <2>1, <2>2, AskTaken, PhoneStaysWithCell
<1>6. CASE MeasureNext
  <2>1. PICK lev \in Levels :
          LET full  == Len(pmMsg) = PmBatch
              msg   == (IF full THEN <<>> ELSE pmMsg) \o <<PmRes(pmNext, lev)>>
              flush == IF full THEN pmMsg ELSE <<>>
          IN Send(flush) \/ Send(flush \o msg \o <<PmDone>>)
    BY <1>6 DEF MeasureNext
  <2> DEFINE full  == Len(pmMsg) = PmBatch
             msg   == (IF full THEN <<>> ELSE pmMsg) \o <<PmRes(pmNext, lev)>>
             flush == IF full THEN pmMsg ELSE <<>>
  <2>2. pmMsg \in Seq(PmResults) /\ <<PmRes(pmNext, lev)>> \in Seq(PmResults)
    <3>1. PICK i \in DOMAIN Bands : pmNext \in Range2Set(Bands[i])
      BY <1>6 DEF MeasureNext, TypeOK, Layer1TypeOK
    <3>2. pmNext \in Arfcns
      BY <3>1, BandFacts
    <3>3. PmRes(pmNext, lev) \in PmResults
      BY <3>2, HostMsgs
    <3> QED
      BY <3>3 DEF TypeOK, Layer1TypeOK
  <2>3. flush \in Seq(PmResults) /\ msg \in Seq(PmResults)
    BY <2>2, ConcatProperties
  <2>4. Send(flush) \/ Send(flush \o msg \o <<PmDone>>)
    BY <2>1
  <2> HIDE DEF full, msg, flush
  <2> DEFINE Quiet == PmResults \cup {PmDone}
  <2>5. Quiet \subseteq HostMsg /\ \A m \in Quiet : m.type \notin {"FBSB_CONF", "BCCH_IND"}
    BY HostMsgs DEF PmResults, PmDone
  <2>6. flush \in Seq(Quiet) /\ msg \in Seq(Quiet) /\ <<PmDone>> \in Seq(Quiet)
    BY <2>3, SeqMonotonic
  <2> HIDE DEF Quiet
  <2>7. PICK out \in Seq(Quiet) : Send(out)
    BY <2>4, <2>6, ConcatProperties
  <2>8. out \in Seq(HostMsg) /\ \A i \in DOMAIN out :
          out[i].type # "FBSB_CONF" /\ (Camped => OwnOf(out[i], sysinfo.arfcn))
    <3>1. out \in Seq(HostMsg)
      BY <2>5, SeqMonotonic
    <3>2. \A i \in DOMAIN out : out[i] \in Quiet
      OBVIOUS
    <3> QED
      BY <2>5, <3>1, <3>2 DEF OwnOf
  <2>9. UNCHANGED <<toPhone, tuned, compl>> /\ task # "camped" /\ task' \notin {"camped", "fbsb"}
    BY <1>6 DEF MeasureNext
  <2>10. Camped' /\ (NoCompletion => NoCompletion')
    BY <2>9 DEF Camped, NoCompletion
  <2> QED
    BY <1>a, <1>c, <2>7, <2>8, <2>9, <2>10, PhoneStaysWithCell
<1>7. CASE Synchronise \/ GiveUpSync
  <2>1. /\ task = "fbsb" /\ task' \in {"camped", "idle"} /\ tuned' = tuned
        /\ UNCHANGED <<toPhone, toHost>>
    BY <1>7 DEF Synchronise, GiveUpSync
  <2>2. Camped'
    BY <1>a, <1>d, <2>1 DEF Camped
  <2> QED
    BY <1>a, <1>c, <2>1, <2>2, PhoneStaysWithCell
<1>8. CASE TransmitRach
  <2>1. UNCHANGED <<toPhone, toHost, task, tuned>> /\ compl' = compl \cup {"RACH"}
    BY <1>8 DEF TransmitRach
  <2>2. (Camped => Camped') /\ (NoCompletion => NoCompletion')
    BY <1>a, <2>1 DEF Camped, NoCompletion
  <2> QED
    BY <1>a, <1>c, <1>d, <2>1, <2>2, PhoneStaysWithCell
<1>9. CASE HearBcch
  <2>1. PICK m \in Air[tuned] : Send(<<BcchInd(m)>>)
    BY <1>9 DEF HearBcch
  <2>2. BcchInd(m) \in HostMsg /\ BcchInd(m).type # "FBSB_CONF"
    BY <1>9, LinkAssumption, HostMsgs
    DEF HearBcch, Listening, TypeOK, Layer1TypeOK, BcchInd
  <2>3. Camped => OwnOf(BcchInd(m), sysinfo.arfcn)
    BY <1>9, LinkAssumption
    DEF HearBcch, Listening, TypeOK, Layer1TypeOK, BcchInd, Camped, OwnOf
  <2>4. <<BcchInd(m)>> \in Seq(HostMsg) /\ \A i \in DOMAIN <<BcchInd(m)>> :
          <<BcchInd(m)>>[i].type # "FBSB_CONF" /\ (Camped => OwnOf(<<BcchInd(m)>>[i], sysinfo.arfcn))
    BY <2>2, <2>3
  <2>5. UNCHANGED <<toPhone, task, tuned, compl>>
    BY <1>9 DEF HearBcch
  <2>6. (Camped => Camped') /\ (NoCompletion => NoCompletion')
    BY <1>a, <2>5 DEF Camped, NoCompletion
  <2> QED
    BY <1>a, <1>c, <1>d, <2>1, <2>4, <2>5, <2>6, PhoneStaysWithCell
<1>10. CASE HearAgch
  <2>1. PICK refs \in SUBSET [ra : RA, fn : 0 .. fn] : Send(<<AgchInd(refs)>>)
    BY <1>10 DEF HearAgch
  <2>2. AgchInd(refs) \in HostMsg /\ AgchInd(refs).type = "AGCH_IND"
    BY HostMsgs, Layer1Assumption DEF Ref, TypeOK, Layer1TypeOK, AgchInd
  <2>3. UNCHANGED <<toPhone, task, tuned, compl>>
    BY <1>10 DEF HearAgch
  <2>4. (Camped => Camped') /\ (NoCompletion => NoCompletion')
    BY <1>a, <2>3 DEF Camped, NoCompletion
  <2> QED
    BY <1>a, <1>b, <1>c, <1>d, <2>1, <2>2, <2>3, <2>4, PhoneStaysWithCell
<1>11. CASE SyncCompletion
  <2> DEFINE a == FbsbConf(synced)
  <2>1. a \in HostMsg /\ a.type = "FBSB_CONF" /\ ~NoCompletion
    BY <1>11, HostMsgs
    DEF SyncCompletion, TypeOK, Layer1TypeOK, FbsbConf, NoCompletion
  <2>2. Camped /\ NoAnswer /\ ~NoSynchronising
    BY <2>1 DEF TunedCell, OneOutstanding, NoSynchronising
  <2>3. ~Reading
    BY <2>2 DEF OneOutstanding
  <2>4. UNCHANGED <<toPhone, task, tuned>> /\ Send(<<a>>)
    BY <1>11 DEF SyncCompletion
  <2>5. <<a>> \in Seq(HostMsg) /\ DOMAIN <<a>> = {1}
    BY <2>1
  <2>6. Camped' /\ ~Reading' /\ task' # "fbsb"
    <3>1. task # "fbsb"
      BY <2>1 DEF OneOutstanding, NoWork
    <3> QED
      BY <1>a, <2>2, <2>3, <2>4, <3>1 DEF Camped, Reading, hostVars
  <2> HIDE DEF a
  <2>7. toHost' \in Seq(HostMsg)
    BY <2>1, <2>4, SendOne DEF TypeOK
  <2>8. \A i, j \in DOMAIN toHost' : toHost'[i].type = "FBSB_CONF" => i >= j
    <3>1. \A i \in DOMAIN toHost : toHost[i].type # "FBSB_CONF"
      BY <2>2 DEF NoAnswer, Answers
    <3>2. /\ \A i \in DOMAIN toHost : toHost'[i] = toHost[i]
          /\ \A i \in DOMAIN toHost' : i \notin DOMAIN toHost => i - Len(toHost) = 1
      BY <2>4, <2>5, HostSent
    <3>3. /\ Len(toHost) \in Nat /\ DOMAIN toHost = 1 .. Len(toHost)
          /\ \A i \in DOMAIN toHost' : i \in Nat
      BY <2>7 DEF TypeOK, LinkTypeOK
    <3>4. \A i \in DOMAIN toHost' : i <= Len(toHost) + 1
      BY <3>2, <3>3
    <3>5. \A i \in DOMAIN toHost' : toHost'[i].type = "FBSB_CONF" => i = Len(toHost) + 1
      BY <3>1, <3>2, <3>3
    <3> QED
      BY <3>3, <3>4, <3>5
  <2>9. \A i \in DOMAIN toPhone' : toPhone'[i].type = "FBSB_REQ" => toPhone'[i].arfcn = sysinfo'.arfcn
    BY <1>a, <2>4 DEF TunedCell
  <2>10. \A i, j \in DOMAIN toHost' : toHost'[i].type = "FBSB_CONF" =>
           Camped' /\ (i < j => OwnOf(toHost'[j], sysinfo'.arfcn))
    BY <2>6, <2>8, <2>7
  <2> QED
    BY <1>a, <2>6, <2>9, <2>10, TunedCellParts
<1>12. CASE RachCompletion
  <2>1. RachConf(lastRach) \in HostMsg /\ RachConf(lastRach).type = "RACH_CONF"
    BY HostMsgs DEF TypeOK, Layer1TypeOK, RachConf
  <2>2. /\ UNCHANGED <<toPhone, task, tuned>> /\ compl' \subseteq compl
        /\ Send(<<RachConf(lastRach)>>)
    BY <1>12 DEF RachCompletion
  <2>3. (Camped => Camped') /\ (NoCompletion => NoCompletion')
    BY <1>a, <2>2 DEF Camped, NoCompletion
  <2> QED
    BY <1>a, <1>b, <1>c, <1>d, <2>1, <2>2, <2>3, PhoneStaysWithCell
<1>13. CASE Boot
  <2>1. Send(<<Reset>>) /\ Reset \in HostMsg /\ Reset.type = "RESET"
    BY <1>13, HostMsgs DEF Boot, Reset
  <2>2. task' = "idle" /\ compl' = {} /\ toPhone' = <<>>
    BY <1>13 DEF Boot
  <2>3. \A i \in DOMAIN toPhone' : FALSE
    BY <2>2
  <2>4. Camped' /\ NoCompletion'
    BY <2>2 DEF Camped, NoCompletion
  <2> QED
    BY <1>a, <1>b, <2>1, <2>2, <2>3, <2>4, PhoneStaysWithCell
<1> QED
  BY <1>1, <1>2, <1>3, <1>4, <1>5, <1>6, <1>7, <1>8, <1>9, <1>10, <1>11, <1>12, <1>13
  DEF Layer1Next, Request, Radio, Completion, Cell

-----------------------------------------------------------------------------
LEMMA CellInvariant ==
  ASSUME ~Leftover
  PROVE  Spec => []CellInv
<1>1. Init => TunedCell /\ OwnSysinfo
  BY DEF Init, CatcherInit, Layer1Init, TunedCell, OwnSysinfo, Camped, NoCompletion, Reading, ResetReq
<1>2. RequestInv /\ TunedCell /\ OwnSysinfo /\ [Next]_vars => (TunedCell /\ OwnSysinfo)'
  <2> SUFFICES ASSUME CellInv, [Next]_vars PROVE TunedCell' /\ OwnSysinfo'
    BY DEF CellInv
  <2>1. CASE CatcherNext /\ UNCHANGED phoneVars
    BY <2>1, CatcherCell
  <2>2. CASE Layer1Next /\ UNCHANGED hostVars
    BY <2>2, Layer1Cell
  <2>3. CASE UNCHANGED vars
    BY <2>3 DEF vars, link, hostVars, phoneVars, CellInv, TunedCell, OwnSysinfo, Camped, Own,
                NoCompletion, Reading
  <2> QED
    BY <2>1, <2>2, <2>3 DEF Next
<1> QED
  BY <1>1, <1>2, RequestInvariant, PTL DEF Spec, CellInv

(***************************************************************************)
(* Unless an earlier client left the phone busy, what the phone hears and  *)
(* what is still on the link after the answer to a synchronisation is of   *)
(* the cell catcher means (TunedCell).                                     *)
(***************************************************************************)
THEOREM HearsTunedCell ==
  ASSUME ~Leftover
  PROVE  Spec => []TunedCell
<1>1. CellInv => TunedCell
  BY DEF CellInv
<1> QED
  BY <1>1, CellInvariant, PTL

(***************************************************************************)
(* Unless an earlier client left the phone busy, every system information  *)
(* message stored for a cell was broadcast by that cell (OwnSysinfo).      *)
(***************************************************************************)
THEOREM SysinfoIsOwn ==
  ASSUME ~Leftover
  PROVE  Spec => []OwnSysinfo
<1>1. CellInv => OwnSysinfo
  BY DEF CellInv
<1> QED
  BY <1>1, CellInvariant, PTL

-----------------------------------------------------------------------------
(***************************************************************************)
(* The books of a sweep: which ARFCNs were measured, which results are     *)
(* still on their way, and how many cells are left, when no earlier client *)
(* left the phone busy; that catcher then implements the abstract scanner  *)
(* Sweep; and that the burst it waits an assignment for is one the phone   *)
(* has sent.                                                               *)
(***************************************************************************)

Result(m) == m.type = "PM_RES"

(* The band being measured. *)
Current == Bands[pm_index + 1]

(* A result for a is on its way to catcher. *)
OnLink(a) == \E i \in DOMAIN toHost : Result(toHost[i]) /\ toHost[i].arfcn = a
Untouched(a) == ~pm[a].meas /\ ~OnLink(a)
Known(a) == pm[a].meas \/ OnLink(a)

(* The bands before the current one are measured, those behind it are not. *)
Swept ==
  /\ \A a \in Arfcns : pm[a].meas => pm[a].rxlev \in Levels
  /\ state # "PM" => \A a \in Arfcns : pm[a].meas
  /\ state = "PM" =>
       /\ pm_index < Len(Bands)
       /\ \A a \in Arfcns : ~pm[a].sync
       /\ \A j \in DOMAIN Bands : \A a \in Range2Set(Bands[j]) :
            (j <= pm_index => pm[a].meas) /\ (j > pm_index + 1 => ~pm[a].meas)

(* A result is of the current band and the only one of its ARFCN; the answer *)
(* comes behind all of them and leaves none out.                             *)
Results ==
  /\ \A i \in DOMAIN toHost : Result(toHost[i]) =>
       /\ state = "PM" /\ started
       /\ toHost[i].arfcn \in Range2Set(Current) /\ ~pm[toHost[i].arfcn].meas
  /\ \A i, j \in DOMAIN toHost :
       Result(toHost[i]) /\ Result(toHost[j]) /\ toHost[i].arfcn = toHost[j].arfcn => i = j
  /\ \A d \in DOMAIN toHost : toHost[d].type = "PM_DONE" =>
       /\ \A i \in DOMAIN toHost : Result(toHost[i]) => i < d
       /\ \A a \in Range2Set(Current) : Known(a)

(* The phone has still to measure what is untouched, and keeps in pmMsg the  *)
(* results in between.                                                       *)
Measuring ==
  /\ task # "pm" => pmMsg = <<>>
  /\ task = "pm" =>
       /\ pmNext \in Range2Set(Current) /\ pmEnd = Current[2]
       /\ \A a \in pmNext .. pmEnd : Untouched(a)
       /\ \A k \in DOMAIN pmMsg :
            pmMsg[k].arfcn \in Current[1] .. pmNext - 1 /\ Untouched(pmMsg[k].arfcn)
       /\ \A k, n \in DOMAIN pmMsg : pmMsg[k].arfcn = pmMsg[n].arfcn => k = n
       /\ \A a \in Current[1] .. pmNext - 1 :
            Known(a) \/ \E k \in DOMAIN pmMsg : pmMsg[k].arfcn = a

(* A measurement is asked of the whole current band before any of it is      *)
(* measured, and what resets the phone is followed by a new request.         *)
Asked ==
  /\ \A i \in DOMAIN toPhone : toPhone[i].type = "PM_REQ" =>
       /\ toPhone[i].from = Current[1] /\ toPhone[i].to = Current[2]
       /\ \A a \in Range2Set(Current) : Untouched(a)
  /\ started => \A i \in DOMAIN toPhone : toPhone[i].type = "RESET_REQ" =>
       \E j \in DOMAIN toPhone : i < j /\ Asks(toPhone[j])

Books == Swept /\ Results /\ Measuring /\ Asked

-----------------------------------------------------------------------------
(* Queues. *)

(* Every message but the one that was taken is still there. *)
LEMMA HostRest ==
  ASSUME TypeOK, NEW t, Receive(t)
  PROVE  \A j \in DOMAIN toHost : j # 1 =>
           j - 1 \in DOMAIN toHost' /\ toHost'[j - 1] = toHost[j]
<1>1. toHost \in Seq(HostMsg) /\ toHost # <<>> /\ toHost' = Tail(toHost)
  BY DEF TypeOK, LinkTypeOK, Receive, HostGets
<1>2. /\ Len(Tail(toHost)) = Len(toHost) - 1
      /\ \A i \in 1 .. Len(Tail(toHost)) : Tail(toHost)[i] = toHost[i + 1]
      /\ Tail(toHost) \in Seq(HostMsg) /\ Len(toHost) \in Nat
  BY <1>1, HeadTailProperties
<1> QED
  BY <1>1, <1>2

LEMMA PhoneRest ==
  ASSUME TypeOK, NEW t, Take(t)
  PROVE  \A j \in DOMAIN toPhone : j # 1 =>
           j - 1 \in DOMAIN toPhone' /\ toPhone'[j - 1] = toPhone[j]
<1>1. toPhone \in Seq(PhoneMsg) /\ toPhone # <<>> /\ toPhone' = Tail(toPhone)
  BY DEF TypeOK, LinkTypeOK, Take
<1>2. /\ Len(Tail(toPhone)) = Len(toPhone) - 1
      /\ \A i \in 1 .. Len(Tail(toPhone)) : Tail(toPhone)[i] = toPhone[i + 1]
      /\ Tail(toPhone) \in Seq(PhoneMsg) /\ Len(toPhone) \in Nat
  BY <1>1, HeadTailProperties
<1> QED
  BY <1>1, <1>2

(* The results on the way are the same when something else was taken. *)
LEMMA SameResults ==
  ASSUME TypeOK, UNCHANGED toHost \/ \E t : t # "PM_RES" /\ Receive(t)
  PROVE  \A a : OnLink(a)' <=> OnLink(a)
<1>1. CASE UNCHANGED toHost
  BY <1>1 DEF OnLink
<1>2. CASE \E t : t # "PM_RES" /\ Receive(t)
  <2>1. PICK t : t # "PM_RES" /\ Receive(t)
    BY <1>2
  <2>2. /\ \A i \in DOMAIN toHost' : i + 1 \in DOMAIN toHost /\ toHost'[i] = toHost[i + 1]
        /\ ~Result(toHost[1])
    BY <2>1, HostTaken DEF Result
  <2>3. \A j \in DOMAIN toHost : j # 1 => j - 1 \in DOMAIN toHost' /\ toHost'[j - 1] = toHost[j]
    BY <2>1, HostRest
  <2> QED
    BY <2>2, <2>3 DEF OnLink
<1> QED
  BY <1>1, <1>2

(* Where messages of kind K stand when a batch without such was appended. *)
LEMMA KindAppended ==
  ASSUME NEW S, NEW q \in Seq(S), NEW b \in Seq(S), NEW K, \A i \in DOMAIN b : b[i] \notin K
  PROVE  /\ \A i \in DOMAIN (q \o b) : (q \o b)[i] \in K => i \in DOMAIN q /\ (q \o b)[i] = q[i]
         /\ \A i \in DOMAIN q : i \in DOMAIN (q \o b) /\ (q \o b)[i] = q[i]
  BY Appended

(* What stands last when two more were appended. *)
LEMMA TwoMore ==
  ASSUME NEW S, NEW p \in Seq(S), NEW x \in S, NEW y \in S
  PROVE  LET r == p \o <<x, y>> IN
         \E j \in DOMAIN r : r[j] = y /\ \A i \in DOMAIN r : i <= j
<1> DEFINE b == <<x, y>>
           r == p \o b
<1>1. b \in Seq(S) /\ Len(b) = 2 /\ b[2] = y
  OBVIOUS
<1> HIDE DEF b
<1>2. /\ r \in Seq(S) /\ Len(r) = Len(p) + 2 /\ Len(p) \in Nat
      /\ \A i \in 1 .. Len(r) : r[i] = IF i <= Len(p) THEN p[i] ELSE b[i - Len(p)]
  <2>1. Len(p) \in Nat /\ Len(b) = 2 /\ b \in Seq(S)
    BY <1>1
  <2>2. r \in Seq(S) /\ Len(r) = Len(p) + Len(b)
    BY <2>1, ConcatProperties
  <2>3. \A i \in 1 .. Len(p) + Len(b) : r[i] = IF i <= Len(p) THEN p[i] ELSE b[i - Len(p)]
    BY <2>1, ConcatProperties
  <2> HIDE DEF r
  <2>4. Len(r) = Len(p) + 2
    BY <2>1, <2>2
  <2> QED
    BY <2>1, <2>2, <2>3, <2>4
<1> HIDE DEF r
<1>3. DOMAIN r = 1 .. Len(p) + 2 /\ Len(p) + 2 \in 1 .. Len(r)
  BY <1>2
<1>4. r[Len(p) + 2] = b[(Len(p) + 2) - Len(p)] /\ (Len(p) + 2) - Len(p) = 2
  BY <1>2, <1>3
<1>5. r[Len(p) + 2] = y /\ \A i \in DOMAIN r : i <= Len(p) + 2
  BY <1>1, <1>2, <1>3, <1>4
<1>6. \E j \in DOMAIN r : r[j] = y /\ \A i \in DOMAIN r : i <= j
  BY <1>3, <1>2, <1>5
<1> QED
  BY <1>6 DEF r, b

(* The last of a batch that ends in q. *)
LEMMA LastSent ==
  ASSUME TypeOK, NEW out, Silent(out), NEW q \in PhoneMsg, toPhone' = toPhone \o out \o <<ResetReq, q>>
  PROVE  \E j \in DOMAIN toPhone' : toPhone'[j] = q /\ \A i \in DOMAIN toPhone' : i <= j
<1>1. toPhone \o out \in Seq(PhoneMsg) /\ ResetReq \in PhoneMsg
  BY PhoneMsgs, ConcatProperties DEF TypeOK, LinkTypeOK, Silent
<1> QED
  BY <1>1, TwoMore

-----------------------------------------------------------------------------
(* The handlers of catcher. *)

(* A handler that leaves the measurements alone. *)
LEMMA KeepsBooks ==
  ASSUME TypeOK, Books, UNCHANGED <<pm, pm_index, started>>, UNCHANGED phoneVars,
         state' = state \/ (state # "PM" /\ state' # "PM"),
         UNCHANGED toHost \/ \E t : t # "PM_RES" /\ Receive(t),
         NEW out, Silent(out), \A i \in DOMAIN out : out[i].type # "RESET_REQ",
         toPhone' = toPhone \o out
  PROVE  Books'
<1>1. \A a : (OnLink(a)' <=> OnLink(a))
  BY SameResults
<1>2. Current' = Current /\ \A a : (Untouched(a)' <=> Untouched(a)) /\ (Known(a)' <=> Known(a))
  BY <1>1 DEF Current, Untouched, Known
<1>3. Swept'
  BY DEF Books, Swept
<1>4. Results'
  <2>1. PICK d \in {0, 1} : \A i \in DOMAIN toHost' :
          i \in Nat /\ i + d \in DOMAIN toHost /\ toHost'[i] = toHost[i + d]
    <3>1. CASE UNCHANGED toHost
      BY <3>1 DEF TypeOK, LinkTypeOK
    <3>2. CASE \E t : Receive(t)
      BY <3>2, HostTaken
    <3> QED
      BY <3>1, <3>2
  <2>2. ASSUME NEW i \in DOMAIN toHost', Result(toHost'[i])
        PROVE  /\ state' = "PM" /\ started'
               /\ toHost'[i].arfcn \in Range2Set(Current) /\ ~pm'[toHost'[i].arfcn].meas
    <3>1. i + d \in DOMAIN toHost /\ toHost'[i] = toHost[i + d]
      BY <2>1
    <3> QED
      BY <2>2, <3>1 DEF Books, Results
  <2>3. ASSUME NEW i \in DOMAIN toHost', NEW j \in DOMAIN toHost',
               Result(toHost'[i]), Result(toHost'[j]), toHost'[i].arfcn = toHost'[j].arfcn
        PROVE  i = j
    <3>1. i + d = j + d
      BY <2>1, <2>3 DEF Books, Results
    <3> QED
      BY <2>1, <3>1
  <2>4. ASSUME NEW n \in DOMAIN toHost', toHost'[n].type = "PM_DONE"
        PROVE  /\ \A i \in DOMAIN toHost' : Result(toHost'[i]) => i < n
               /\ \A a \in Range2Set(Current) : Known(a)
    <3>1. n + d \in DOMAIN toHost /\ toHost[n + d].type = "PM_DONE"
      BY <2>1, <2>4
    <3>2. /\ \A i \in DOMAIN toHost : Result(toHost[i]) => i < n + d
          /\ \A a \in Range2Set(Current) : Known(a)
      BY <3>1 DEF Books, Results
    <3>3. ASSUME NEW i \in DOMAIN toHost', Result(toHost'[i]) PROVE i < n
      <4>1. i + d < n + d
        BY <2>1, <3>2, <3>3
      <4> QED
        BY <2>1, <4>1
    <3> QED
      BY <3>2, <3>3
  <2>5. Range2Set(Current)' = Range2Set(Current)
    BY <1>2 DEF Range2Set
  <2>6. \A a : Known(a) => Known(a)'
    BY <1>2
  <2> QED
    BY <2>2, <2>3, <2>4, <2>5, <2>6 DEF Results, Result, Known, OnLink
<1>5. Measuring'
  <2>1. UNCHANGED <<task, pmMsg, pmNext, pmEnd>>
    BY DEF phoneVars, phonePm
  <2> QED
    BY <1>2, <2>1 DEF Books, Measuring, Range2Set
<1>6. Asked'
  <2>0. toPhone \in Seq(PhoneMsg) /\ out \in Seq(PhoneMsg)
    BY DEF TypeOK, LinkTypeOK, Silent
  <2>1. \A i \in DOMAIN toPhone' : toPhone'[i].type \in {"PM_REQ", "RESET_REQ"} =>
          i \in DOMAIN toPhone /\ toPhone'[i] = toPhone[i]
    <3> DEFINE K == {m \in PhoneMsg : m.type \in {"PM_REQ", "RESET_REQ"}}
    <3>1. \A i \in DOMAIN out : out[i] \notin K
      BY DEF Silent, Asks
    <3>2. toPhone' \in Seq(PhoneMsg)
      BY <2>0, ConcatProperties
    <3>3. \A i \in DOMAIN toPhone' : toPhone'[i].type \in {"PM_REQ", "RESET_REQ"} => toPhone'[i] \in K
      BY <3>2
    <3> HIDE DEF K
    <3> QED
      BY <2>0, <3>1, <3>3, KindAppended
  <2>2. \A j \in DOMAIN toPhone : j \in DOMAIN toPhone' /\ toPhone'[j] = toPhone[j]
    BY <2>0, KindAppended
  <2>3. \A i \in DOMAIN toPhone' : toPhone'[i].type = "PM_REQ" =>
          /\ toPhone'[i].from = Current'[1] /\ toPhone'[i].to = Current'[2]
          /\ \A a \in Range2Set(Current)' : Untouched(a)'
    BY <1>2, <2>1 DEF Books, Asked, Range2Set
  <2>4. started' => \A i \in DOMAIN toPhone' : toPhone'[i].type = "RESET_REQ" =>
          \E j \in DOMAIN toPhone' : i < j /\ Asks(toPhone'[j])
    BY <2>1, <2>2 DEF Books, Asked
  <2> QED
    BY <2>3, <2>4 DEF Asked, Asks
<1> QED
  BY <1>3, <1>4, <1>5, <1>6 DEF Books

(* A handler that resets the phone and asks it for one thing. *)
LEMMA AskedBooks ==
  ASSUME TypeOK, Idle, Measuring, NoAnswer', \A i \in DOMAIN toHost' : ~Result(toHost'[i]),
         UNCHANGED phoneVars, Swept',
         NEW out, Silent(out), NEW q \in PhoneMsg, Asks(q), toPhone' = toPhone \o out \o <<ResetReq, q>>,
         q.type = "PM_REQ" =>
           /\ q.from = Current'[1] /\ q.to = Current'[2]
           /\ \A a \in Range2Set(Current') : ~pm'[a].meas
  PROVE  Books'
<1>1. Results'
  BY DEF Results, NoAnswer, Answers, Result
<1>2. Measuring'
  <2>1. task' = task /\ pmMsg' = pmMsg /\ task # "pm"
    BY DEF phoneVars, phonePm, Idle, NoWork
  <2> QED
    BY <2>1 DEF Measuring
<1>3. Asked'
  <2>1. \A i \in DOMAIN toPhone' : Asks(toPhone'[i]) => toPhone'[i] = q
    BY OneSent DEF Idle
  <2>2. PICK j \in DOMAIN toPhone' : toPhone'[j] = q /\ \A i \in DOMAIN toPhone' : i <= j
    BY LastSent
  <2>3. \A i \in DOMAIN toPhone' : toPhone'[i].type = "RESET_REQ" => i < j
    <3>1. toPhone'[j].type # "RESET_REQ"
      BY <2>2 DEF Asks
    <3>2. DOMAIN toPhone' \subseteq Nat
      <4>1. toPhone \o out \in Seq(PhoneMsg)
        BY ConcatProperties DEF TypeOK, LinkTypeOK, Silent
      <4>2. <<ResetReq, q>> \in Seq(PhoneMsg)
        BY PhoneMsgs
      <4>3. toPhone' \in Seq(PhoneMsg)
        BY <4>1, <4>2, ConcatProperties
      <4> QED
        BY <4>3
    <3> QED
      BY <2>2, <3>1, <3>2
  <2>4. \A a : ~OnLink(a)'
    BY DEF OnLink, Result
  <2> QED
    BY <2>1, <2>2, <2>3, <2>4 DEF Asked, Asks, Untouched, OnLink, Result
<1> QED
  BY <1>1, <1>2, <1>3 DEF Books

(* The first band after a fresh start. *)
LEMMA FirstBand ==
  ASSUME pm' = NoMeasurement, pm_index' = 0, state' = "PM"
  PROVE  /\ Swept' /\ Current' = Bands[1]
         /\ \A a \in Arfcns : ~pm'[a].meas
         /\ Range2Set(Bands[1]) \subseteq Arfcns
<1>1. \A a \in Arfcns : ~pm'[a].meas /\ ~pm'[a].sync
  BY DEF NoMeasurement
<1>2. /\ 0 < Len(Bands) /\ DOMAIN Bands = 1 .. Len(Bands) /\ 1 \in DOMAIN Bands
      /\ \A j \in DOMAIN Bands : Range2Set(Bands[j]) \subseteq Arfcns
  BY BandFacts
<1>3. Current' = Bands[1]
  BY DEF Current
<1> QED
  BY <1>1, <1>2, <1>3 DEF Swept

LEMMA StartSyncBooks ==
  ASSUME TypeOK, Idle, Measuring, NoAnswer', \A i \in DOMAIN toHost' : ~Result(toHost'[i]),
         UNCHANGED phoneVars, \A a \in Arfcns : pm[a].meas /\ pm[a].rxlev \in Levels,
         NEW index, NEW s, NEW out, Silent(out), StartSync(index, s, out)
  PROVE  Books'
<1>1. ASSUME NEW a \in Arfcns, TuneTo(a, index, out) PROVE Books'
  <2>1. FbsbReq(a) \in PhoneMsg /\ Asks(FbsbReq(a)) /\ FbsbReq(a).type # "PM_REQ"
    BY PhoneMsgs DEF FbsbReq, Asks
  <2>2. /\ toPhone' = toPhone \o out \o <<ResetReq, FbsbReq(a)>> /\ state' = "SYNC"
        /\ pm' = [pm EXCEPT ![a].sync = TRUE]
    BY <1>1 DEF TuneTo
  <2>3. \A b \in Arfcns : pm'[b].meas /\ pm'[b].rxlev \in Levels
    BY <2>2 DEF TypeOK, CatcherTypeOK
  <2>4. Swept'
    BY <2>2, <2>3 DEF Swept
  <2> QED
    BY <2>1, <2>2, <2>4, AskedBooks
<1>2. ASSUME NewSweep(s, out) PROVE Books'
  <2> DEFINE q == PmReq(Bands[1][1], Bands[1][2])
  <2>1. q \in PhoneMsg /\ Asks(q) /\ q.from = Bands[1][1] /\ q.to = Bands[1][2]
    BY PhoneMsgs, BandFacts DEF PmReq, Asks
  <2>2. /\ toPhone' = toPhone \o out \o <<ResetReq, q>> /\ state' = "PM"
        /\ pm' = NoMeasurement /\ pm_index' = 0
    BY <1>2 DEF NewSweep, PmRequests
  <2>3. /\ Swept' /\ Current' = Bands[1] /\ \A a \in Arfcns : ~pm'[a].meas
        /\ Range2Set(Bands[1]) \subseteq Arfcns
    BY <2>2, FirstBand
  <2> HIDE DEF q
  <2>4. q.from = Current'[1] /\ q.to = Current'[2] /\ \A a \in Range2Set(Current') : ~pm'[a].meas
    BY <2>1, <2>3
  <2> QED
    BY <2>1, <2>2, <2>3, <2>4, AskedBooks
<1> QED
  BY <1>1, <1>2 DEF StartSync

(* A handler that is done with a cell. *)
LEMMA LeavesCell ==
  ASSUME TypeOK, Books, state # "PM", Idle, NoAnswer', UNCHANGED phoneVars,
         (\E t : Receive(t)) \/ UNCHANGED toHost,
         NEW index, NEW s, NEW out, Silent(out), StartSync(index, s, out)
  PROVE  Books'
<1>1. \A i \in DOMAIN toHost : ~Result(toHost[i])
  BY DEF Books, Results
<1>2. \A i \in DOMAIN toHost' : ~Result(toHost'[i])
  <2>1. CASE UNCHANGED toHost
    BY <1>1, <2>1
  <2>2. CASE \E t : Receive(t)
    BY <1>1, <2>2, HostTaken
  <2> QED
    BY <2>1, <2>2
<1>3. \A a \in Arfcns : pm[a].meas /\ pm[a].rxlev \in Levels
  BY DEF Books, Swept
<1> QED
  BY <1>2, <1>3, StartSyncBooks DEF Books

LEMMA StartRachBooks ==
  ASSUME TypeOK, OneOutstanding, Books, Reading, UNCHANGED <<phoneVars, started>>,
         (\E t : t # "PM_RES" /\ Receive(t)) \/ UNCHANGED toHost,
         NEW s, NEW n, NEW out \in {<<>>, <<CcchModeReq>>}, StartRach(s, n, out)
  PROVE  Books'
<1>1. Idle /\ NoAnswer' /\ Silent(out)
  BY NothingAsked, AnswersLeft, SilentBatches DEF NoAnswer
<1>2. state # "PM"
  BY DEF Reading
<1>3. CASE SendBurst(s, n, out)
  <2>1. PICK cr \in RA : toPhone' = toPhone \o out \o <<RachReq(cr)>>
    BY <1>3 DEF SendBurst
  <2>2. Silent(<<RachReq(cr)>>)
    BY SilentBatches
  <2> DEFINE b == out \o <<RachReq(cr)>>
  <2>3. Silent(b) /\ toPhone' = toPhone \o b
    BY <1>1, <2>1, <2>2, SilentPair
  <2>4. \A i \in DOMAIN b : b[i].type # "RESET_REQ"
    BY DEF CcchModeReq, RachReq
  <2>5. UNCHANGED <<pm, pm_index>> /\ state' # "PM"
    BY <1>3 DEF SendBurst, sweep
  <2> HIDE DEF b
  <2> QED
    BY <1>2, <2>3, <2>4, <2>5, KeepsBooks
<1>4. CASE StartSync(pm_index, s, out)
  BY <1>1, <1>2, <1>4, LeavesCell
<1> QED
  BY <1>3, <1>4 DEF StartRach

(* A result enters the books. *)
LEMMA PmResultBooks ==
  ASSUME TypeOK, Books, PmResult, UNCHANGED phoneVars
  PROVE  /\ Books'
         /\ Head(toHost).arfcn \in Arfcns /\ ~pm[Head(toHost).arfcn].meas
         /\ ~pm[Head(toHost).arfcn].sync
<1> DEFINE r == toHost[1]
           b == r.arfcn
<1>1. /\ 1 \in DOMAIN toHost /\ Head(toHost) = r /\ Result(r)
      /\ \A i \in DOMAIN toHost' : i \in Nat /\ i + 1 \in DOMAIN toHost /\ toHost'[i] = toHost[i + 1]
  BY HostTaken DEF PmResult, Result
<1>2. \A j \in DOMAIN toHost : j # 1 => j - 1 \in DOMAIN toHost' /\ toHost'[j - 1] = toHost[j]
  BY HostRest DEF PmResult
<1>3. b \in Arfcns /\ r.rxlev \in Levels
  BY <1>1, HostQueue, HostMsgFields DEF PmResult, TypeOK, Result
<1>4. /\ state = "PM" /\ started /\ b \in Range2Set(Current) /\ ~pm[b].meas
      /\ pm_index < Len(Bands) /\ ~pm[b].sync
  BY <1>1, <1>3 DEF Books, Results, Swept
<1>5. /\ pm' = [pm EXCEPT ![b].meas = TRUE, ![b].rxlev = r.rxlev]
      /\ UNCHANGED <<started, state, pm_index, toPhone>>
  BY <1>1 DEF PmResult
<1>6. /\ pm'[b].meas /\ pm'[b].rxlev \in Levels /\ ~pm'[b].sync
      /\ \A a \in Arfcns : a # b => pm'[a] = pm[a]
  BY <1>3, <1>4, <1>5 DEF TypeOK, CatcherTypeOK
<1> HIDE DEF r, b
<1>7. Current' = Current
  BY <1>5 DEF Current
<1>8. \A a \in Arfcns : OnLink(a)' => OnLink(a)
  BY <1>1 DEF OnLink
<1>9. \A i \in DOMAIN toHost' : Result(toHost'[i]) => toHost'[i].arfcn # b
  <2> SUFFICES ASSUME NEW i \in DOMAIN toHost', Result(toHost'[i]), toHost'[i].arfcn = b
               PROVE  FALSE
    OBVIOUS
  <2>1. i + 1 = 1
    BY <1>1 DEF Books, Results, b, r
  <2>2. i >= 1
    BY HostQueue DEF PmResult, TypeOK
  <2> QED
    BY <1>1, <2>1, <2>2
<1>10. \A a \in Arfcns : Untouched(a) => Untouched(a)'
  <2>1. OnLink(b)
    BY <1>1 DEF OnLink, b
  <2> QED
    BY <1>6, <1>8, <2>1 DEF Untouched
<1>11. \A a \in Arfcns : Known(a) => Known(a)'
  <2> SUFFICES ASSUME NEW a \in Arfcns, Known(a), a # b PROVE Known(a)'
    BY <1>6 DEF Known
  <2>1. CASE pm[a].meas
    BY <1>6, <2>1 DEF Known
  <2>2. CASE OnLink(a)
    <3>1. PICK j \in DOMAIN toHost : Result(toHost[j]) /\ toHost[j].arfcn = a
      BY <2>2 DEF OnLink
    <3>2. j # 1
      BY <3>1 DEF b, r
    <3> QED
      BY <1>2, <3>1, <3>2 DEF Known, OnLink
  <2> QED
    BY <2>1, <2>2 DEF Known
<1>12. /\ pm_index + 1 \in DOMAIN Bands /\ Range2Set(Current) \subseteq Arfcns
       /\ \A j \in DOMAIN Bands : Range2Set(Bands[j]) \subseteq Arfcns
  BY <1>4, BandFacts DEF Current, TypeOK, CatcherTypeOK
<1>13. Swept'
  <2>1. \A a \in Arfcns : (pm'[a].meas => pm'[a].rxlev \in Levels) /\ ~pm'[a].sync
    BY <1>4, <1>6 DEF Books, Swept
  <2>2. ASSUME NEW j \in DOMAIN Bands, NEW a \in Range2Set(Bands[j])
        PROVE  (j <= pm_index => pm'[a].meas) /\ (j > pm_index + 1 => ~pm'[a].meas)
    <3>1. (j <= pm_index => pm[a].meas) /\ (j > pm_index + 1 => ~pm[a].meas)
      BY <1>4 DEF Books, Swept
    <3>2. CASE a = b
      <4>1. j = pm_index + 1
        BY <1>4, <1>12, <3>2, LinkAssumption DEF Current
      <4>2. ~(j > pm_index + 1)
        BY <4>1, BandFacts
      <4> QED
        BY <1>6, <3>2, <4>2
    <3>3. CASE a # b
      BY <1>6, <1>12, <3>1, <3>3
    <3> QED
      BY <3>2, <3>3
  <2> QED
    BY <1>4, <1>5, <2>1, <2>2 DEF Swept
<1>14. Results'
  <2>1. \A i \in DOMAIN toHost' : Result(toHost'[i]) =>
          toHost'[i].arfcn \in Range2Set(Current) /\ ~pm'[toHost'[i].arfcn].meas
    BY <1>1, <1>6, <1>9, <1>12 DEF Books, Results
  <2>2. ASSUME NEW i \in DOMAIN toHost', NEW j \in DOMAIN toHost',
               Result(toHost'[i]), Result(toHost'[j]), toHost'[i].arfcn = toHost'[j].arfcn
        PROVE  i = j
    <3>1. i + 1 = j + 1
      BY <1>1, <2>2 DEF Books, Results
    <3> QED
      BY <1>1, <3>1
  <2>3. ASSUME NEW d \in DOMAIN toHost', toHost'[d].type = "PM_DONE"
        PROVE  /\ \A i \in DOMAIN toHost' : Result(toHost'[i]) => i < d
               /\ \A a \in Range2Set(Current) : Known(a)'
    <3>1. d + 1 \in DOMAIN toHost /\ toHost[d + 1].type = "PM_DONE"
      BY <1>1, <2>3
    <3>2. /\ \A i \in DOMAIN toHost : Result(toHost[i]) => i < d + 1
          /\ \A a \in Range2Set(Current) : Known(a)
      BY <3>1 DEF Books, Results
    <3>3. ASSUME NEW i \in DOMAIN toHost', Result(toHost'[i]) PROVE i < d
      <4>1. i + 1 < d + 1
        BY <1>1, <3>2, <3>3
      <4> QED
        BY <1>1, <4>1
    <3> QED
      BY <1>11, <1>12, <3>2, <3>3
  <2>4. Range2Set(Current)' = Range2Set(Current)
    BY <1>7 DEF Range2Set
  <2> QED
    BY <1>4, <1>5, <2>1, <2>2, <2>3, <2>4 DEF Results, Result, Known, OnLink
<1>15. Measuring'
  <2>1. UNCHANGED <<task, pmMsg, pmNext, pmEnd>>
    BY DEF phoneVars, phonePm
  <2>2. CASE task # "pm"
    BY <2>1, <2>2 DEF Books, Measuring
  <2>3. CASE task = "pm"
    <3>1. /\ pmNext \in Range2Set(Current) /\ pmEnd = Current[2]
          /\ \A a \in pmNext .. pmEnd : Untouched(a)
          /\ \A k \in DOMAIN pmMsg :
               pmMsg[k].arfcn \in Current[1] .. pmNext - 1 /\ Untouched(pmMsg[k].arfcn)
          /\ \A k, n \in DOMAIN pmMsg : pmMsg[k].arfcn = pmMsg[n].arfcn => k = n
          /\ \A a \in Current[1] .. pmNext - 1 :
               Known(a) \/ \E k \in DOMAIN pmMsg : pmMsg[k].arfcn = a
      BY <2>3 DEF Books, Measuring
    <3>2. Current[1] .. pmNext - 1 \subseteq Arfcns /\ pmNext .. pmEnd \subseteq Arfcns
      <4>1. Current[1] \in Nat /\ Current[2] \in Nat /\ Range2Set(Current) = Current[1] .. Current[2]
        BY <1>12, BandFacts DEF Current, Range2Set
      <4>2. Current[1] .. pmNext - 1 \subseteq Range2Set(Current) /\ pmNext .. pmEnd \subseteq Range2Set(Current)
        BY <3>1, <4>1
      <4> QED
        BY <1>12, <4>2
    <3>3. \A a \in pmNext .. pmEnd : Untouched(a)'
      BY <1>10, <3>1, <3>2
    <3>4. \A k \in DOMAIN pmMsg : Untouched(pmMsg[k].arfcn)'
      BY <1>10, <2>1, <3>1, <3>2
    <3>5. \A a \in Current[1] .. pmNext - 1 : Known(a)' \/ \E k \in DOMAIN pmMsg : pmMsg[k].arfcn = a
      BY <1>11, <3>1, <3>2
    <3> QED
      BY <1>7, <2>1, <2>3, <3>1, <3>3, <3>4, <3>5 DEF Measuring, Untouched, Known, OnLink, Result, Range2Set
  <2> QED
    BY <2>2, <2>3
<1>16. Asked'
  <2>1. \A i \in DOMAIN toPhone' : toPhone'[i].type = "PM_REQ" =>
          /\ toPhone'[i].from = Current'[1] /\ toPhone'[i].to = Current'[2]
          /\ \A a \in Range2Set(Current) : Untouched(a)'
    BY <1>5, <1>7, <1>10, <1>12 DEF Books, Asked
  <2>2. Range2Set(Current)' = Range2Set(Current)
    BY <1>7 DEF Range2Set
  <2> QED
    BY <1>5, <2>1, <2>2 DEF Books, Asked, Asks, Untouched, OnLink, Result
<1> QED
  BY <1>1, <1>3, <1>4, <1>13, <1>14, <1>15, <1>16 DEF Books, b

(* The last result is in when the answer is taken. *)
LEMMA BandDone ==
  ASSUME TypeOK, OneOutstanding, Books, Receive("PM_DONE")
  PROVE  /\ state = "PM" /\ started /\ Idle /\ NoAnswer'
         /\ \A i \in DOMAIN toHost' : ~Result(toHost'[i])
         /\ pm_index < Len(Bands) /\ NextIndex = pm_index + 1
         /\ \A j \in DOMAIN Bands : j <= pm_index + 1 => \A a \in Range2Set(Bands[j]) : pm[a].meas
<1>1. /\ 1 \in DOMAIN toHost /\ toHost[1].type = "PM_DONE"
      /\ \A i \in DOMAIN toHost' : i \in Nat /\ i + 1 \in DOMAIN toHost /\ toHost'[i] = toHost[i + 1]
  BY HostTaken
<1>2. state = "PM" /\ started
  BY <1>1 DEF TypeOK, CatcherTypeOK, OneOutstanding, NoMeasuring, Reading
<1>3. Idle /\ NoAnswer'
  BY AnswersLeft
<1>4. \A i \in DOMAIN toHost : ~Result(toHost[i])
  <2>1. \A i \in DOMAIN toHost : Result(toHost[i]) => i < 1
    BY <1>1 DEF Books, Results
  <2>2. \A i \in DOMAIN toHost : i \in Nat /\ ~(i < 1)
    BY DEF TypeOK, LinkTypeOK
  <2> QED
    BY <2>1, <2>2
<1>5. \A a \in Range2Set(Current) : pm[a].meas
  BY <1>1, <1>4 DEF Books, Results, Known, OnLink
<1>6. pm_index < Len(Bands) /\ pm_index \in Nat
  BY <1>2 DEF Books, Swept, TypeOK, CatcherTypeOK
<1>7. NextIndex = pm_index + 1
  BY <1>6, BandFacts DEF NextIndex
<1>8. ASSUME NEW j \in DOMAIN Bands, j <= pm_index + 1, NEW a \in Range2Set(Bands[j])
      PROVE  pm[a].meas
  <2>1. j = pm_index + 1 \/ j <= pm_index
    BY <1>6, <1>8, BandFacts
  <2> QED
    BY <1>2, <1>5, <2>1 DEF Current, Books, Swept
<1> QED
  BY <1>1, <1>2, <1>3, <1>4, <1>6, <1>7, <1>8

(* The next band is asked for, or the cells of all of them are gone through. *)
LEMMA PmFinishedBooks ==
  ASSUME TypeOK, OneOutstanding, Books, PmFinished, UNCHANGED phoneVars
  PROVE  Books'
<1>1. /\ state = "PM" /\ started /\ Idle /\ NoAnswer'
      /\ \A i \in DOMAIN toHost' : ~Result(toHost'[i])
      /\ pm_index < Len(Bands) /\ NextIndex = pm_index + 1
      /\ \A j \in DOMAIN Bands : j <= pm_index + 1 => \A a \in Range2Set(Bands[j]) : pm[a].meas
  BY BandDone DEF PmFinished
<1>2. pm_index \in Nat /\ Len(Bands) \in Nat
  BY BandFacts DEF TypeOK, CatcherTypeOK
<1>3. Silent(<<>>) /\ toPhone \o <<>> = toPhone
  BY SilentBatches, ConcatEmptySeq DEF TypeOK, LinkTypeOK
<1>4. PICK row \in Rows(NextIndex) :
        \/ /\ row # End
           /\ pm_index' = NextIndex
           /\ state' = "PM"
           /\ toPhone' = toPhone \o PmRequests(row)
           /\ UNCHANGED pm
        \/ row = End /\ StartSync(NextIndex, sysinfo, <<>>)
  BY DEF PmFinished
<1>5. CASE /\ row # End
           /\ pm_index' = NextIndex
           /\ state' = "PM"
           /\ toPhone' = toPhone \o PmRequests(row)
           /\ UNCHANGED pm
  <2> DEFINE q == PmReq(row[1], row[2])
  <2>1. pm_index + 1 < Len(Bands) /\ row = Bands[pm_index + 2] /\ pm_index + 2 \in DOMAIN Bands
    <3>1. pm_index + 1 # Len(Bands)
      BY <1>1, <1>5 DEF Rows
    <3>2. pm_index + 1 < Len(Bands)
      BY <1>1, <1>2, <3>1
    <3>3. row = Bands[(pm_index + 1) + 1] /\ (pm_index + 1) + 1 = pm_index + 2
      BY <1>1, <1>2, <3>2 DEF Rows
    <3> QED
      BY <1>2, <3>2, <3>3, BandFacts
  <2>2. Current' = row
    <3>1. pm_index' + 1 = pm_index + 2
      BY <1>1, <1>2, <1>5
    <3> QED
      BY <2>1, <3>1 DEF Current
  <2>3. q \in PhoneMsg /\ Asks(q) /\ q.from = row[1] /\ q.to = row[2]
    BY <2>1, PhoneMsgs DEF PmReq, Asks
  <2>4. toPhone' = toPhone \o <<>> \o <<ResetReq, q>>
    BY <1>3, <1>5 DEF PmRequests
  <2>5. Swept'
    <3>1. ASSUME NEW j \in DOMAIN Bands, NEW a \in Range2Set(Bands[j])
          PROVE  (j <= pm_index' => pm'[a].meas) /\ (j > pm_index' + 1 => ~pm'[a].meas)
      <4>1. j > pm_index + 2 => j > pm_index + 1
        BY <1>2, BandFacts
      <4>2. j > pm_index + 1 => ~pm[a].meas
        BY <1>1 DEF Books, Swept
      <4>3. pm_index' = pm_index + 1 /\ pm_index' + 1 = pm_index + 2
        BY <1>1, <1>2, <1>5
      <4> QED
        BY <1>1, <1>5, <4>1, <4>2, <4>3
    <3>2. pm_index' < Len(Bands)
      BY <1>1, <1>5, <2>1
    <3> QED
      BY <1>1, <1>5, <3>1, <3>2 DEF Books, Swept
  <2>6. \A a \in Range2Set(row) : ~pm'[a].meas
    <3>1. pm_index + 2 > pm_index + 1
      BY <1>2
    <3> QED
      BY <1>1, <1>5, <2>1, <3>1 DEF Books, Swept
  <2> HIDE DEF q
  <2> QED
    BY <1>1, <1>3, <2>2, <2>3, <2>4, <2>5, <2>6, AskedBooks DEF Books
<1>6. CASE row = End /\ StartSync(NextIndex, sysinfo, <<>>)
  <2>1. ~(pm_index + 1 < Len(Bands))
    <3>1. ASSUME pm_index + 1 < Len(Bands) PROVE FALSE
      <4>1. row = Bands[(pm_index + 1) + 1] /\ (pm_index + 1) + 1 \in DOMAIN Bands
        BY <1>1, <1>2, <3>1, BandFacts DEF Rows
      <4> QED
        BY <1>6, <4>1, LinkAssumption DEF End
    <3> QED
      BY <3>1
  <2>2. \A j \in DOMAIN Bands : j <= pm_index + 1
    BY <1>2, <2>1, BandFacts
  <2>3. \A a \in Arfcns : pm[a].meas /\ pm[a].rxlev \in Levels
    BY <1>1, <2>2 DEF Arfcns, Books, Swept
  <2> QED
    BY <1>1, <1>3, <1>6, <2>3, StartSyncBooks DEF Books
<1> QED
  BY <1>4, <1>5, <1>6

(* Every handler of catcher keeps the books. *)
LEMMA CatcherBooks ==
  ASSUME TypeOK, OneOutstanding, MeasuresFirst, Books, CatcherNext, UNCHANGED phoneVars
  PROVE  Books'
<1>a. /\ Silent(<<>>) /\ Silent(<<CcchModeReq>>)
      /\ \A out \in {<<>>, <<CcchModeReq>>} : \A i \in DOMAIN out : out[i].type # "RESET_REQ"
  BY SilentBatches DEF CcchModeReq
<1>b. toPhone \o <<>> = toPhone
  BY ConcatEmptySeq DEF TypeOK, LinkTypeOK
<1>c. ASSUME UNCHANGED <<pm, pm_index, started>>, UNCHANGED toPhone,
             state' = state \/ (state # "PM" /\ state' # "PM"),
             UNCHANGED toHost \/ \E t : t # "PM_RES" /\ Receive(t)
      PROVE  Books'
  BY <1>a, <1>b, <1>c, KeepsBooks
<1>1. CASE ResetSignal
  <2>1. CASE started
    <3>1. Receive("RESET") /\ UNCHANGED <<pm, pm_index, started, toPhone, state>>
      BY <1>1, <2>1, Zenon DEF ResetSignal, hostVars, sweep
    <3> QED
      BY <1>c, <3>1
  <2>2. CASE ~started
    <3>1. Idle /\ NoAnswer'
      BY <1>1, <2>2, NothingAsked, AnswersLeft DEF ResetSignal
    <3>2. \A i \in DOMAIN toHost' : ~Result(toHost'[i])
      BY <1>1, <2>2, HostTaken DEF ResetSignal, Books, Results
    <3> DEFINE q == PmReq(Bands[1][1], Bands[1][2])
    <3>3. q \in PhoneMsg /\ Asks(q) /\ q.from = Bands[1][1] /\ q.to = Bands[1][2]
      BY PhoneMsgs, BandFacts DEF PmReq, Asks
    <3>4. /\ toPhone' = toPhone \o <<>> \o <<ResetReq, q>> /\ state' = "PM"
          /\ pm' = NoMeasurement /\ pm_index' = 0
      BY <1>b, <1>1, <2>2, Zenon DEF ResetSignal, PmRequests
    <3>5. /\ Swept' /\ Current' = Bands[1] /\ \A a \in Arfcns : ~pm'[a].meas
          /\ Range2Set(Bands[1]) \subseteq Arfcns
      BY <3>4, FirstBand
    <3> HIDE DEF q
    <3>6. q.from = Current'[1] /\ q.to = Current'[2] /\ \A a \in Range2Set(Current') : ~pm'[a].meas
      BY <3>3, <3>5
    <3> QED
      BY <1>a, <3>1, <3>2, <3>3, <3>4, <3>5, <3>6, AskedBooks DEF Books
  <2> QED
    BY <2>1, <2>2
<1>2. CASE PmResult
  BY <1>2, PmResultBooks
<1>3. CASE PmFinished
  BY <1>3, PmFinishedBooks
<1>4. CASE SyncResult
  <2>1. Idle /\ NoAnswer' /\ Receive("FBSB_CONF") /\ started' = started
    BY <1>4, AnswersLeft DEF SyncResult
  <2>2. state # "PM"
    BY <2>1, HostTaken DEF OneOutstanding, NoSynchronising
  <2>3. CASE Head(toHost).ok
    <3>1. UNCHANGED <<pm, pm_index, toPhone>> /\ state' = "READ"
      BY <1>4, <2>3, Zenon DEF SyncResult, sweep
    <3> QED
      BY <1>c, <2>1, <2>2, <3>1
  <2>4. CASE ~Head(toHost).ok
    <3>1. StartSync(pm_index, sysinfo, <<>>)
      BY <1>4, <2>4, Zenon DEF SyncResult
    <3> QED
      BY <1>a, <2>1, <2>2, <3>1, LeavesCell
  <2> QED
    BY <2>3, <2>4
<1>5. CASE Bcch
  <2> DEFINE m == Head(toHost).msg
             s == [sysinfo EXCEPT !.si = Store(@, m)]
             out == IF m.si = "SI3" THEN <<CcchModeReq>> ELSE <<>>
  <2>1. Receive("BCCH_IND") /\ started' = started
    BY <1>5 DEF Bcch
  <2>2. \/ UNCHANGED <<state, pm, pm_index, toPhone>>
        \/ Reading /\ NewSysinfo(s, out)
    BY <1>5 DEF Bcch, sweep
  <2>3. out \in {<<>>, <<CcchModeReq>>}
    OBVIOUS
  <2> HIDE DEF m, s, out
  <2>4. CASE UNCHANGED <<state, pm, pm_index, toPhone>>
    BY <1>c, <2>1, <2>4
  <2>5. CASE Reading /\ StartRach(s, 0, out)
    BY <2>1, <2>3, <2>5, StartRachBooks
  <2>6. CASE UNCHANGED <<state, sweep>> /\ toPhone' = toPhone \o out
    BY <1>a, <2>1, <2>3, <2>6, KeepsBooks DEF sweep
  <2> QED
    BY <2>2, <2>4, <2>5, <2>6 DEF NewSysinfo
<1>6. CASE ImmediateAssignment
  <2>1. Receive("AGCH_IND") /\ started' = started
    BY <1>6 DEF ImmediateAssignment
  <2>2. CASE Accepts(Head(toHost).refs)
    <3>1. StartSync(pm_index, sysinfo, <<>>)
      BY <1>6, <2>2, Zenon DEF ImmediateAssignment
    <3>2. Reading /\ state # "PM"
      BY <2>2 DEF Accepts, Reading
    <3> QED
      BY <1>a, <2>1, <3>1, <3>2, NothingAsked, AnswersLeft, LeavesCell
  <2>3. CASE ~Accepts(Head(toHost).refs)
    BY <1>6, <1>c, <2>1, <2>3 DEF ImmediateAssignment, sweep
  <2> QED
    BY <2>2, <2>3
<1>7. CASE ChanConf
  BY <1>7, <1>c DEF ChanConf, sweep
<1>8. CASE CcchModeConfirmed
  BY <1>8, <1>c DEF CcchModeConfirmed, hostVars, sweep
<1>9. CASE ReadTimeout
  <2>1. Reading /\ state # "PM" /\ toHost' = toHost /\ StartSync(pm_index, sysinfo, <<>>)
    BY <1>9 DEF ReadTimeout, Reading
  <2>2. Idle /\ NoAnswer'
    BY <2>1, NothingAsked DEF NoAnswer
  <2> QED
    BY <1>a, <2>1, <2>2, LeavesCell
<1>10. CASE RachTimeout
  <2>1. /\ Reading /\ toHost' = toHost /\ started' = started
        /\ StartRach(sysinfo, rach_count + 1, <<>>)
    BY <1>10 DEF RachTimeout, Reading
  <2> QED
    BY <2>1, StartRachBooks
<1>11. CASE IdleTimeout
  BY <1>11, <1>c DEF IdleTimeout, link, sweep
<1> QED
  BY <1>1, <1>2, <1>3, <1>4, <1>5, <1>6, <1>7, <1>8, <1>9, <1>10, <1>11
  DEF CatcherNext, Receipt, Timeout

-----------------------------------------------------------------------------
(* The phone. *)

(* Requests are taken in order. *)
LEMMA AskedKept ==
  ASSUME TypeOK, Asked, UNCHANGED <<started, pm, pm_index>>,
         \A a : OnLink(a)' => OnLink(a),
         UNCHANGED toPhone \/ \E t : Take(t)
  PROVE  Asked'
<1>1. Current' = Current /\ Range2Set(Current)' = Range2Set(Current)
  BY DEF Current, Range2Set
<1>2. \A a : Untouched(a) => Untouched(a)'
  BY DEF Untouched
<1>3. \A i \in DOMAIN toPhone' : toPhone'[i].type = "PM_REQ" =>
        /\ toPhone'[i].from = Current'[1] /\ toPhone'[i].to = Current'[2]
        /\ \A a \in Range2Set(Current) : Untouched(a)'
  <2>1. \A i \in DOMAIN toPhone' : \E n \in DOMAIN toPhone : toPhone'[i] = toPhone[n]
    BY PhoneTaken
  <2> QED
    BY <1>1, <1>2, <2>1 DEF Asked
<1>4. ASSUME started, NEW i \in DOMAIN toPhone', toPhone'[i].type = "RESET_REQ"
      PROVE  \E j \in DOMAIN toPhone' : i < j /\ Asks(toPhone'[j])
  <2>1. CASE UNCHANGED toPhone
    BY <1>4, <2>1 DEF Asked
  <2>2. CASE \E t : Take(t)
    <3>1. i \in Nat /\ i + 1 \in DOMAIN toPhone /\ toPhone[i + 1].type = "RESET_REQ"
      BY <1>4, <2>2, PhoneTaken
    <3>2. PICK n \in DOMAIN toPhone : i + 1 < n /\ Asks(toPhone[n])
      BY <1>4, <3>1 DEF Asked
    <3>3. n \in Nat /\ n # 1
      BY <3>1, <3>2 DEF TypeOK, LinkTypeOK
    <3>4. n - 1 \in DOMAIN toPhone' /\ toPhone'[n - 1] = toPhone[n]
      BY <2>2, <3>3, PhoneRest
    <3>5. i < n - 1
      BY <3>1, <3>2, <3>3
    <3> QED
      BY <3>2, <3>4, <3>5
  <2> QED
    BY <2>1, <2>2
<1> QED
  BY <1>1, <1>3, <1>4 DEF Asked, Asks, Untouched, OnLink, Result

(* Replies that are no results leave those on the way alone. *)
LEMMA ResultsKept ==
  ASSUME TypeOK, Books, UNCHANGED hostVars,
         \/ UNCHANGED toHost
         \/ \E out \in Seq(HostMsg) :
              Send(out) /\ \A i \in DOMAIN out : out[i].type \notin {"PM_RES", "PM_DONE"}
  PROVE  /\ Swept' /\ Results' /\ Current' = Current
         /\ \A a : (OnLink(a)' <=> OnLink(a)) /\ (Untouched(a)' <=> Untouched(a)) /\ (Known(a)' <=> Known(a))
<1>1. UNCHANGED <<started, state, pm, pm_index>>
  BY DEF hostVars, sweep
<1>2. /\ \A i \in DOMAIN toHost : i \in DOMAIN toHost' /\ toHost'[i] = toHost[i]
      /\ \A i \in DOMAIN toHost' : toHost'[i].type \in {"PM_RES", "PM_DONE"} => i \in DOMAIN toHost
  <2>1. CASE UNCHANGED toHost
    BY <2>1
  <2>2. CASE \E out \in Seq(HostMsg) :
               Send(out) /\ \A i \in DOMAIN out : out[i].type \notin {"PM_RES", "PM_DONE"}
    BY <2>2, HostSent
  <2> QED
    BY <2>1, <2>2
<1>3. \A a : (OnLink(a)' <=> OnLink(a))
  BY <1>2 DEF OnLink, Result
<1>4. /\ Current' = Current /\ Range2Set(Current)' = Range2Set(Current)
      /\ \A a : (Untouched(a)' <=> Untouched(a)) /\ (Known(a)' <=> Known(a))
  BY <1>1, <1>3 DEF Current, Untouched, Known, Range2Set
<1>5. Swept'
  BY <1>1 DEF Books, Swept
<1>6. Results'
  <2>1. \A i \in DOMAIN toHost' : Result(toHost'[i]) \/ toHost'[i].type = "PM_DONE" =>
          i \in DOMAIN toHost /\ toHost'[i] = toHost[i]
    BY <1>2 DEF Result
  <2>2. \A i \in DOMAIN toHost' : Result(toHost'[i]) =>
          /\ state' = "PM" /\ started'
          /\ toHost'[i].arfcn \in Range2Set(Current) /\ ~pm'[toHost'[i].arfcn].meas
    BY <1>1, <2>1 DEF Books, Results
  <2>3. \A i, j \in DOMAIN toHost' :
          Result(toHost'[i]) /\ Result(toHost'[j]) /\ toHost'[i].arfcn = toHost'[j].arfcn => i = j
    BY <2>1 DEF Books, Results
  <2>4. \A d \in DOMAIN toHost' : toHost'[d].type = "PM_DONE" =>
          /\ \A i \in DOMAIN toHost' : Result(toHost'[i]) => i < d
          /\ \A a \in Range2Set(Current) : Known(a)'
    BY <1>4, <2>1 DEF Books, Results
  <2> QED
    BY <1>4, <2>2, <2>3, <2>4 DEF Results, Result, Known, OnLink
<1> QED
  BY <1>3, <1>4, <1>5, <1>6

(* A step of the phone that measures nothing. *)
LEMMA PhoneKeepsBooks ==
  ASSUME TypeOK, Books, UNCHANGED hostVars, UNCHANGED phonePm,
         task' = task \/ (task # "pm" /\ task' # "pm"),
         UNCHANGED toPhone \/ \E t : Take(t),
         \/ UNCHANGED toHost
         \/ \E out \in Seq(HostMsg) :
              Send(out) /\ \A i \in DOMAIN out : out[i].type \notin {"PM_RES", "PM_DONE"}
  PROVE  Books'
<1>1. UNCHANGED <<started, state, pm, pm_index, pmNext, pmEnd, pmMsg>>
  BY DEF hostVars, sweep, phonePm
<1>2. /\ Swept' /\ Results' /\ Current' = Current
      /\ \A a : (OnLink(a)' <=> OnLink(a)) /\ (Untouched(a)' <=> Untouched(a)) /\ (Known(a)' <=> Known(a))
  BY ResultsKept
<1>3. Measuring'
  BY <1>1, <1>2 DEF Books, Measuring, Range2Set
<1>4. Asked'
  BY <1>1, <1>2, AskedKept DEF Books
<1> QED
  BY <1>2, <1>3, <1>4 DEF Books

(* The phone starts with the band it was asked for. *)
LEMMA PmRequestBooks ==
  ASSUME TypeOK, OneOutstanding, Books, PmRequest, UNCHANGED hostVars
  PROVE  Books'
<1>1. /\ Take("PM_REQ") /\ task' = "pm" /\ pmNext' = Head(toPhone).from /\ pmEnd' = Head(toPhone).to
      /\ UNCHANGED <<toHost, pmMsg>>
  BY DEF PmRequest
<1>2. UNCHANGED <<started, state, pm, pm_index>>
  BY DEF hostVars, sweep
<1>3. \A a : (OnLink(a)' <=> OnLink(a)) /\ (Untouched(a)' <=> Untouched(a)) /\ (Known(a)' <=> Known(a))
  BY <1>1, <1>2 DEF Untouched, Known, OnLink
<1>4. 1 \in DOMAIN toPhone /\ Head(toPhone) = toPhone[1] /\ toPhone[1].type = "PM_REQ"
  BY <1>1, PhoneTaken
<1>5. /\ pmNext' = Current[1] /\ pmEnd' = Current[2]
      /\ \A a \in Range2Set(Current) : Untouched(a)
  BY <1>1, <1>4 DEF Books, Asked
<1>6. pmMsg = <<>>
  <2>1. ~NoAsk
    BY <1>4 DEF NoAsk, Asks
  <2>2. task # "pm"
    BY <2>1 DEF OneOutstanding, NoWork
  <2> QED
    BY <2>2 DEF Books, Measuring
<1>7. /\ Current' = Current /\ Current[1] \in Nat /\ Current[2] \in Nat /\ Current[1] <= Current[2]
      /\ Range2Set(Current) = Current[1] .. Current[2] /\ Range2Set(Current)' = Range2Set(Current)
  <2>1. state = "PM"
    BY <1>4 DEF OneOutstanding, NoMeasuring, Reading, TypeOK, CatcherTypeOK
  <2>2. pm_index + 1 \in DOMAIN Bands
    BY <2>1, BandFacts DEF Books, Swept, TypeOK, CatcherTypeOK
  <2> QED
    BY <1>2, <2>2, BandFacts DEF Current, Range2Set
<1>8. Measuring'
  <2>1. pmNext' \in Range2Set(Current) /\ \A a \in pmNext' .. pmEnd' : Untouched(a)'
    BY <1>3, <1>5, <1>7
  <2>2. pmMsg' = <<>> /\ DOMAIN pmMsg' = {}
    BY <1>1, <1>6
  <2>3. Current[1] .. pmNext' - 1 = {}
    BY <1>5, <1>7
  <2> QED
    BY <1>1, <1>5, <1>7, <2>1, <2>2, <2>3 DEF Measuring, Untouched, OnLink, Result
<1>9. Swept' /\ Results'
  BY <1>1, <1>2 DEF Books, Swept, Results, Known, OnLink, Current
<1>10. Asked'
  BY <1>1, <1>2, <1>3, AskedKept DEF Books
<1> QED
  BY <1>8, <1>9, <1>10 DEF Books

(* The results of a batch, all of the current band and none known before. *)
Fresh(out) ==
  /\ out \in Seq(PmResults)
  /\ \A k \in DOMAIN out : out[k].arfcn \in Range2Set(Current) /\ Untouched(out[k].arfcn)
  /\ \A k, n \in DOMAIN out : out[k].arfcn = out[n].arfcn => k = n

(* A batch of results, and the answer when the band is complete. *)
LEMMA BatchSent ==
  ASSUME TypeOK, Results, NoAnswer, state = "PM", started, UNCHANGED hostVars,
         NEW out, Fresh(out), NEW last \in {<<>>, <<PmDone>>}, Send(out \o last),
         last # <<>> => \A a \in Range2Set(Current) : Known(a) \/ \E k \in DOMAIN out : out[k].arfcn = a
  PROVE  /\ Results'
         /\ \A a : OnLink(a)' <=> (OnLink(a) \/ \E k \in DOMAIN out : out[k].arfcn = a)
<1> DEFINE b == out \o last
           L == Len(toHost)
<1>1. UNCHANGED <<started, state, pm, pm_index>>
  BY DEF hostVars, sweep
<1>2. out \in Seq(HostMsg) /\ last \in Seq(HostMsg) /\ \A k \in DOMAIN out : Result(out[k])
  <2>1. out \in Seq(HostMsg)
    BY HostMsgs, SeqMonotonic DEF Fresh
  <2>2. \A k \in DOMAIN out : out[k] \in PmResults
    BY DEF Fresh
  <2>3. \A m \in PmResults : Result(m)
    BY DEF PmResults, Result
  <2>4. last \in Seq(HostMsg)
    <3>1. PmDone \in HostMsg
      BY HostMsgs
    <3>2. <<PmDone>> \in Seq(HostMsg) /\ <<>> \in Seq(HostMsg)
      BY <3>1
    <3> QED
      BY <3>2
  <2> QED
    BY <2>1, <2>2, <2>3, <2>4
<1>3. /\ b \in Seq(HostMsg)
      /\ \A i \in DOMAIN out : i \in DOMAIN b /\ b[i] = out[i]
      /\ \A i \in DOMAIN b : i \notin DOMAIN out => last # <<>> /\ i = Len(out) + 1 /\ b[i] = PmDone
      /\ \A i \in DOMAIN b : i \in Nat
  <2>1. /\ out \o last \in Seq(HostMsg)
        /\ \A i \in DOMAIN out : i \in DOMAIN (out \o last) /\ (out \o last)[i] = out[i]
        /\ \A i \in DOMAIN (out \o last) : i \notin DOMAIN out =>
             i - Len(out) \in DOMAIN last /\ (out \o last)[i] = last[i - Len(out)]
    <3>1. out \in Seq(HostMsg) /\ last \in Seq(HostMsg)
      BY <1>2
    <3> DEFINE r == out \o last
    <3>2. \A p \in Seq(HostMsg), w \in Seq(HostMsg) :
            /\ p \o w \in Seq(HostMsg)
            /\ \A i \in DOMAIN p : i \in DOMAIN (p \o w) /\ (p \o w)[i] = p[i]
            /\ \A i \in DOMAIN (p \o w) : i \notin DOMAIN p =>
                 i - Len(p) \in DOMAIN w /\ (p \o w)[i] = w[i - Len(p)]
      BY Appended
    <3>3. /\ r \in Seq(HostMsg)
          /\ \A i \in DOMAIN out : i \in DOMAIN r /\ r[i] = out[i]
          /\ \A i \in DOMAIN r : i \notin DOMAIN out =>
               i - Len(out) \in DOMAIN last /\ r[i] = last[i - Len(out)]
      BY <3>1, <3>2, Zenon
    <3> QED
      BY <3>3
  <2>2. \A k \in DOMAIN last : last # <<>> /\ k = 1 /\ last[k] = PmDone
    OBVIOUS
  <2>3. Len(out) \in Nat /\ \A i \in DOMAIN (out \o last) : i \in Nat
    BY <1>2, <2>1
  <2>4. \A i \in DOMAIN (out \o last) : i - Len(out) = 1 => i = Len(out) + 1
    BY <2>3
  <2> QED
    BY <2>1, <2>2, <2>3, <2>4
<1> HIDE DEF b
<1>4. /\ \A i \in DOMAIN toHost : i \in DOMAIN toHost' /\ toHost'[i] = toHost[i]
      /\ \A i \in DOMAIN toHost' : i \notin DOMAIN toHost => i - L \in DOMAIN b /\ toHost'[i] = b[i - L]
  BY <1>3, HostSent DEF b
<1>5. /\ L \in Nat /\ DOMAIN toHost = 1 .. L
      /\ toHost' = toHost \o b /\ Len(toHost') = L + Len(b) /\ DOMAIN toHost' = 1 .. L + Len(b)
      /\ \A k \in DOMAIN b : L + k \in DOMAIN toHost' /\ toHost'[L + k] = b[k]
  <2>1. toHost \in Seq(HostMsg) /\ toHost' = toHost \o b
    BY DEF TypeOK, LinkTypeOK, Send, b
  <2>2. /\ toHost \o b \in Seq(HostMsg) /\ Len(toHost \o b) = L + Len(b)
        /\ \A i \in 1 .. Len(toHost) + Len(b) :
             (toHost \o b)[i] = IF i <= Len(toHost) THEN toHost[i] ELSE b[i - Len(toHost)]
    BY <1>3, <2>1, ConcatProperties
  <2>3. L \in Nat /\ Len(b) \in Nat /\ DOMAIN b = 1 .. Len(b)
    BY <1>3, <2>1
  <2>4. \A k \in DOMAIN b : L + k \in 1 .. L + Len(b) /\ ~(L + k <= L) /\ (L + k) - L = k
    BY <2>3
  <2> QED
    BY <2>1, <2>2, <2>3, <2>4
<1> HIDE DEF L
(* Where each result of the new link stands. *)
<1>6. \A i \in DOMAIN toHost' : Result(toHost'[i]) =>
        \/ i \in DOMAIN toHost /\ toHost'[i] = toHost[i]
        \/ i \notin DOMAIN toHost /\ i - L \in DOMAIN out /\ toHost'[i] = out[i - L]
  BY <1>3, <1>4 DEF Result, PmDone
<1>7. \A i \in DOMAIN toHost' : toHost'[i].type = "PM_DONE" =>
        /\ i \notin DOMAIN toHost /\ i = L + (Len(out) + 1) /\ last # <<>>
  <2> SUFFICES ASSUME NEW i \in DOMAIN toHost', toHost'[i].type = "PM_DONE"
               PROVE  i \notin DOMAIN toHost /\ i = L + (Len(out) + 1) /\ last # <<>>
    OBVIOUS
  <2>1. i \notin DOMAIN toHost
    BY <1>4 DEF NoAnswer, Answers
  <2>2. i - L \in DOMAIN b /\ b[i - L].type = "PM_DONE" /\ i \in Nat
    BY <1>4, <1>5, <2>1
  <2>3. i - L \notin DOMAIN out
    BY <1>2, <1>3, <2>2 DEF Result
  <2>4. i - L = Len(out) + 1 /\ last # <<>>
    BY <1>3, <2>2, <2>3
  <2>5. Len(out) \in Nat /\ L \in Nat
    BY <1>2, <1>5
  <2>6. \A x, y, z \in Nat : x - y = z + 1 => x = y + (z + 1)
    OBVIOUS
  <2>7. i = L + (Len(out) + 1)
    BY <2>2, <2>4, <2>5, <2>6
  <2> QED
    BY <2>1, <2>4, <2>7
<1>8. Current' = Current /\ Range2Set(Current)' = Range2Set(Current)
  BY <1>1 DEF Current, Range2Set
<1>9. \A a : OnLink(a)' <=> (OnLink(a) \/ \E k \in DOMAIN out : out[k].arfcn = a)
  <2>1. \A a : OnLink(a)' => (OnLink(a) \/ \E k \in DOMAIN out : out[k].arfcn = a)
    BY <1>6 DEF OnLink, Result
  <2>2. \A a : OnLink(a) => OnLink(a)'
    BY <1>4 DEF OnLink, Result
  <2>3. ASSUME NEW k \in DOMAIN out PROVE OnLink(out[k].arfcn)'
    <3>1. L + k \in DOMAIN toHost' /\ toHost'[L + k] = out[k] /\ Result(out[k])
      BY <1>2, <1>3, <1>5
    <3> QED
      BY <3>1, Zenon DEF OnLink, Result
  <2> QED
    BY <2>1, <2>2, <2>3
<1>10. \A i \in DOMAIN toHost' : Result(toHost'[i]) =>
         toHost'[i].arfcn \in Range2Set(Current) /\ ~pm[toHost'[i].arfcn].meas
  BY <1>6 DEF Results, Fresh, Untouched
<1>11. ASSUME NEW i \in DOMAIN toHost', NEW j \in DOMAIN toHost', Result(toHost'[i]), Result(toHost'[j]),
              toHost'[i].arfcn = toHost'[j].arfcn
       PROVE  i = j
  <2>1. CASE i \in DOMAIN toHost /\ j \in DOMAIN toHost
    BY <1>4, <1>11, <2>1 DEF Results
  <2>2. CASE i \notin DOMAIN toHost /\ j \notin DOMAIN toHost
    <3>1. i - L = j - L
      BY <1>6, <1>11, <2>2 DEF Fresh
    <3> QED
      BY <1>5, <3>1
  <2>3. ASSUME NEW n \in DOMAIN toHost', NEW k \in DOMAIN toHost', n \in DOMAIN toHost, k \notin DOMAIN toHost,
               Result(toHost'[n]), Result(toHost'[k]), toHost'[n].arfcn = toHost'[k].arfcn
        PROVE  FALSE
    <3>1. OnLink(toHost'[n].arfcn)
      BY <1>4, <2>3 DEF OnLink
    <3>2. Untouched(toHost'[k].arfcn)
      BY <1>6, <2>3 DEF Fresh
    <3> QED
      BY <2>3, <3>1, <3>2 DEF Untouched
  <2> QED
    BY <1>11, <2>1, <2>2, <2>3
<1>12. ASSUME NEW d \in DOMAIN toHost', toHost'[d].type = "PM_DONE"
       PROVE  /\ \A i \in DOMAIN toHost' : Result(toHost'[i]) => i < d
              /\ \A a \in Range2Set(Current) : Known(a)'
  <2>1. d = L + (Len(out) + 1) /\ last # <<>>
    BY <1>7, <1>12
  <2>2. Len(out) \in Nat /\ DOMAIN out = 1 .. Len(out)
    BY <1>2
  <2>3. ASSUME NEW i \in DOMAIN toHost', Result(toHost'[i]) PROVE i < d
    <3>1. i \in 1 .. L \/ i - L \in 1 .. Len(out)
      BY <1>5, <1>6, <2>2, <2>3
    <3> QED
      BY <1>5, <2>1, <2>2, <3>1
  <2>4. \A a \in Range2Set(Current) : Known(a)'
    BY <1>1, <1>9, <2>1 DEF Known
  <2> QED
    BY <2>3, <2>4
<1> QED
  BY <1>1, <1>8, <1>9, <1>10, <1>11, <1>12 DEF Results, Result, Known, OnLink

(* The phone while it measures. *)
LEMMA AtWork ==
  ASSUME TypeOK, OneOutstanding, Books, task = "pm"
  PROVE  /\ state = "PM" /\ started /\ NoAnswer /\ NoAsk
         /\ pmNext \in Nat /\ Current[1] \in Nat /\ Current[2] \in Nat
         /\ Current[1] <= pmNext /\ pmNext <= Current[2] /\ pmEnd = Current[2]
         /\ Range2Set(Current) = Current[1] .. Current[2] /\ Range2Set(Current) \subseteq Arfcns
<1>1. ~NoWork /\ ~NoMeasuring
  BY DEF NoWork, NoMeasuring
<1>2. state = "PM" /\ started
  BY <1>1 DEF OneOutstanding, TypeOK, CatcherTypeOK, Reading
<1>3. NoAnswer /\ NoAsk
  BY <1>1 DEF OneOutstanding
<1>4. pm_index + 1 \in DOMAIN Bands
  BY <1>2, BandFacts DEF Books, Swept, TypeOK, CatcherTypeOK
<1>5. /\ Current[1] \in Nat /\ Current[2] \in Nat
      /\ Range2Set(Current) = Current[1] .. Current[2] /\ Range2Set(Current) \subseteq Arfcns
  BY <1>4, BandFacts DEF Current, Range2Set
<1>6. pmNext \in Range2Set(Current) /\ pmEnd = Current[2]
  BY DEF Books, Measuring
<1> QED
  BY <1>2, <1>3, <1>5, <1>6

(* The results kept so far and the next one. *)
LEMMA OneMoreResult ==
  ASSUME TypeOK, OneOutstanding, Books, task = "pm", NEW lev \in Levels
  PROVE  LET w == pmMsg \o <<PmRes(pmNext, lev)>> IN
         /\ Fresh(pmMsg) /\ Fresh(w)
         /\ \A k \in DOMAIN w : w[k].arfcn \in Current[1] .. pmNext
         /\ \A a \in Current[1] .. pmNext : Known(a) \/ \E k \in DOMAIN w : w[k].arfcn = a
<1> DEFINE r == PmRes(pmNext, lev)
           w == pmMsg \o <<r>>
<1>1. /\ pmNext \in Nat /\ Current[1] \in Nat /\ Current[2] \in Nat
      /\ Current[1] <= pmNext /\ pmNext <= Current[2] /\ pmEnd = Current[2]
      /\ Range2Set(Current) = Current[1] .. Current[2] /\ Range2Set(Current) \subseteq Arfcns
  BY AtWork
<1>2. r \in PmResults /\ r.arfcn = pmNext
  <2>1. pmNext \in Arfcns
    BY <1>1
  <2> QED
    BY <2>1, HostMsgs DEF PmRes
<1> HIDE DEF r
<1>3. /\ pmMsg \in Seq(PmResults)
      /\ \A k \in DOMAIN pmMsg :
           pmMsg[k].arfcn \in Current[1] .. pmNext - 1 /\ Untouched(pmMsg[k].arfcn)
      /\ \A k, n \in DOMAIN pmMsg : pmMsg[k].arfcn = pmMsg[n].arfcn => k = n
      /\ \A a \in Current[1] .. pmNext - 1 :
           Known(a) \/ \E k \in DOMAIN pmMsg : pmMsg[k].arfcn = a
      /\ Untouched(pmNext)
  BY <1>1 DEF Books, Measuring, TypeOK, Layer1TypeOK
<1>4. /\ w \in Seq(PmResults) /\ Len(w) = Len(pmMsg) + 1 /\ Len(pmMsg) \in Nat
      /\ DOMAIN w = 1 .. Len(pmMsg) + 1 /\ DOMAIN pmMsg = 1 .. Len(pmMsg)
      /\ \A k \in DOMAIN pmMsg : k \in DOMAIN w /\ w[k] = pmMsg[k]
      /\ w[Len(pmMsg) + 1] = r
  BY <1>2, <1>3
<1> HIDE DEF w
<1>5. \A k \in DOMAIN w : k \in DOMAIN pmMsg \/ (k = Len(pmMsg) + 1 /\ w[k] = r)
  BY <1>4
<1>6. Fresh(pmMsg)
  <2>1. Current[1] .. pmNext - 1 \subseteq Range2Set(Current)
    BY <1>1
  <2> QED
    BY <1>3, <2>1 DEF Fresh
<1>7. \A k \in DOMAIN w : w[k].arfcn \in Current[1] .. pmNext /\ Untouched(w[k].arfcn)
  <2>1. Current[1] .. pmNext - 1 \subseteq Current[1] .. pmNext /\ pmNext \in Current[1] .. pmNext
    BY <1>1
  <2> QED
    BY <1>2, <1>3, <1>4, <1>5, <2>1
<1>8. ASSUME NEW k \in DOMAIN w, NEW n \in DOMAIN w, w[k].arfcn = w[n].arfcn PROVE k = n
  <2>1. \A i \in DOMAIN pmMsg : pmMsg[i].arfcn # pmNext
    BY <1>1, <1>3
  <2> QED
    BY <1>2, <1>3, <1>4, <1>5, <1>8, <2>1
<1>9. Fresh(w)
  <2>1. Current[1] .. pmNext \subseteq Range2Set(Current)
    BY <1>1
  <2> QED
    BY <1>4, <1>7, <1>8, <2>1 DEF Fresh
<1>10. ASSUME NEW a \in Current[1] .. pmNext PROVE Known(a) \/ \E k \in DOMAIN w : w[k].arfcn = a
  <2>1. CASE a = pmNext
    <3>1. Len(pmMsg) + 1 \in DOMAIN w
      BY <1>4
    <3> QED
      BY <1>2, <1>4, <2>1, <3>1
  <2>2. CASE a # pmNext
    <3>1. a \in Current[1] .. pmNext - 1
      BY <1>1, <2>2
    <3> QED
      BY <1>3, <1>4, <3>1
  <2> QED
    BY <2>1, <2>2
<1> QED
  BY <1>6, <1>7, <1>9, <1>10 DEF w, r

(* One ARFCN is measured. *)
LEMMA MeasureNextBooks ==
  ASSUME TypeOK, OneOutstanding, Books, MeasureNext, UNCHANGED hostVars
  PROVE  Books'
<1> DEFINE full == Len(pmMsg) = PmBatch
<1>1. PICK lev \in Levels :
        LET r == PmRes(pmNext, lev)
            msg == (IF full THEN <<>> ELSE pmMsg) \o <<r>>
            flush == IF full THEN pmMsg ELSE <<>>
        IN \/ /\ pmNext # pmEnd /\ pmNext' = pmNext + 1 /\ pmMsg' = msg
              /\ Send(flush) /\ task' = task
           \/ /\ pmNext = pmEnd /\ pmMsg' = <<>>
              /\ Send(flush \o msg \o <<PmDone>>) /\ task' = "idle"
  BY DEF MeasureNext
<1>2. task = "pm" /\ UNCHANGED <<toPhone, pmEnd>>
  BY DEF MeasureNext
<1>3. /\ state = "PM" /\ started /\ NoAnswer /\ NoAsk
      /\ pmNext \in Nat /\ Current[1] \in Nat /\ Current[2] \in Nat
      /\ Current[1] <= pmNext /\ pmNext <= Current[2] /\ pmEnd = Current[2]
      /\ Range2Set(Current) = Current[1] .. Current[2] /\ Range2Set(Current) \subseteq Arfcns
  BY <1>2, AtWork
<1>4. UNCHANGED <<started, state, pm, pm_index>> /\ Current' = Current
  BY DEF hostVars, sweep, Current
<1> DEFINE r == PmRes(pmNext, lev)
           w == pmMsg \o <<r>>
<1>5. /\ Fresh(pmMsg) /\ Fresh(w)
      /\ \A k \in DOMAIN w : w[k].arfcn \in Current[1] .. pmNext
      /\ \A a \in Current[1] .. pmNext : Known(a) \/ \E k \in DOMAIN w : w[k].arfcn = a
  BY <1>2, OneMoreResult
<1>6. r.arfcn = pmNext
  BY DEF PmRes
<1> HIDE DEF r
<1>7. Swept'
  BY <1>4 DEF Books, Swept
<1>8. Asked'
  BY <1>2, <1>3, <1>4 DEF Books, Asked, NoAsk, Asks
<1>9. /\ \A a \in pmNext .. pmEnd : Untouched(a)
      /\ \A k \in DOMAIN pmMsg :
           pmMsg[k].arfcn \in Current[1] .. pmNext - 1 /\ Untouched(pmMsg[k].arfcn)
      /\ \A a \in Current[1] .. pmNext - 1 :
           Known(a) \/ \E k \in DOMAIN pmMsg : pmMsg[k].arfcn = a
  BY <1>2 DEF Books, Measuring
<1>10. CASE pmNext # pmEnd /\ ~full /\ pmNext' = pmNext + 1 /\ pmMsg' = w /\ Send(<<>>) /\ task' = task
  <2>1. toHost' = toHost
    BY <1>10, ConcatEmptySeq DEF Send, TypeOK, LinkTypeOK
  <2>2. \A a : (OnLink(a)' <=> OnLink(a)) /\ (Untouched(a)' <=> Untouched(a)) /\ (Known(a)' <=> Known(a))
    BY <1>4, <2>1 DEF OnLink, Untouched, Known
  <2>3. Results'
    BY <1>4, <2>1 DEF Books, Results, Known, OnLink, Result, Range2Set
  <2>4. /\ pmNext' - 1 = pmNext /\ pmNext' \in Range2Set(Current)
        /\ pmNext' .. pmEnd \subseteq pmNext .. pmEnd
    BY <1>3, <1>10
  <2>5. \A a \in pmNext' .. pmEnd : Untouched(a)'
    BY <1>9, <2>2, <2>4
  <2> HIDE DEF w
  <2>6. \A k \in DOMAIN w : w[k].arfcn \in Current[1] .. pmNext /\ Untouched(w[k].arfcn)
    BY <1>5 DEF Fresh
  <2>7. \A k \in DOMAIN w : ~pm'[w[k].arfcn].meas /\ ~OnLink(w[k].arfcn)
    BY <1>4, <2>6 DEF Untouched
  <2>8. \A k, n \in DOMAIN w : w[k].arfcn = w[n].arfcn => k = n
    BY <1>5 DEF Fresh
  <2>9. \A a \in Current[1] .. pmNext : Known(a)' \/ \E k \in DOMAIN w : w[k].arfcn = a
    BY <1>5, <2>2
  <2>10. Measuring'
    <3>1. pmNext' \in Range2Set(Current)' /\ pmEnd' = Current'[2] /\ task' = "pm"
      BY <1>2, <1>3, <1>4, <1>10, <2>4 DEF Range2Set
    <3>2. \A a \in pmNext' .. pmEnd' : Untouched(a)'
      BY <1>2, <2>5
    <3>3. \A k \in DOMAIN pmMsg' : /\ pmMsg'[k].arfcn \in Current'[1] .. pmNext' - 1
                                   /\ ~pm'[pmMsg'[k].arfcn].meas
                                   /\ ~OnLink(pmMsg'[k].arfcn)
      BY <1>4, <1>10, <2>4, <2>6, <2>7
    <3>4. \A k, n \in DOMAIN pmMsg' : pmMsg'[k].arfcn = pmMsg'[n].arfcn => k = n
      BY <1>10, <2>8
    <3>5. \A a \in Current'[1] .. pmNext' - 1 : Known(a)' \/ \E k \in DOMAIN pmMsg' : pmMsg'[k].arfcn = a
      BY <1>4, <1>10, <2>4, <2>9
    <3> QED
      BY <2>1, <3>1, <3>2, <3>3, <3>4, <3>5 DEF Measuring, Untouched, Known, OnLink, Result
  <2> QED
    BY <1>7, <1>8, <2>3, <2>10 DEF Books
<1>11. CASE pmNext # pmEnd /\ full /\ pmNext' = pmNext + 1 /\ pmMsg' = <<r>> /\ Send(pmMsg) /\ task' = task
  <2>1. pmMsg \o <<>> = pmMsg
    BY ConcatEmptySeq DEF TypeOK, Layer1TypeOK
  <2>2. /\ Results'
        /\ \A a : OnLink(a)' <=> (OnLink(a) \/ \E k \in DOMAIN pmMsg : pmMsg[k].arfcn = a)
    BY <1>3, <1>5, <1>11, <2>1, BatchSent DEF Books
  <2>3. /\ pmNext' - 1 = pmNext /\ pmNext' \in Range2Set(Current)
        /\ pmNext' .. pmEnd \subseteq pmNext .. pmEnd /\ pmNext \in pmNext .. pmEnd
        /\ pmNext \in Current[1] .. pmNext
        /\ \A a \in pmNext .. pmEnd : a \notin Current[1] .. pmNext - 1
        /\ \A a \in Current[1] .. pmNext : a = pmNext \/ a \in Current[1] .. pmNext - 1
    BY <1>3, <1>11
  <2>4. \A a \in pmNext .. pmEnd : Untouched(a)'
    BY <1>4, <1>9, <2>2, <2>3 DEF Untouched
  <2>5. \A a \in Current[1] .. pmNext - 1 : Known(a)'
    BY <1>4, <1>9, <2>2 DEF Known
  <2>6. DOMAIN pmMsg' = {1} /\ pmMsg'[1].arfcn = pmNext
    BY <1>6, <1>11
  <2>7. Measuring'
    <3>1. pmNext' \in Range2Set(Current)' /\ pmEnd' = Current'[2] /\ task' = "pm"
      BY <1>2, <1>3, <1>4, <1>11, <2>3 DEF Range2Set
    <3>2. \A a \in pmNext' .. pmEnd' : Untouched(a)'
      BY <1>2, <2>3, <2>4
    <3>3. \A k \in DOMAIN pmMsg' : pmMsg'[k].arfcn \in Current'[1] .. pmNext' - 1
      BY <1>4, <2>3, <2>6
    <3>4. \A a : a = pmNext => Untouched(a)'
      BY <2>3, <2>4
    <3>5. \A k \in DOMAIN pmMsg' : /\ ~pm'[pmMsg'[k].arfcn].meas
                                   /\ ~\E i \in DOMAIN toHost' :
                                          Result(toHost'[i]) /\ toHost'[i].arfcn = pmMsg'[k].arfcn
      BY <2>6, <3>4 DEF Untouched, OnLink, Result
    <3>6. \A a \in Current'[1] .. pmNext' - 1 : Known(a)' \/ \E k \in DOMAIN pmMsg' : pmMsg'[k].arfcn = a
      BY <1>4, <2>3, <2>5, <2>6
    <3> QED
      BY <1>4, <2>6, <3>1, <3>2, <3>3, <3>4, <3>5, <3>6
      DEF Measuring, Untouched, Known, OnLink, Result
  <2> QED
    BY <1>7, <1>8, <2>2, <2>7 DEF Books
<1>12. CASE pmNext = pmEnd /\ pmMsg' = <<>> /\ Send(w \o <<PmDone>>) /\ task' = "idle"
  <2>1. \A a \in Range2Set(Current) : Known(a) \/ \E k \in DOMAIN w : w[k].arfcn = a
    BY <1>3, <1>5, <1>12
  <2> HIDE DEF w
  <2>2. Results'
    BY <1>3, <1>5, <1>12, <2>1, BatchSent DEF Books
  <2>3. Measuring'
    BY <1>12 DEF Measuring
  <2> QED
    BY <1>7, <1>8, <2>2, <2>3 DEF Books
<1>13. /\ <<>> \o <<r>> = <<r>> /\ <<>> \o w = w
  <2>1. <<r>> \in Seq(PmResults)
    <3>1. pmNext \in Arfcns
      BY <1>3
    <3>2. r \in PmResults
      BY <3>1, HostMsgs DEF r
    <3> QED
      BY <3>2
  <2> QED
    BY <1>5, <2>1, ConcatEmptySeq DEF Fresh
<1> QED
  BY <1>1, <1>10, <1>11, <1>12, <1>13 DEF r

(* A phone that is switched off and on forgets what it measured. *)
LEMMA BootBooks ==
  ASSUME TypeOK, Books, Boot, UNCHANGED hostVars
  PROVE  Books'
<1>1. /\ Send(<<Reset>>) /\ <<Reset>> \in Seq(HostMsg)
      /\ \A i \in DOMAIN <<Reset>> : <<Reset>>[i].type \notin {"PM_RES", "PM_DONE"}
  BY HostMsgs DEF Boot, Reset
<1>2. Swept' /\ Results'
  BY <1>1, ResultsKept
<1>3. task' = "idle" /\ pmMsg' = <<>> /\ DOMAIN toPhone' = {}
  BY DEF Boot
<1>4. Measuring' /\ Asked'
  BY <1>3 DEF Measuring, Asked
<1> QED
  BY <1>2, <1>4 DEF Books

(* Every step of the phone keeps the books. *)
LEMMA Layer1Books ==
  ASSUME TypeOK, OneOutstanding, Books, Layer1Next, UNCHANGED hostVars
  PROVE  Books'
<1>a. \A m \in HostMsg : m.type \notin {"PM_RES", "PM_DONE"} =>
        /\ <<m>> \in Seq(HostMsg)
        /\ \A i \in DOMAIN <<m>> : <<m>>[i].type \notin {"PM_RES", "PM_DONE"}
  OBVIOUS
<1>1. CASE ResetRequest
  <2>1. /\ Send(<<Reset>>) /\ Reset \in HostMsg /\ Reset.type = "RESET"
        /\ UNCHANGED phonePm /\ task' = "idle" /\ Take("RESET_REQ")
    BY <1>1, HostMsgs DEF ResetRequest, ResetSchedulers, Reset
  <2>2. task # "pm"
    <3> SUFFICES ASSUME task = "pm" PROVE FALSE
      OBVIOUS
    <3>1. 1 \in DOMAIN toPhone /\ toPhone[1].type = "RESET_REQ"
      BY <2>1, PhoneTaken
    <3>2. started /\ NoAsk
      BY AtWork
    <3> QED
      BY <3>1, <3>2 DEF Books, Asked, NoAsk
  <2> QED
    BY <1>a, <2>1, <2>2, PhoneKeepsBooks
<1>2. CASE PmRequest
  BY <1>2, PmRequestBooks
<1>3. CASE FbsbRequest
  <2>1. Take("FBSB_REQ") /\ task' = "fbsb" /\ UNCHANGED <<toHost, phonePm>>
    BY <1>3 DEF FbsbRequest, ResetSchedulers
  <2>2. task # "pm"
    BY <2>1, AskTaken DEF NoWork
  <2> QED
    BY <2>1, <2>2, PhoneKeepsBooks
<1>4. CASE CcchModeRequest
  <2>1. /\ Send(<<CcchModeConf>>) /\ CcchModeConf \in HostMsg /\ CcchModeConf.type = "CCCH_MODE_CONF"
        /\ UNCHANGED <<task, phonePm>> /\ \E t : Take(t)
    BY <1>4, HostMsgs DEF CcchModeRequest, CcchModeConf
  <2> QED
    BY <1>a, <2>1, PhoneKeepsBooks
<1>5. CASE RachRequest
  <2>1. UNCHANGED <<toHost, task, phonePm>> /\ \E t : Take(t)
    BY <1>5 DEF RachRequest
  <2> QED
    BY <2>1, PhoneKeepsBooks
<1>6. CASE MeasureNext
  BY <1>6, MeasureNextBooks
<1>7. CASE Synchronise \/ GiveUpSync
  <2>1. task = "fbsb" /\ task' \in {"camped", "idle"} /\ UNCHANGED <<toPhone, toHost, phonePm>>
    BY <1>7 DEF Synchronise, GiveUpSync, link
  <2> QED
    BY <2>1, PhoneKeepsBooks
<1>8. CASE TransmitRach
  <2>1. UNCHANGED <<toPhone, toHost, task, phonePm>>
    BY <1>8 DEF TransmitRach, link
  <2> QED
    BY <2>1, PhoneKeepsBooks
<1>9. CASE HearBcch
  <2>1. PICK m \in Air[tuned] : Send(<<BcchInd(m)>>)
    BY <1>9 DEF HearBcch
  <2>2. BcchInd(m) \in HostMsg /\ BcchInd(m).type = "BCCH_IND"
    BY <1>9, LinkAssumption, HostMsgs
    DEF HearBcch, Listening, TypeOK, Layer1TypeOK, BcchInd
  <2>3. UNCHANGED <<toPhone, task, phonePm>>
    BY <1>9 DEF HearBcch, phoneVars
  <2> QED
    BY <1>a, <2>1, <2>2, <2>3, PhoneKeepsBooks
<1>10. CASE HearAgch
  <2>1. PICK refs \in SUBSET [ra : RA, fn : 0 .. fn] : Send(<<AgchInd(refs)>>)
    BY <1>10 DEF HearAgch
  <2>2. AgchInd(refs) \in HostMsg /\ AgchInd(refs).type = "AGCH_IND"
    BY HostMsgs, Layer1Assumption DEF Ref, TypeOK, Layer1TypeOK, AgchInd
  <2>3. UNCHANGED <<toPhone, task, phonePm>>
    BY <1>10 DEF HearAgch, phoneVars
  <2> QED
    BY <1>a, <2>1, <2>2, <2>3, PhoneKeepsBooks
<1>11. CASE SyncCompletion
  <2>1. FbsbConf(synced) \in HostMsg /\ FbsbConf(synced).type = "FBSB_CONF"
    BY HostMsgs DEF TypeOK, Layer1TypeOK, FbsbConf
  <2>2. UNCHANGED <<toPhone, task, phonePm>> /\ Send(<<FbsbConf(synced)>>)
    BY <1>11 DEF SyncCompletion
  <2> QED
    BY <1>a, <2>1, <2>2, PhoneKeepsBooks
<1>12. CASE RachCompletion
  <2>1. RachConf(lastRach) \in HostMsg /\ RachConf(lastRach).type = "RACH_CONF"
    BY HostMsgs DEF TypeOK, Layer1TypeOK, RachConf
  <2>2. UNCHANGED <<toPhone, task, phonePm>> /\ Send(<<RachConf(lastRach)>>)
    BY <1>12 DEF RachCompletion
  <2> QED
    BY <1>a, <2>1, <2>2, PhoneKeepsBooks
<1>13. CASE Boot
  BY <1>13, BootBooks
<1> QED
  BY <1>1, <1>2, <1>3, <1>4, <1>5, <1>6, <1>7, <1>8, <1>9, <1>10, <1>11, <1>12, <1>13
  DEF Layer1Next, Request, Radio, Completion, Cell

(* The books are right in every state, unless an earlier client left work. *)
LEMMA BooksInvariant ==
  ASSUME ~Leftover
  PROVE  Spec => []Books
<1>1. Init => Books
  <2> SUFFICES ASSUME Init PROVE Books
    OBVIOUS
  <2>1. /\ toHost = <<>> /\ toPhone = <<ResetReq>> /\ pmMsg = <<>> /\ task \notin {"pm", "fbsb"}
        /\ ~started /\ pm = NoMeasurement /\ pm_index = 0 /\ state = "PM"
    BY DEF Init, CatcherInit, Layer1Init
  <2>2. Swept
    <3>1. \A a \in Arfcns : ~pm[a].meas /\ ~pm[a].sync
      BY <2>1 DEF NoMeasurement
    <3>2. 0 < Len(Bands) /\ \A j \in DOMAIN Bands : j \in Nat /\ j > 0 /\ Range2Set(Bands[j]) \subseteq Arfcns
      BY BandFacts
    <3> QED
      BY <2>1, <3>1, <3>2 DEF Swept
  <2>3. Results /\ Measuring /\ Asked
    BY <2>1 DEF Results, Measuring, Asked, ResetReq
  <2> QED
    BY <2>2, <2>3 DEF Books
<1>2. RequestInv /\ Books /\ [Next]_vars => Books'
  <2> SUFFICES ASSUME RequestInv, Books, [Next]_vars PROVE Books'
    OBVIOUS
  <2>1. CASE CatcherNext /\ UNCHANGED phoneVars
    BY <2>1, CatcherBooks DEF RequestInv
  <2>2. CASE Layer1Next /\ UNCHANGED hostVars
    BY <2>2, Layer1Books DEF RequestInv
  <2>3. CASE UNCHANGED vars
    BY <2>3 DEF vars, link, hostVars, sweep, phoneVars, phonePm, Books, Swept, Results, Measuring,
                Asked, Current, Known, Untouched, OnLink, Result
  <2> QED
    BY <2>1, <2>2, <2>3 DEF Next
<1> QED
  BY <1>1, <1>2, RequestInvariant, PTL DEF Spec

-----------------------------------------------------------------------------
(* How many cells are left. *)

LEMMA ArfcnsFinite == IsFiniteSet(Arfcns)
<1> DEFINE f == [i \in DOMAIN Bands |-> Range2Set(Bands[i])]
           R == {Range2Set(Bands[i]) : i \in DOMAIN Bands}
<1>1. DOMAIN Bands = 1 .. Len(Bands) /\ Len(Bands) \in Nat
  BY BandFacts
<1>2. IsFiniteSet(DOMAIN Bands)
  BY <1>1, FS_Interval
<1>3. f \in Surjection(DOMAIN Bands, R)
  BY DEF Surjection
<1>4. IsFiniteSet(R)
  BY <1>2, <1>3, FS_Surjection
<1>5. \A T \in R : IsFiniteSet(T)
  <2> SUFFICES ASSUME NEW i \in DOMAIN Bands PROVE IsFiniteSet(Range2Set(Bands[i]))
    OBVIOUS
  <2>1. Bands[i][1] \in Int /\ Bands[i][2] \in Int
    BY LinkAssumption
  <2> QED
    BY <2>1, FS_Interval DEF Range2Set
<1>6. Arfcns = UNION R
  BY DEF Arfcns
<1> HIDE DEF R
<1> QED
  BY <1>4, <1>5, <1>6, FS_UNION

(* The cells that SyncsLeft counts. *)
LeftCells == {a \in Unsynced : pm[a].rxlev >= MIN_RXLEV}

LEMMA LeftFinite ==
  IsFiniteSet(LeftCells) /\ Cardinality(LeftCells) \in Nat /\ SyncsLeft = Cardinality(LeftCells)
<1>1. LeftCells \in SUBSET Arfcns
  BY DEF LeftCells, Unsynced
<1> QED
  BY <1>1, ArfcnsFinite, FS_Subset, FS_CardinalityType DEF LeftCells, SyncsLeft

LEMMA NoneMeasured ==
  ASSUME pm' = NoMeasurement, sync_count' = 0
  PROVE  SyncCountExact'
<1>1. {a \in Arfcns : pm'[a].meas /\ ~pm'[a].sync} = {}
  BY DEF NoMeasurement
<1>2. SyncsLeft' = Cardinality({})
  <2>1. {a \in {b \in Arfcns : pm'[b].meas /\ ~pm'[b].sync} : pm'[a].rxlev >= MIN_RXLEV} = {}
    BY <1>1
  <2> QED
    BY <2>1 DEF SyncsLeft, Unsynced
<1> QED
  BY <1>2, FS_EmptySet DEF SyncCountExact

LEMMA StartSyncCount ==
  ASSUME TypeOK, SyncCountExact, NEW index, NEW s, NEW out, StartSync(index, s, out)
  PROVE  SyncCountExact'
<1>1. ASSUME NEW a \in Arfcns, TuneTo(a, index, out) PROVE SyncCountExact'
  <2>1. /\ a \in LeftCells /\ sync_count' = sync_count - 1
        /\ pm' = [pm EXCEPT ![a].sync = TRUE]
    BY <1>1 DEF TuneTo, NextCell, Strongest, LeftCells
  <2>2. pm'[a].sync /\ \A b \in Arfcns : b # a => pm'[b] = pm[b]
    BY <2>1 DEF TypeOK, CatcherTypeOK
  <2>3. LeftCells' = LeftCells \ {a}
    BY <2>2 DEF LeftCells, Unsynced
  <2>4. Cardinality(LeftCells \ {a}) = Cardinality(LeftCells) - 1
    BY <2>1, LeftFinite, FS_RemoveElement
  <2>5. SyncsLeft' = Cardinality(LeftCells')
    BY DEF SyncsLeft, LeftCells
  <2> QED
    BY <2>1, <2>3, <2>4, <2>5, LeftFinite DEF SyncCountExact
<1>2. ASSUME NewSweep(s, out) PROVE SyncCountExact'
  BY <1>2, NoneMeasured DEF NewSweep
<1> QED
  BY <1>1, <1>2 DEF StartSync

(* A result is counted when it makes a cell one to tune to, and not twice. *)
LEMMA PmResultCount ==
  ASSUME TypeOK, Books, SyncCountExact, PmResult, UNCHANGED phoneVars
  PROVE  SyncCountExact'
<1> DEFINE r == Head(toHost)
           b == r.arfcn
<1>1. b \in Arfcns /\ ~pm[b].meas /\ ~pm[b].sync
  BY PmResultBooks
<1>2. /\ pm' = [pm EXCEPT ![b].meas = TRUE, ![b].rxlev = r.rxlev]
      /\ sync_count' = IF r.rxlev >= MIN_RXLEV THEN sync_count + 1 ELSE sync_count
  BY DEF PmResult
<1> HIDE DEF r
<1>3. /\ pm'[b].meas /\ ~pm'[b].sync /\ pm'[b].rxlev = r.rxlev
      /\ \A a \in Arfcns : a # b => pm'[a] = pm[a]
  BY <1>1, <1>2 DEF TypeOK, CatcherTypeOK
<1>4. b \notin LeftCells
  BY <1>1 DEF LeftCells, Unsynced
<1> HIDE DEF b
<1>5. LeftCells' = IF r.rxlev >= MIN_RXLEV THEN LeftCells \cup {b} ELSE LeftCells
  BY <1>1, <1>3, <1>4 DEF LeftCells, Unsynced
<1>6. Cardinality(LeftCells \cup {b}) = Cardinality(LeftCells) + 1
  BY <1>4, LeftFinite, FS_AddElement
<1>7. SyncsLeft' = Cardinality(LeftCells')
  BY DEF SyncsLeft, LeftCells
<1> QED
  BY <1>2, <1>5, <1>6, <1>7, LeftFinite DEF SyncCountExact

LEMMA CountStep ==
  ASSUME TypeOK, Books, SyncCountExact, [Next]_vars
  PROVE  SyncCountExact'
<1>a. ASSUME UNCHANGED <<pm, sync_count>> PROVE SyncCountExact'
  BY <1>a DEF SyncCountExact, SyncsLeft, Unsynced
<1>1. CASE CatcherNext /\ UNCHANGED phoneVars
  <2>1. CASE ResetSignal
    <3>1. (pm' = NoMeasurement /\ sync_count' = 0) \/ UNCHANGED <<pm, sync_count>>
      BY <2>1 DEF ResetSignal, hostVars, sweep
    <3> QED
      BY <1>a, <3>1, NoneMeasured
  <2>2. CASE PmResult
    BY <1>1, <2>2, PmResultCount
  <2>3. CASE PmFinished
    <3>1. UNCHANGED <<pm, sync_count>> \/ StartSync(NextIndex, sysinfo, <<>>)
      BY <2>3 DEF PmFinished
    <3> QED
      BY <1>a, <3>1, StartSyncCount
  <2>4. CASE SyncResult
    <3>1. UNCHANGED <<pm, sync_count>> \/ StartSync(pm_index, sysinfo, <<>>)
      BY <2>4 DEF SyncResult, sweep
    <3> QED
      BY <1>a, <3>1, StartSyncCount
  <2>5. ASSUME NEW s, NEW n, NEW out, StartRach(s, n, out) PROVE SyncCountExact'
    <3>1. UNCHANGED <<pm, sync_count>> \/ StartSync(pm_index, s, out)
      BY <2>5 DEF StartRach, SendBurst, sweep
    <3> QED
      BY <1>a, <3>1, StartSyncCount
  <2>6. CASE Bcch
    <3>1. \/ UNCHANGED <<pm, sync_count>>
          \/ StartRach([sysinfo EXCEPT !.si = Store(@, Head(toHost).msg)], 0,
                       IF Head(toHost).msg.si = "SI3" THEN <<CcchModeReq>> ELSE <<>>)
      BY <2>6 DEF Bcch, NewSysinfo, sweep
    <3> QED
      BY <1>a, <2>5, <3>1
  <2>7. CASE ImmediateAssignment
    <3>1. UNCHANGED <<pm, sync_count>> \/ StartSync(pm_index, sysinfo, <<>>)
      BY <2>7 DEF ImmediateAssignment, sweep
    <3> QED
      BY <1>a, <3>1, StartSyncCount
  <2>8. CASE ChanConf \/ CcchModeConfirmed \/ IdleTimeout
    BY <1>a, <2>8 DEF ChanConf, CcchModeConfirmed, IdleTimeout, hostVars, sweep
  <2>9. CASE ReadTimeout
    BY <2>9, StartSyncCount DEF ReadTimeout
  <2>10. CASE RachTimeout
    BY <2>5, <2>10 DEF RachTimeout
  <2> QED
    BY <1>1, <2>1, <2>2, <2>3, <2>4, <2>6, <2>7, <2>8, <2>9, <2>10
    DEF CatcherNext, Receipt, Timeout
<1>2. CASE UNCHANGED hostVars
  BY <1>a, <1>2 DEF hostVars, sweep
<1>3. CASE UNCHANGED vars
  BY <1>2, <1>3 DEF vars
<1> QED
  BY <1>1, <1>2, <1>3 DEF Next

(***************************************************************************)
(* Unless an earlier client left the phone busy, the number of cells       *)
(* catcher prints as left to tune to is exact in every state, although it  *)
(* counts results one by one as they arrive, over any number of resets and *)
(* reboots of the phone and for any bands, levels and batch size           *)
(* (SyncCountExact; catcher.c:399 start_sync, 448 signal_cb).              *)
(***************************************************************************)
THEOREM SyncsLeftExact ==
  ASSUME ~Leftover
  PROVE  Spec => []SyncCountExact
<1>1. Init => SyncCountExact
  <2> SUFFICES ASSUME Init PROVE SyncCountExact
    OBVIOUS
  <2>1. pm = NoMeasurement /\ sync_count = 0
    BY DEF Init, CatcherInit
  <2>2. {a \in Unsynced : pm[a].rxlev >= MIN_RXLEV} = {}
    BY <2>1 DEF NoMeasurement, Unsynced
  <2> QED
    BY <2>1, <2>2, FS_EmptySet DEF SyncCountExact, SyncsLeft
<1>2. RequestInv /\ Books /\ SyncCountExact /\ [Next]_vars => SyncCountExact'
  BY CountStep DEF RequestInv
<1> QED
  BY <1>1, <1>2, RequestInvariant, BooksInvariant, PTL DEF Spec

-----------------------------------------------------------------------------
(* The abstract scanner: catcher with its phone implements Sweep when no     *)
(* earlier client left the phone busy and cells do not change what they      *)
(* broadcast.                                                                *)

(* Each cell broadcasts one message of each type. *)
Steady == \A a \in Arfcns : \A m, n \in Air[a] : m.si = n.si => m = n

Broadcasts(m) == m.arfcn \in Arfcns /\ m \in Air[m.arfcn]

(* What is read of a cell, and complete before bursts are sent. *)
ReadInv ==
  /\ \A i \in DOMAIN toHost : toHost[i].type = "BCCH_IND" => Broadcasts(toHost[i].msg)
  /\ \A m \in sysinfo.si : Broadcasts(m)
  /\ state # "PM" => sysinfo.arfcn \in Arfcns
  /\ state = "RACH" => Complete(sysinfo.si)

SweepInv == CellInv /\ Books /\ ReadInv

-----------------------------------------------------------------------------
(* The system information that is read. *)

(* A handler keeps what is on the link. *)
LEMMA HostOnly ==
  ASSUME TypeOK, ReadInv, (\E t : Receive(t)) \/ UNCHANGED toHost
  PROVE  \A i \in DOMAIN toHost' : toHost'[i].type = "BCCH_IND" => Broadcasts(toHost'[i].msg)
<1>1. \A i \in DOMAIN toHost' : \E n \in DOMAIN toHost : toHost'[i] = toHost[n]
  BY HostTaken
<1> QED
  BY <1>1 DEF ReadInv

LEMMA StartSyncReads ==
  ASSUME NEW index, NEW s, \A m \in s.si : Broadcasts(m), NEW out, StartSync(index, s, out)
  PROVE  /\ \A m \in sysinfo'.si : Broadcasts(m)
         /\ state' \in {"PM", "SYNC"}
         /\ state' # "PM" => sysinfo'.arfcn \in Arfcns
<1>1. ASSUME NEW a \in Arfcns, TuneTo(a, index, out)
      PROVE  sysinfo'.arfcn = a /\ sysinfo'.si = {} /\ state' = "SYNC"
  <2>1. sysinfo' = [arfcn |-> a, si |-> {}] /\ state' = "SYNC"
    BY <1>1 DEF TuneTo
  <2> QED
    BY <2>1
<1>2. ASSUME NewSweep(s, out) PROVE sysinfo' = s /\ state' = "PM"
  BY <1>2 DEF NewSweep
<1> QED
  BY <1>1, <1>2 DEF StartSync

(* start_rach is reached only with complete system information. *)
LEMMA StartRachReads ==
  ASSUME NEW s, s.arfcn \in Arfcns, \A m \in s.si : Broadcasts(m), Complete(s.si),
         NEW n, NEW out, StartRach(s, n, out)
  PROVE  /\ \A m \in sysinfo'.si : Broadcasts(m)
         /\ state' # "PM" => sysinfo'.arfcn \in Arfcns
         /\ state' = "RACH" => Complete(sysinfo'.si)
<1>1. CASE SendBurst(s, n, out)
  BY <1>1 DEF SendBurst
<1>2. CASE StartSync(pm_index, s, out)
  BY <1>2, StartSyncReads
<1> QED
  BY <1>1, <1>2 DEF StartRach

(* Storing one more message of a steady cell completes or leaves complete. *)
LEMMA StaysComplete ==
  ASSUME Steady, NEW si, NEW m, NEW a \in Arfcns, si \subseteq Air[a], m \in Air[a], m \notin si,
         Complete(si)
  PROVE  Complete(Store(si, m))
<1>1. Store(si, m) = si \cup {m}
  BY DEF Store, Steady
<1>2. \A t : Has(si, t) => ~(m.si = t)
  BY DEF Has, Steady
<1>3. \A t : Has(si, t) => Has(si \cup {m}, t)
  BY DEF Has
<1>4. \A t : Has(si, t) /\ Announced(si \cup {m}, t) => Announced(si, t)
  BY <1>2 DEF Announced
<1> QED
  BY <1>1, <1>3, <1>4 DEF Complete

(* The message just received, stored. *)
LEMMA StoredReads ==
  ASSUME CellInv, ReadInv, Receive("BCCH_IND"), Reading
  PROVE  LET m == Head(toHost).msg
             s == [sysinfo EXCEPT !.si = Store(@, m)]
         IN /\ m \in Air[sysinfo.arfcn] /\ sysinfo.arfcn \in Arfcns /\ sysinfo.si \subseteq Air[sysinfo.arfcn]
            /\ s = [arfcn |-> sysinfo.arfcn, si |-> Store(sysinfo.si, m)]
            /\ \A n \in Store(sysinfo.si, m) : Broadcasts(n)
            /\ Store(sysinfo.si, m) \subseteq Air[sysinfo.arfcn]
<1> USE DEF CellInv, RequestInv
<1> DEFINE m == Head(toHost).msg
<1>1. 1 \in DOMAIN toHost /\ toHost[1] = Head(toHost) /\ toHost[1].type = "BCCH_IND"
  BY HostTaken
<1>2. Broadcasts(m) /\ m.arfcn = sysinfo.arfcn
  BY <1>1 DEF ReadInv, TunedCell, Own
<1>3. \A n \in sysinfo.si : Broadcasts(n) /\ n.arfcn = sysinfo.arfcn
  BY DEF ReadInv, OwnSysinfo
<1>4. [sysinfo EXCEPT !.si = Store(@, m)] = [arfcn |-> sysinfo.arfcn, si |-> Store(sysinfo.si, m)]
  BY DEF TypeOK, CatcherTypeOK, Report
<1> HIDE DEF m
<1>5. \A n \in Store(sysinfo.si, m) : Broadcasts(n) /\ n.arfcn = sysinfo.arfcn
  BY <1>2, <1>3 DEF Store
<1> QED
  BY <1>2, <1>3, <1>4, <1>5 DEF Broadcasts, m

LEMMA CatcherReads ==
  ASSUME Steady, CellInv, ReadInv, CatcherNext
  PROVE  ReadInv'
<1> USE DEF CellInv, RequestInv
<1>a. ASSUME (\E t : Receive(t)) \/ UNCHANGED toHost,
             \A m \in sysinfo'.si : Broadcasts(m),
             state' # "PM" => sysinfo'.arfcn \in Arfcns,
             state' = "RACH" => Complete(sysinfo'.si)
      PROVE  ReadInv'
  BY <1>a, HostOnly DEF ReadInv, Broadcasts
<1>b. /\ \A m \in sysinfo.si : Broadcasts(m)
      /\ state # "PM" => sysinfo.arfcn \in Arfcns
      /\ state = "RACH" => Complete(sysinfo.si)
  BY DEF ReadInv
<1>c. ASSUME (\E t : Receive(t)) \/ UNCHANGED toHost, sysinfo' = sysinfo,
             state' \in {"PM", state} \/ (state # "PM" /\ state' # "RACH")
      PROVE  ReadInv'
  BY <1>a, <1>b, <1>c
<1>d. ASSUME (\E t : Receive(t)) \/ UNCHANGED toHost,
             NEW index, StartSync(index, sysinfo, <<>>)
      PROVE  ReadInv'
  BY <1>a, <1>b, <1>d, StartSyncReads
<1>1. CASE ResetSignal
  BY <1>1, <1>c DEF ResetSignal, hostVars
<1>2. CASE PmResult
  BY <1>2, <1>c DEF PmResult
<1>3. CASE PmFinished
  <2>1. \/ sysinfo' = sysinfo /\ state' = "PM"
        \/ StartSync(NextIndex, sysinfo, <<>>)
    BY <1>3 DEF PmFinished
  <2>2. Receive("PM_DONE")
    BY <1>3 DEF PmFinished
  <2> QED
    BY <1>c, <1>d, <2>1, <2>2
<1>4. CASE SyncResult
  <2>1. state # "PM"
    <3>1. 1 \in DOMAIN toHost /\ toHost[1].type = "FBSB_CONF"
      BY <1>4, HostTaken DEF SyncResult
    <3> QED
      BY <3>1 DEF OneOutstanding, NoSynchronising
  <2>2. \/ sysinfo' = sysinfo /\ state' = "READ"
        \/ StartSync(pm_index, sysinfo, <<>>)
    BY <1>4 DEF SyncResult
  <2>3. Receive("FBSB_CONF")
    BY <1>4 DEF SyncResult
  <2> QED
    BY <1>c, <1>d, <2>1, <2>2, <2>3
<1>5. CASE Bcch
  <2> DEFINE m == Head(toHost).msg
             s == [sysinfo EXCEPT !.si = Store(@, m)]
             out == IF m.si = "SI3" THEN <<CcchModeReq>> ELSE <<>>
  <2>1. Receive("BCCH_IND")
    BY <1>5 DEF Bcch
  <2>2. \/ UNCHANGED <<state, sysinfo>>
        \/ Reading /\ m \notin sysinfo.si /\ NewSysinfo(s, out)
    BY <1>5 DEF Bcch
  <2>3. Reading => /\ s = [arfcn |-> sysinfo.arfcn, si |-> Store(sysinfo.si, m)]
                   /\ m \in Air[sysinfo.arfcn] /\ sysinfo.arfcn \in Arfcns
                   /\ sysinfo.si \subseteq Air[sysinfo.arfcn]
                   /\ \A n \in Store(sysinfo.si, m) : Broadcasts(n)
    BY <2>1, StoredReads
  <2> HIDE DEF s
  <2>4. Reading => s.arfcn = sysinfo.arfcn /\ s.si = Store(sysinfo.si, m)
    BY <2>3
  <2> HIDE DEF m, out
  <2>5. CASE UNCHANGED <<state, sysinfo>>
    BY <1>c, <2>1, <2>5
  <2>6. CASE Reading /\ ~Complete(s.si) /\ sysinfo' = s /\ state' = state /\ m \notin sysinfo.si
    <3>1. state' # "RACH"
      BY <1>b, <2>3, <2>4, <2>6, StaysComplete
    <3> QED
      BY <1>a, <2>1, <2>3, <2>4, <2>6, <3>1
  <2>7. CASE Reading /\ Complete(s.si) /\ StartRach(s, 0, out)
    BY <1>a, <2>1, <2>3, <2>4, <2>7, StartRachReads
  <2> QED
    BY <2>2, <2>5, <2>6, <2>7 DEF NewSysinfo
<1>6. CASE ImmediateAssignment
  <2>1. UNCHANGED <<sysinfo, state>> \/ StartSync(pm_index, sysinfo, <<>>)
    BY <1>6 DEF ImmediateAssignment
  <2>2. Receive("AGCH_IND")
    BY <1>6 DEF ImmediateAssignment
  <2> QED
    BY <1>c, <1>d, <2>1, <2>2
<1>7. CASE ChanConf
  BY <1>7, <1>c DEF ChanConf
<1>8. CASE CcchModeConfirmed
  BY <1>8, <1>c DEF CcchModeConfirmed, hostVars
<1>9. CASE ReadTimeout
  BY <1>9, <1>d DEF ReadTimeout
<1>10. CASE RachTimeout
  <2>1. toHost' = toHost /\ state = "RACH" /\ StartRach(sysinfo, rach_count + 1, <<>>)
    BY <1>10 DEF RachTimeout
  <2> QED
    BY <1>a, <1>b, <2>1, StartRachReads
<1>11. CASE IdleTimeout
  BY <1>11, <1>c DEF IdleTimeout, link
<1> QED
  BY <1>1, <1>2, <1>3, <1>4, <1>5, <1>6, <1>7, <1>8, <1>9, <1>10, <1>11
  DEF CatcherNext, Receipt, Timeout

(* A step of the phone appends nothing but what the tuned cell broadcasts. *)
LEMMA PhoneReads ==
  ASSUME TypeOK, ReadInv, UNCHANGED hostVars,
         \/ UNCHANGED toHost
         \/ \E out \in Seq(HostMsg) :
              Send(out) /\ \A i \in DOMAIN out : out[i].type = "BCCH_IND" => Broadcasts(out[i].msg)
  PROVE  ReadInv'
<1>1. \A i \in DOMAIN toHost' : toHost'[i].type = "BCCH_IND" => Broadcasts(toHost'[i].msg)
  <2>1. CASE UNCHANGED toHost
    BY <2>1 DEF ReadInv
  <2>2. CASE \E out \in Seq(HostMsg) :
               Send(out) /\ \A i \in DOMAIN out : out[i].type = "BCCH_IND" => Broadcasts(out[i].msg)
    <3>1. PICK out \in Seq(HostMsg) :
            Send(out) /\ \A i \in DOMAIN out : out[i].type = "BCCH_IND" => Broadcasts(out[i].msg)
      BY <2>2
    <3>2. /\ \A i \in DOMAIN toHost : i \in DOMAIN toHost' /\ toHost'[i] = toHost[i]
          /\ \A i \in DOMAIN toHost' : i \notin DOMAIN toHost =>
               i - Len(toHost) \in DOMAIN out /\ toHost'[i] = out[i - Len(toHost)]
      BY <3>1, HostSent
    <3> QED
      BY <3>1, <3>2 DEF ReadInv
  <2> QED
    BY <2>1, <2>2
<1>2. sysinfo' = sysinfo /\ state' = state
  BY DEF hostVars
<1> QED
  BY <1>1, <1>2 DEF ReadInv, Broadcasts

LEMMA Layer1Reads ==
  ASSUME TypeOK, ReadInv, Layer1Next, UNCHANGED hostVars
  PROVE  ReadInv'
<1>a. ASSUME NEW m \in HostMsg, m.type = "BCCH_IND" => Broadcasts(m.msg), Send(<<m>>)
      PROVE  ReadInv'
  <2>1. <<m>> \in Seq(HostMsg) /\ \A i \in DOMAIN <<m>> : <<m>>[i].type = "BCCH_IND" => Broadcasts(<<m>>[i].msg)
    BY <1>a
  <2> QED
    BY <1>a, <2>1, PhoneReads
<1>1. CASE ResetRequest \/ Boot
  <2>1. Send(<<Reset>>) /\ Reset \in HostMsg /\ Reset.type = "RESET"
    BY <1>1, HostMsgs DEF ResetRequest, Boot, Reset
  <2> QED
    BY <1>a, <2>1
<1>2. CASE PmRequest \/ FbsbRequest \/ RachRequest \/ Synchronise \/ GiveUpSync \/ TransmitRach
  <2>1. UNCHANGED toHost
    BY <1>2 DEF PmRequest, FbsbRequest, RachRequest, Synchronise, GiveUpSync, TransmitRach, link
  <2> QED
    BY <2>1, PhoneReads
<1>3. CASE CcchModeRequest
  <2>1. Send(<<CcchModeConf>>) /\ CcchModeConf \in HostMsg /\ CcchModeConf.type = "CCCH_MODE_CONF"
    BY <1>3, HostMsgs DEF CcchModeRequest, CcchModeConf
  <2> QED
    BY <1>a, <2>1
<1>4. CASE MeasureNext
  <2>1. PICK lev \in Levels :
          LET full  == Len(pmMsg) = PmBatch
              msg   == (IF full THEN <<>> ELSE pmMsg) \o <<PmRes(pmNext, lev)>>
              flush == IF full THEN pmMsg ELSE <<>>
          IN Send(flush) \/ Send(flush \o msg \o <<PmDone>>)
    BY <1>4 DEF MeasureNext
  <2> DEFINE full  == Len(pmMsg) = PmBatch
             msg   == (IF full THEN <<>> ELSE pmMsg) \o <<PmRes(pmNext, lev)>>
             flush == IF full THEN pmMsg ELSE <<>>
             Quiet == PmResults \cup {PmDone}
  <2>2. PmRes(pmNext, lev) \in PmResults
    <3>1. PICK i \in DOMAIN Bands : pmNext \in Range2Set(Bands[i])
      BY <1>4 DEF MeasureNext, TypeOK, Layer1TypeOK
    <3>2. pmNext \in Arfcns
      BY <3>1, BandFacts
    <3> QED
      BY <3>2, HostMsgs
  <2>3. pmMsg \in Seq(PmResults) /\ <<PmRes(pmNext, lev)>> \in Seq(PmResults)
    BY <2>2 DEF TypeOK, Layer1TypeOK
  <2>4. flush \in Seq(PmResults) /\ msg \in Seq(PmResults)
    BY <2>3, ConcatProperties
  <2>5. Send(flush) \/ Send(flush \o msg \o <<PmDone>>)
    BY <2>1
  <2> HIDE DEF full, msg, flush
  <2>6. Quiet \subseteq HostMsg /\ \A m \in Quiet : m.type # "BCCH_IND"
    BY HostMsgs DEF PmResults, PmDone
  <2>7. flush \in Seq(Quiet) /\ msg \in Seq(Quiet) /\ <<PmDone>> \in Seq(Quiet)
    BY <2>4, SeqMonotonic
  <2> HIDE DEF Quiet
  <2>8. PICK out \in Seq(Quiet) : Send(out)
    BY <2>5, <2>7, ConcatProperties
  <2>9. out \in Seq(HostMsg)
    BY <2>6, SeqMonotonic
  <2>10. \A i \in DOMAIN out : out[i] \in Quiet
    OBVIOUS
  <2> QED
    BY <2>6, <2>8, <2>9, <2>10, PhoneReads
<1>5. CASE HearBcch
  <2>1. PICK m \in Air[tuned] : Send(<<BcchInd(m)>>)
    BY <1>5 DEF HearBcch
  <2>2. tuned \in Arfcns
    BY <1>5 DEF HearBcch, Listening, TypeOK, Layer1TypeOK
  <2>3. m.arfcn = tuned /\ BcchInd(m) \in HostMsg
    BY <2>2, LinkAssumption, HostMsgs
  <2>4. BcchInd(m).msg = m
    BY DEF BcchInd
  <2> QED
    BY <1>a, <2>1, <2>2, <2>3, <2>4 DEF Broadcasts
<1>6. CASE HearAgch
  <2>1. PICK refs \in SUBSET [ra : RA, fn : 0 .. fn] : Send(<<AgchInd(refs)>>)
    BY <1>6 DEF HearAgch
  <2>2. AgchInd(refs) \in HostMsg /\ AgchInd(refs).type = "AGCH_IND"
    BY HostMsgs, Layer1Assumption DEF Ref, TypeOK, Layer1TypeOK, AgchInd
  <2> QED
    BY <1>a, <2>1, <2>2
<1>7. CASE SyncCompletion
  <2>1. FbsbConf(synced) \in HostMsg /\ FbsbConf(synced).type = "FBSB_CONF"
    BY HostMsgs DEF TypeOK, Layer1TypeOK, FbsbConf
  <2> QED
    BY <1>7, <1>a, <2>1 DEF SyncCompletion
<1>8. CASE RachCompletion
  <2>1. RachConf(lastRach) \in HostMsg /\ RachConf(lastRach).type = "RACH_CONF"
    BY HostMsgs DEF TypeOK, Layer1TypeOK, RachConf
  <2> QED
    BY <1>8, <1>a, <2>1 DEF RachCompletion
<1> QED
  BY <1>1, <1>2, <1>3, <1>4, <1>5, <1>6, <1>7, <1>8
  DEF Layer1Next, Request, Radio, Completion, Cell

LEMMA SweepInvariant ==
  ASSUME ~Leftover, Steady
  PROVE  Spec => []SweepInv
<1>1. Init => ReadInv
  <2> SUFFICES ASSUME Init PROVE ReadInv
    OBVIOUS
  <2>1. toHost = <<>> /\ sysinfo = [arfcn |-> 0, si |-> {}] /\ state = "PM"
    BY DEF Init, CatcherInit
  <2>2. sysinfo.si = {}
    BY <2>1
  <2> QED
    BY <2>1, <2>2 DEF ReadInv
<1>2. CellInv /\ ReadInv /\ [Next]_vars => ReadInv'
  <2> SUFFICES ASSUME CellInv, ReadInv, [Next]_vars PROVE ReadInv'
    OBVIOUS
  <2>1. CASE CatcherNext /\ UNCHANGED phoneVars
    BY <2>1, CatcherReads
  <2>2. CASE Layer1Next /\ UNCHANGED hostVars
    BY <2>2, Layer1Reads DEF CellInv, RequestInv
  <2>3. CASE UNCHANGED vars
    BY <2>3 DEF vars, link, hostVars, ReadInv, Broadcasts
  <2> QED
    BY <2>1, <2>2, <2>3 DEF Next
<1> QED
  BY <1>1, <1>2, CellInvariant, BooksInvariant, PTL DEF Spec, SweepInv

-----------------------------------------------------------------------------
(* The simulation. *)

(* The state of the abstract scanner. *)
SweepLevel == [a \in Arfcns |-> IF Visiting THEN pm[a].rxlev ELSE 0]
SweepVisited == {a \in Arfcns : Visiting /\ pm[a].sync}
SweepAt == IF Visiting THEN sysinfo.arfcn ELSE -1
SweepPhase == IF Visiting THEN "visiting" ELSE "measuring"

LEMMA SameSweep ==
  ASSUME UNCHANGED <<SweepPhase, SweepLevel, SweepVisited, SweepAt, log>>
  PROVE  UNCHANGED AbstractSweep!vars
  BY DEF AbstractSweep!vars, SweepPhase, SweepLevel, SweepVisited, SweepAt

(* start_sync, from levels lev and visited cells seen. *)
LEMMA StartSyncSimulates ==
  ASSUME TypeOK, NEW lev, NEW seen,
         lev = [a \in Arfcns |-> pm[a].rxlev], seen = {a \in Arfcns : pm[a].sync},
         \A a \in Arfcns : pm[a].meas,
         NEW index, NEW s, NEW out, StartSync(index, s, out)
  PROVE  AbstractSweep!Visit(lev, seen) \/ AbstractSweep!StartOver(lev, seen)
<1>1. Unsynced = Arfcns \ seen
  BY DEF Unsynced
<1>2. \A a \in Arfcns : NextCell(a) <=> AbstractSweep!Best(a, lev, seen)
  BY <1>1 DEF NextCell, Strongest, AbstractSweep!Best
<1>3. ASSUME NEW a \in Arfcns, TuneTo(a, index, out) PROVE AbstractSweep!Visit(lev, seen)
  <2>1. /\ NextCell(a) /\ pm' = [pm EXCEPT ![a].sync = TRUE] /\ state' = "SYNC"
        /\ sysinfo' = [arfcn |-> a, si |-> {}]
    BY <1>3 DEF TuneTo
  <2>2. /\ pm'[a].sync /\ pm'[a].rxlev = pm[a].rxlev
        /\ \A b \in Arfcns : b # a => pm'[b] = pm[b]
    BY <2>1 DEF TypeOK, CatcherTypeOK
  <2>3. Visiting' /\ sysinfo'.arfcn = a
    BY <2>1 DEF Visiting
  <2>4. [b \in Arfcns |-> IF Visiting' THEN pm'[b].rxlev ELSE 0] = lev
    BY <2>2, <2>3
  <2>5. {b \in Arfcns : Visiting' /\ pm'[b].sync} = seen \cup {a}
    BY <2>2, <2>3
  <2> QED
    BY <1>2, <2>1, <2>3, <2>4, <2>5 DEF AbstractSweep!Visit
<1>4. ASSUME NewSweep(s, out) PROVE AbstractSweep!StartOver(lev, seen)
  <2>1. Gps \/ ~\E a \in Arfcns : NextCell(a)
    BY <1>4 DEF NewSweep
  <2>2. ~Visiting'
    BY <1>4 DEF NewSweep, Visiting
  <2> QED
    BY <1>2, <2>1, <2>2 DEF AbstractSweep!StartOver, AbstractSweep!NoLevel, AbstractSweep!NoCell
<1> QED
  BY <1>3, <1>4 DEF StartSync

(* The handler of the last band's answer is the step Measured. *)
LEMMA PmFinishedSimulates ==
  ASSUME SweepInv, PmFinished, UNCHANGED phoneVars
  PROVE  AbstractSweep!Measured \/ UNCHANGED AbstractSweep!vars
<1> USE DEF SweepInv, CellInv, RequestInv
<1>1. /\ state = "PM" /\ pm_index < Len(Bands) /\ NextIndex = pm_index + 1
      /\ \A j \in DOMAIN Bands : j <= pm_index + 1 => \A a \in Range2Set(Bands[j]) : pm[a].meas
  BY BandDone DEF PmFinished
<1>2. pm_index \in Nat /\ Len(Bands) \in Nat
  BY BandFacts DEF TypeOK, CatcherTypeOK
<1>3. PICK row \in Rows(NextIndex) :
        \/ state' = "PM" /\ log' = log
        \/ row = End /\ log' = <<>> /\ StartSync(NextIndex, sysinfo, <<>>)
  BY DEF PmFinished
<1>4. CASE state' = "PM" /\ log' = log
  BY <1>1, <1>4, SameSweep DEF SweepPhase, SweepLevel, SweepVisited, SweepAt, Visiting
<1>5. CASE row = End /\ log' = <<>> /\ StartSync(NextIndex, sysinfo, <<>>)
  <2>1. ~(pm_index + 1 < Len(Bands))
    <3> SUFFICES ASSUME pm_index + 1 < Len(Bands) PROVE FALSE
      OBVIOUS
    <3>1. (pm_index + 1) + 1 \in DOMAIN Bands
      BY <1>2, BandFacts
    <3>2. row = Bands[(pm_index + 1) + 1]
      BY <1>1 DEF Rows
    <3> QED
      BY <1>5, <3>1, <3>2, LinkAssumption DEF End
  <2>2. \A j \in DOMAIN Bands : j <= pm_index + 1
    BY <1>2, <2>1, BandFacts
  <2>3. \A a \in Arfcns : pm[a].meas /\ pm[a].rxlev \in Levels /\ ~pm[a].sync
    BY <1>1, <2>2 DEF Arfcns, Books, Swept
  <2> DEFINE lev == [a \in Arfcns |-> pm[a].rxlev]
  <2>4. lev \in [Arfcns -> Levels] /\ {} = {a \in Arfcns : pm[a].sync}
    BY <2>3
  <2>5. AbstractSweep!Visit(lev, {}) \/ AbstractSweep!StartOver(lev, {})
    BY <1>5, <2>3, <2>4, StartSyncSimulates
  <2> HIDE DEF lev
  <2>6. ~Visiting
    BY <1>1 DEF Visiting
  <2> QED
    BY <1>5, <2>4, <2>5, <2>6 DEF AbstractSweep!Measured
<1> QED
  BY <1>3, <1>4, <1>5

(* A handler that is done with a cell is the step Leave. *)
LEMMA LeaveSimulates ==
  ASSUME SweepInv, Visiting, NEW index, NEW s, NEW out, StartSync(index, s, out),
         \/ log' = log
         \/ /\ log' = Append(log, s) /\ s = [arfcn |-> sysinfo.arfcn, si |-> s.si]
            /\ s.si \subseteq Air[sysinfo.arfcn] /\ Complete(s.si)
  PROVE  AbstractSweep!Leave
<1>1. TypeOK /\ \A a \in Arfcns : pm[a].meas
  BY DEF SweepInv, CellInv, RequestInv, Visiting, Books, Swept
<1>2. PICK lev : lev = [a \in Arfcns |-> pm[a].rxlev]
  OBVIOUS
<1>3. PICK seen : seen = {a \in Arfcns : pm[a].sync}
  OBVIOUS
<1>4. AbstractSweep!Visit(lev, seen) \/ AbstractSweep!StartOver(lev, seen)
  BY <1>1, <1>2, <1>3, StartSyncSimulates
<1>5. /\ [a \in Arfcns |-> IF Visiting THEN pm[a].rxlev ELSE 0] = lev
      /\ {a \in Arfcns : Visiting /\ pm[a].sync} = seen
  BY <1>2, <1>3
<1>6. log' = log \/ AbstractSweep!Report
  BY DEF AbstractSweep!Report, AbstractSweep!Complete, AbstractSweep!Has, AbstractSweep!Announced,
         Complete, Has, Announced
<1> QED
  BY <1>4, <1>5, <1>6 DEF AbstractSweep!Leave, AbstractSweep!Visit, AbstractSweep!StartOver, AbstractSweep!Best

(* A handler that stays where it is. *)
LEMMA StaySimulates ==
  ASSUME UNCHANGED <<pm, log>>, (state' # "PM") <=> (state # "PM"),
         Visiting => sysinfo'.arfcn = sysinfo.arfcn
  PROVE  UNCHANGED AbstractSweep!vars
<1>1. Visiting' <=> Visiting
  BY DEF Visiting
<1> QED
  BY <1>1, SameSweep DEF SweepPhase, SweepLevel, SweepVisited, SweepAt

(* start_rach reports the cell when its bursts are spent. *)
LEMMA StartRachSimulates ==
  ASSUME SweepInv, Reading, NEW s, s = [arfcn |-> sysinfo.arfcn, si |-> s.si],
         s.si \subseteq Air[sysinfo.arfcn], Complete(s.si), NEW n, NEW out, StartRach(s, n, out)
  PROVE  AbstractSweep!Leave \/ UNCHANGED AbstractSweep!vars
<1>1. Visiting
  BY DEF Reading, Visiting
<1>2. CASE SendBurst(s, n, out)
  <2>1. /\ UNCHANGED <<pm, log>> /\ (state' # "PM") /\ (state # "PM")
        /\ sysinfo'.arfcn = sysinfo.arfcn
    BY <1>1, <1>2 DEF SendBurst, Visiting, sweep
  <2> QED
    BY <2>1, StaySimulates
<1>3. CASE log' = Append(log, s) /\ StartSync(pm_index, s, out)
  BY <1>1, <1>3, LeaveSimulates
<1> QED
  BY <1>2, <1>3 DEF StartRach, LogSysinfo

(* What was read of the cell, when it is complete. *)
LEMMA CompleteReads ==
  ASSUME SweepInv, state = "RACH"
  PROVE  /\ Reading /\ Visiting /\ Complete(sysinfo.si)
         /\ sysinfo = [arfcn |-> sysinfo.arfcn, si |-> sysinfo.si]
         /\ sysinfo.si \subseteq Air[sysinfo.arfcn]
<1>1. sysinfo = [arfcn |-> sysinfo.arfcn, si |-> sysinfo.si]
  BY DEF SweepInv, CellInv, RequestInv, TypeOK, CatcherTypeOK, Report
<1>2. sysinfo.si \subseteq Air[sysinfo.arfcn] /\ Complete(sysinfo.si)
  BY DEF SweepInv, CellInv, OwnSysinfo, ReadInv, Broadcasts
<1> QED
  BY <1>1, <1>2 DEF Reading, Visiting

LEMMA CatcherSimulates ==
  ASSUME SweepInv, CatcherNext, UNCHANGED phoneVars
  PROVE  AbstractSweep!Next \/ UNCHANGED AbstractSweep!vars
<1>a. ASSUME UNCHANGED <<pm, log, state>>, sysinfo'.arfcn = sysinfo.arfcn
      PROVE  UNCHANGED AbstractSweep!vars
  BY <1>a, StaySimulates
<1>b. ASSUME Visiting, log' = log, NEW index, StartSync(index, sysinfo, <<>>)
      PROVE  AbstractSweep!Leave
  BY <1>b, LeaveSimulates
<1>1. CASE ResetSignal
  <2>1. UNCHANGED log /\ sysinfo' = sysinfo
    BY <1>1 DEF ResetSignal, hostVars
  <2>2. \/ UNCHANGED <<pm, state>>
        \/ state = "PM" /\ state' = "PM"
    BY <1>1 DEF ResetSignal, hostVars, sweep, SweepInv, CellInv, RequestInv, MeasuresFirst
  <2>3. ASSUME state = "PM", state' = "PM"
        PROVE  UNCHANGED AbstractSweep!vars
    BY <2>1, <2>3, SameSweep DEF SweepPhase, SweepLevel, SweepVisited, SweepAt, Visiting
  <2> QED
    BY <1>a, <2>1, <2>2, <2>3
<1>2. CASE PmResult
  <2>1. 1 \in DOMAIN toHost /\ toHost[1].type = "PM_RES"
    BY <1>2, HostTaken DEF PmResult, SweepInv, CellInv, RequestInv
  <2>2. state = "PM" /\ UNCHANGED <<state, log, sysinfo>>
    BY <1>2, <2>1 DEF PmResult, SweepInv, Books, Results, Result
  <2> QED
    BY <2>2, SameSweep DEF SweepPhase, SweepLevel, SweepVisited, SweepAt, Visiting
<1>3. CASE PmFinished
  BY <1>3, PmFinishedSimulates DEF AbstractSweep!Next
<1>4. CASE SyncResult
  <2>1. Visiting
    <3>1. 1 \in DOMAIN toHost /\ toHost[1].type = "FBSB_CONF"
      BY <1>4, HostTaken DEF SyncResult, SweepInv, CellInv, RequestInv
    <3> QED
      BY <3>1 DEF OneOutstanding, NoSynchronising, Visiting, SweepInv, CellInv, RequestInv
  <2>2. CASE state' = "READ" /\ UNCHANGED <<pm, sysinfo, log>>
    BY <2>1, <2>2, StaySimulates DEF Visiting
  <2>3. CASE StartSync(pm_index, sysinfo, <<>>) /\ log' = log
    BY <1>b, <2>1, <2>3 DEF AbstractSweep!Next
  <2> QED
    BY <1>4, <2>2, <2>3 DEF SyncResult, sweep
<1>5. CASE Bcch
  <2> DEFINE m == Head(toHost).msg
             s == [sysinfo EXCEPT !.si = Store(@, m)]
             out == IF m.si = "SI3" THEN <<CcchModeReq>> ELSE <<>>
  <2>1. Receive("BCCH_IND")
    BY <1>5 DEF Bcch
  <2>2. \/ UNCHANGED <<state, sysinfo, pm, log>>
        \/ Reading /\ NewSysinfo(s, out)
    BY <1>5 DEF Bcch, sweep
  <2>3. Reading => /\ s = [arfcn |-> sysinfo.arfcn, si |-> Store(sysinfo.si, m)]
                   /\ Store(sysinfo.si, m) \subseteq Air[sysinfo.arfcn]
    BY <2>1, StoredReads DEF SweepInv
  <2> HIDE DEF s
  <2>4. Reading => s = [arfcn |-> sysinfo.arfcn, si |-> s.si] /\ s.si \subseteq Air[sysinfo.arfcn]
    BY <2>3
  <2> HIDE DEF m, out
  <2>5. CASE UNCHANGED <<state, sysinfo, pm, log>>
    BY <1>a, <2>5
  <2>6. CASE Reading /\ sysinfo' = s /\ UNCHANGED <<state, pm, log>>
    <3>1. sysinfo'.arfcn = sysinfo.arfcn
      BY <2>4, <2>6
    <3> QED
      BY <1>a, <2>6, <3>1
  <2>7. CASE Reading /\ Complete(s.si) /\ StartRach(s, 0, out)
    BY <2>4, <2>7, StartRachSimulates DEF AbstractSweep!Next
  <2> QED
    BY <2>2, <2>5, <2>6, <2>7 DEF NewSysinfo, sweep
<1>6. CASE ImmediateAssignment
  <2>1. CASE UNCHANGED <<state, pm, sysinfo, log>>
    BY <1>a, <2>1
  <2>2. CASE state = "RACH" /\ log' = Append(log, sysinfo) /\ StartSync(pm_index, sysinfo, <<>>)
    BY <2>2, CompleteReads, LeaveSimulates DEF AbstractSweep!Next
  <2> QED
    BY <1>6, <2>1, <2>2 DEF ImmediateAssignment, Accepts, LogSysinfo, sweep
<1>7. CASE ChanConf
  BY <1>7, <1>a DEF ChanConf, sweep
<1>8. CASE CcchModeConfirmed
  BY <1>8, <1>a DEF CcchModeConfirmed, hostVars, sweep
<1>9. CASE ReadTimeout
  <2>1. Visiting /\ log' = log /\ StartSync(pm_index, sysinfo, <<>>)
    BY <1>9 DEF ReadTimeout, Visiting
  <2> QED
    BY <1>b, <2>1 DEF AbstractSweep!Next
<1>10. CASE RachTimeout
  <2>1. state = "RACH" /\ StartRach(sysinfo, rach_count + 1, <<>>)
    BY <1>10 DEF RachTimeout
  <2> QED
    BY <2>1, CompleteReads, StartRachSimulates DEF AbstractSweep!Next
<1>11. CASE IdleTimeout
  BY <1>11, <1>a DEF IdleTimeout, sweep
<1> QED
  BY <1>1, <1>2, <1>3, <1>4, <1>5, <1>6, <1>7, <1>8, <1>9, <1>10, <1>11
  DEF CatcherNext, Receipt, Timeout

(***************************************************************************)
(* catcher and the phone implement the abstract scanner: every step is one *)
(* of its steps or changes nothing it can see.  Levels are complete when   *)
(* the first cell is visited, cells are visited strongest first and each   *)
(* once, and what is logged of a cell is its own, complete system          *)
(* information (catcher.c:360 start_sync, 451 signal_cb, 621 new_sysinfo). *)
(***************************************************************************)
THEOREM ScansLikeSweep ==
  ASSUME ~Leftover, Steady
  PROVE  Spec => ImplementsSweep
<1>1. Init => AbstractSweep!Init
  <2> SUFFICES ASSUME Init PROVE AbstractSweep!Init
    OBVIOUS
  <2>1. ~Visiting /\ log = <<>>
    BY DEF Init, CatcherInit, Visiting
  <2> QED
    BY <2>1 DEF AbstractSweep!Init, AbstractSweep!NoLevel, AbstractSweep!NoCell
<1>2. SweepInv /\ [Next]_vars => [AbstractSweep!Next]_(AbstractSweep!vars)
  <2> SUFFICES ASSUME SweepInv, [Next]_vars
               PROVE  AbstractSweep!Next \/ UNCHANGED AbstractSweep!vars
    OBVIOUS
  <2>1. CASE CatcherNext /\ UNCHANGED phoneVars
    BY <2>1, CatcherSimulates
  <2>2. CASE UNCHANGED hostVars
    BY <2>2, StaySimulates DEF hostVars, sweep
  <2>3. UNCHANGED vars => UNCHANGED hostVars
    BY DEF vars
  <2> QED
    BY <2>1, <2>2, <2>3 DEF Next
<1>3. Spec => []SweepInv
  BY SweepInvariant
<1> QED
  BY <1>1, <1>2, <1>3, PTL DEF Spec, ImplementsSweep, AbstractSweep!Spec

-----------------------------------------------------------------------------
(* The bursts of catcher: which of them the phone has still to send, and     *)
(* which it has confirmed.                                                   *)

(* SI2bis and SI2ter are broadcast only by a cell that announces them. *)
Needed ==
  \A a \in Arfcns :
    /\ Has(Air[a], "SI2bis") => Announced(Air[a], "SI2")
    /\ Has(Air[a], "SI2ter") => Announced(Air[a], "SI3")

NoBurstAsked == \A i \in DOMAIN toPhone : toPhone[i].type # "RACH_REQ"
NoBurstDue == rachDue = 0 /\ "RACH" \notin compl
NoBurstConfirmed == \A i \in DOMAIN toHost : toHost[i].type # "RACH_CONF"

(* What a reset leaves of earlier bursts is executed before the next request. *)
BurstsCleared == rachDue = 0 /\ ("RACH" \in compl => "RACH" \in overdue)

(* The burst of frame f went to this cell; unless the burst is a repeated   *)
(* one, it carried the random reference catcher waits for.                  *)
OwnBurst(f) ==
  OnCell(f) /\ (rach_count = 0 => [ra |-> rach_ref.cr, fn |-> f] \in onAir)

(* Bursts asked for before the synchronisation are gone when it is taken up, *)
(* and their confirmations are in front of its answer.                       *)
SyncClears ==
  /\ \A i \in DOMAIN toPhone : toPhone[i].type = "FBSB_REQ" =>
       /\ IF i = 1 THEN BurstsCleared ELSE toPhone[i - 1].type = "RESET_REQ"
       /\ \A j \in DOMAIN toPhone : i < j => toPhone[j].type # "RACH_REQ"
  /\ NoAsk => NoBurstAsked /\ NoBurstDue
  /\ \A i \in DOMAIN toHost : toHost[i].type = "FBSB_CONF" =>
       \A j \in DOMAIN toHost : i < j => toHost[j].type # "RACH_CONF"

ReadQuiet == NoBurstAsked /\ NoBurstDue /\ NoBurstConfirmed

(* Of the first burst to a cell: it is the only one asked for, due or       *)
(* flagged, and that of rach_ref.                                           *)
FirstBurst ==
  /\ \A i, j \in DOMAIN toPhone :
       toPhone[i].type = "RACH_REQ" /\ toPhone[j].type = "RACH_REQ" => i = j
  /\ \A i \in DOMAIN toPhone : toPhone[i].type = "RACH_REQ" => toPhone[i].ra = rach_ref.cr
  /\ NoBurstAsked \/ NoBurstDue
  /\ rachDue > 0 => rachRa = rach_ref.cr

BurstUnderWay == rach_count = 0 => FirstBurst

(* What is confirmed, or about to be, was sent on the cell. *)
BurstsAreOwn ==
  /\ "RACH" \in compl => OwnBurst(lastRach)
  /\ \A i \in DOMAIN toHost : toHost[i].type = "RACH_CONF" => OwnBurst(toHost[i].fn)
  /\ rach_ref.valid => OwnBurst(rach_ref.fn)

BurstInv ==
  /\ task = "off" => ~started /\ toHost = <<>>
  /\ state = "SYNC" => SyncClears
  /\ state = "READ" => ReadQuiet
  /\ state = "RACH" => BurstUnderWay /\ BurstsAreOwn

-----------------------------------------------------------------------------
(* What catcher does about its bursts. *)

(* The queue r ends in x and y. *)
EndsIn(r, x, y) == \E n \in Nat : n > 0 /\ DOMAIN r = 1 .. n + 1 /\ r[n] = x /\ r[n + 1] = y

(* Where two more stand behind a queue. *)
LEMMA PairMore ==
  ASSUME NEW S, NEW p \in Seq(S), NEW x \in S, NEW y \in S
  PROVE  EndsIn(p \o <<x, y>>, x, y)
<1> DEFINE b == <<x, y>>
           r == p \o b
<1>1. b \in Seq(S) /\ Len(b) = 2 /\ b[1] = x /\ b[2] = y
  OBVIOUS
<1> HIDE DEF b
<1>2. /\ r \in Seq(S) /\ Len(r) = Len(p) + 2 /\ Len(p) \in Nat
      /\ \A i \in 1 .. Len(r) : r[i] = IF i <= Len(p) THEN p[i] ELSE b[i - Len(p)]
  <2>1. b \in Seq(S) /\ Len(b) = 2
    BY <1>1
  <2>2. r \in Seq(S) /\ Len(r) = Len(p) + Len(b)
    BY <2>1, ConcatProperties
  <2>3. \A i \in 1 .. Len(p) + Len(b) : r[i] = IF i <= Len(p) THEN p[i] ELSE b[i - Len(p)]
    BY <2>1, ConcatProperties
  <2>4. Len(p) \in Nat
    OBVIOUS
  <2> HIDE DEF r
  <2> QED
    BY <2>1, <2>2, <2>3, <2>4
<1> HIDE DEF r
<1>3. /\ DOMAIN r = 1 .. Len(p) + 2 /\ (Len(p) + 1) + 1 = Len(p) + 2
      /\ Len(p) + 1 \in 1 .. Len(r) /\ Len(p) + 2 \in 1 .. Len(r)
  BY <1>2
<1>4. r[Len(p) + 1] = b[(Len(p) + 1) - Len(p)] /\ (Len(p) + 1) - Len(p) = 1
  BY <1>2, <1>3
<1>5. r[Len(p) + 2] = b[(Len(p) + 2) - Len(p)] /\ (Len(p) + 2) - Len(p) = 2
  BY <1>2, <1>3
<1>6. Len(p) + 1 \in Nat /\ Len(p) + 1 > 0
  BY <1>2
<1>7. \E n \in Nat : n > 0 /\ DOMAIN r = 1 .. n + 1 /\ r[n] = x /\ r[n + 1] = y
  BY <1>1, <1>3, <1>4, <1>5, <1>6
<1> QED
  BY <1>7 DEF EndsIn, r, b

(* The pair of requests that start_sync sends last. *)
LEMMA PairLast ==
  ASSUME TypeOK, NEW out, Silent(out), NEW q \in PhoneMsg, toPhone' = toPhone \o out \o <<ResetReq, q>>
  PROVE  EndsIn(toPhone', ResetReq, q)
<1>1. toPhone \o out \in Seq(PhoneMsg) /\ ResetReq \in PhoneMsg
  BY PhoneMsgs, ConcatProperties DEF TypeOK, LinkTypeOK, Silent
<1> QED
  BY <1>1, PairMore

(* start_sync puts a reset between the bursts of old and the synchronisation. *)
LEMMA StartSyncClears ==
  ASSUME TypeOK, Idle, NoAnswer', NEW index, NEW s, NEW out, Silent(out), StartSync(index, s, out)
  PROVE  state' \in {"PM", "SYNC"} /\ (state' = "SYNC" => SyncClears')
<1>1. ASSUME NEW a \in Arfcns, TuneTo(a, index, out) PROVE state' = "SYNC" /\ SyncClears'
  <2> DEFINE q == FbsbReq(a)
  <2>1. q \in PhoneMsg /\ Asks(q) /\ q.type = "FBSB_REQ"
    BY PhoneMsgs DEF FbsbReq, Asks
  <2>2. toPhone' = toPhone \o out \o <<ResetReq, q>> /\ state' = "SYNC"
    BY <1>1 DEF TuneTo
  <2> HIDE DEF q
  <2>3. PICK n \in Nat :
          /\ n > 0 /\ DOMAIN toPhone' = 1 .. n + 1
          /\ toPhone'[n] = ResetReq /\ toPhone'[n + 1] = q
    BY <2>1, <2>2, PairLast DEF EndsIn
  <2>4. \A i, j \in DOMAIN toPhone' : Asks(toPhone'[i]) /\ Asks(toPhone'[j]) => i = j
    BY <2>1, <2>2, OneSent DEF Idle
  <2>5. ASSUME NEW i \in DOMAIN toPhone', toPhone'[i].type = "FBSB_REQ" PROVE i = n + 1
    <3>1. n + 1 \in DOMAIN toPhone'
      BY <2>3
    <3>2. Asks(toPhone'[i]) /\ Asks(toPhone'[n + 1])
      BY <2>1, <2>3, <2>5 DEF Asks
    <3> QED
      BY <2>4, <3>1, <3>2
  <2>6. ASSUME NEW i \in DOMAIN toPhone', toPhone'[i].type = "FBSB_REQ"
        PROVE  /\ i # 1 /\ toPhone'[i - 1].type = "RESET_REQ"
               /\ \A j \in DOMAIN toPhone' : ~(i < j)
    <3>1. i = n + 1 /\ i # 1 /\ i - 1 = n
      BY <2>3, <2>5, <2>6
    <3> QED
      BY <2>3, <3>1 DEF ResetReq
  <2>7. ~NoAsk'
    <3>1. n + 1 \in DOMAIN toPhone' /\ Asks(toPhone'[n + 1])
      BY <2>1, <2>3
    <3> QED
      BY <3>1 DEF NoAsk, Asks
  <2> QED
    BY <2>2, <2>6, <2>7 DEF SyncClears, NoAnswer, Answers
<1>2. ASSUME NewSweep(s, out) PROVE state' = "PM"
  BY <1>2 DEF NewSweep
<1> QED
  BY <1>1, <1>2 DEF StartSync

(* A handler that ends in start_sync. *)
LEMMA StartSyncBursts ==
  ASSUME TypeOK, BurstInv, Idle, NoAnswer', UNCHANGED phoneVars,
         (\E t : Receive(t)) \/ UNCHANGED <<toHost, started>>,
         NEW index, NEW s, NEW out, Silent(out), StartSync(index, s, out)
  PROVE  BurstInv'
<1>1. state' \in {"PM", "SYNC"} /\ (state' = "SYNC" => SyncClears')
  BY StartSyncClears
<1>2. task' = "off" => ~started' /\ toHost' = <<>>
  BY DEF BurstInv, phoneVars, Receive, HostGets
<1> QED
  BY <1>1, <1>2 DEF BurstInv

(* A handler that does not touch its burst. *)
LEMMA KeepsBursts ==
  ASSUME TypeOK, BurstInv, UNCHANGED <<state, rach>>, UNCHANGED phoneVars,
         (\E t : Receive(t)) \/ UNCHANGED <<toHost, started>>,
         NEW out, Silent(out), \A i \in DOMAIN out : out[i].type # "RACH_REQ",
         toPhone' = toPhone \o out
  PROVE  BurstInv'
<1>1. task' = "off" => ~started' /\ toHost' = <<>>
  BY DEF BurstInv, phoneVars, Receive, HostGets
<1>2. UNCHANGED <<task, compl, overdue, rachRa, rachDue, lastRach, onAir, rach_count, rach_ref>>
  BY DEF phoneVars, phoneRach, rach
<1>3. PICK d \in {0, 1} : \A i \in DOMAIN toHost' :
        i \in Nat /\ i + d \in DOMAIN toHost /\ toHost'[i] = toHost[i + d]
  <2>1. CASE UNCHANGED toHost
    BY <2>1 DEF TypeOK, LinkTypeOK
  <2>2. CASE \E t : Receive(t)
    BY <2>2, HostTaken
  <2> QED
    BY <2>1, <2>2
<1>4. /\ \A i \in DOMAIN toPhone : i \in DOMAIN toPhone' /\ toPhone'[i] = toPhone[i]
      /\ \A i \in DOMAIN toPhone' : i \in Nat /\ i > 0
      /\ \A i \in DOMAIN toPhone' : i \notin DOMAIN toPhone =>
           ~Asks(toPhone'[i]) /\ toPhone'[i].type # "RACH_REQ"
  <2>1. toPhone \in Seq(PhoneMsg) /\ out \in Seq(PhoneMsg)
    BY DEF TypeOK, LinkTypeOK, Silent
  <2>2. /\ toPhone' \in Seq(PhoneMsg)
        /\ \A i \in DOMAIN toPhone : i \in DOMAIN toPhone' /\ toPhone'[i] = toPhone[i]
        /\ \A i \in DOMAIN toPhone' : i \notin DOMAIN toPhone =>
             i - Len(toPhone) \in DOMAIN out /\ toPhone'[i] = out[i - Len(toPhone)]
    BY <2>1, Appended
  <2> QED
    BY <2>2 DEF Silent
<1>5. DOMAIN toPhone = 1 .. Len(toPhone) /\ Len(toPhone) \in Nat
  BY DEF TypeOK, LinkTypeOK
<1>6. NoAsk' => NoAsk
  BY <1>4 DEF NoAsk, Asks
<1>7. NoBurstAsked => NoBurstAsked'
  BY <1>4 DEF NoBurstAsked
<1>8. \A i \in DOMAIN toHost' : \E j \in DOMAIN toHost : toHost'[i] = toHost[j]
  BY <1>3
<1>9. NoBurstConfirmed => NoBurstConfirmed'
  BY <1>8 DEF NoBurstConfirmed
<1>10. ASSUME SyncClears PROVE SyncClears'
  <2>1. ASSUME NEW i \in DOMAIN toPhone', toPhone'[i].type = "FBSB_REQ"
        PROVE  /\ i = 1 => BurstsCleared'
               /\ i # 1 => toPhone'[i - 1].type = "RESET_REQ"
               /\ \A j \in DOMAIN toPhone' : i < j => toPhone'[j].type # "RACH_REQ"
    <3>1. i \in DOMAIN toPhone /\ toPhone[i].type = "FBSB_REQ"
      BY <1>4, <2>1 DEF Asks
    <3>2. /\ i = 1 => BurstsCleared
          /\ i # 1 => toPhone[i - 1].type = "RESET_REQ"
          /\ \A j \in DOMAIN toPhone : i < j => toPhone[j].type # "RACH_REQ"
      BY <1>10, <3>1 DEF SyncClears
    <3>3. i # 1 => i - 1 \in DOMAIN toPhone
      BY <1>5, <3>1
    <3> QED
      BY <1>2, <1>4, <3>2, <3>3 DEF BurstsCleared
  <2>2. NoAsk' => NoBurstAsked' /\ NoBurstDue'
    BY <1>2, <1>6, <1>7, <1>10 DEF SyncClears, NoBurstDue
  <2>3. ASSUME NEW i \in DOMAIN toHost', toHost'[i].type = "FBSB_CONF",
               NEW j \in DOMAIN toHost', i < j
        PROVE  toHost'[j].type # "RACH_CONF"
    <3>1. i + d \in DOMAIN toHost /\ j + d \in DOMAIN toHost /\ i + d < j + d
      BY <1>3, <2>3
    <3> QED
      BY <1>3, <1>10, <2>3, <3>1 DEF SyncClears
  <2> QED
    BY <2>1, <2>2, <2>3 DEF SyncClears
<1>11. ReadQuiet => ReadQuiet'
  BY <1>2, <1>7, <1>9 DEF ReadQuiet, NoBurstDue
<1>12. BurstUnderWay => BurstUnderWay'
  BY <1>2, <1>4, <1>7 DEF BurstUnderWay, FirstBurst, NoBurstDue
<1>13. BurstsAreOwn => BurstsAreOwn'
  BY <1>2, <1>8 DEF BurstsAreOwn, OwnBurst, OnCell
<1> QED
  BY <1>1, <1>10, <1>11, <1>12, <1>13 DEF BurstInv

(* The first burst to a cell is the only one on its way. *)
LEMMA SendBurstBursts ==
  ASSUME TypeOK, BurstInv, state = "READ", UNCHANGED phoneVars, \E t : Receive(t),
         NEW s, NEW n, NEW out \in {<<>>, <<CcchModeReq>>}, SendBurst(s, n, out)
  PROVE  BurstInv'
<1>1. PICK cr \in RA :
        /\ rach_ref' = [rach_ref EXCEPT !.valid = FALSE, !.cr = cr]
        /\ toPhone' = toPhone \o out \o <<RachReq(cr)>>
  BY DEF SendBurst
<1>2. ReadQuiet /\ state' = "RACH"
  BY DEF BurstInv, SendBurst
<1>3. rach_ref'.cr = cr /\ ~rach_ref'.valid
  BY <1>1 DEF TypeOK, CatcherTypeOK
<1>4. UNCHANGED <<task, compl, overdue, rachRa, rachDue, lastRach, onAir>>
  BY DEF phoneVars, phoneRach
<1>5. task' = "off" => ~started' /\ toHost' = <<>>
  BY <1>4 DEF BurstInv, Receive, HostGets
<1>6. NoBurstConfirmed'
  BY <1>2, HostTaken DEF ReadQuiet, NoBurstConfirmed
<1> DEFINE p == toPhone \o out
<1>7. p \in Seq(PhoneMsg) /\ \A i \in DOMAIN p : p[i].type # "RACH_REQ"
  <2>1. toPhone \in Seq(PhoneMsg) /\ out \in Seq(PhoneMsg)
    BY SilentBatches DEF TypeOK, LinkTypeOK, Silent
  <2>2. /\ p \in Seq(PhoneMsg)
        /\ \A i \in DOMAIN toPhone : p[i] = toPhone[i]
        /\ \A i \in DOMAIN p : i \notin DOMAIN toPhone =>
             i - Len(toPhone) \in DOMAIN out /\ p[i] = out[i - Len(toPhone)]
    BY <2>1, Appended
  <2>3. \A i \in DOMAIN out : out[i].type # "RACH_REQ"
    BY DEF CcchModeReq
  <2> HIDE DEF p
  <2> QED
    BY <1>2, <2>2, <2>3 DEF ReadQuiet, NoBurstAsked
<1> DEFINE b == <<RachReq(cr)>>
<1>8. b \in Seq(PhoneMsg) /\ DOMAIN b = {1} /\ b[1].ra = cr
  BY PhoneMsgs DEF RachReq
<1>9. toPhone' = p \o b
  BY <1>1
<1> HIDE DEF p, b
<1>10. \A i \in DOMAIN toPhone' : i \in Nat /\ (toPhone'[i].type = "RACH_REQ" => i = Len(p) + 1 /\ toPhone'[i].ra = cr)
  <2>1. /\ toPhone' \in Seq(PhoneMsg) /\ Len(p) \in Nat
        /\ \A i \in DOMAIN p : toPhone'[i] = p[i]
        /\ \A i \in DOMAIN toPhone' : i \notin DOMAIN p =>
             i - Len(p) \in DOMAIN b /\ toPhone'[i] = b[i - Len(p)]
    BY <1>7, <1>8, <1>9, Appended
  <2> SUFFICES ASSUME NEW i \in DOMAIN toPhone'
               PROVE  i \in Nat /\ (toPhone'[i].type = "RACH_REQ" => i = Len(p) + 1 /\ toPhone'[i].ra = cr)
    OBVIOUS
  <2>2. i \in Nat
    BY <2>1
  <2>3. CASE i \in DOMAIN p
    BY <1>7, <2>1, <2>2, <2>3
  <2>4. CASE i \notin DOMAIN p
    <3>1. i - Len(p) = 1 /\ toPhone'[i] = b[1]
      BY <1>8, <2>1, <2>4
    <3> QED
      BY <1>8, <2>1, <2>2, <3>1
  <2> QED
    BY <2>3, <2>4
<1>11. BurstUnderWay'
  BY <1>2, <1>3, <1>4, <1>10 DEF BurstUnderWay, FirstBurst, ReadQuiet, NoBurstDue
<1>12. BurstsAreOwn'
  BY <1>2, <1>3, <1>4, <1>6 DEF BurstsAreOwn, ReadQuiet, NoBurstDue, NoBurstConfirmed
<1> QED
  BY <1>2, <1>5, <1>11, <1>12 DEF BurstInv

(* A burst is repeated: whatever was confirmed before is of this cell still. *)
LEMMA RepeatBursts ==
  ASSUME TypeOK, BurstInv, state = "RACH", UNCHANGED phoneVars, UNCHANGED <<toHost, started>>,
         SendBurst(sysinfo, rach_count + 1, <<>>)
  PROVE  BurstInv'
<1>1. PICK cr \in RA : rach_ref' = [rach_ref EXCEPT !.valid = FALSE, !.cr = cr]
  BY DEF SendBurst
<1>2. ~rach_ref'.valid /\ state' = "RACH" /\ rach_count' # 0
  BY <1>1 DEF SendBurst, TypeOK, CatcherTypeOK
<1>3. UNCHANGED <<task, compl, lastRach, onAir>>
  BY DEF phoneVars, phoneRach
<1>4. BurstsAreOwn'
  BY <1>2, <1>3 DEF BurstInv, BurstsAreOwn, OwnBurst, OnCell
<1> QED
  BY <1>2, <1>3, <1>4 DEF BurstInv, BurstUnderWay

(* A cell is asked for a channel when nothing new can be heard of it. *)
LEMMA AllHeard ==
  ASSUME Steady, Needed, SweepInv, Receive("BCCH_IND"), state = "RACH"
  PROVE  Head(toHost).msg \in sysinfo.si
<1> DEFINE m == Head(toHost).msg
           A == Air[sysinfo.arfcn]
<1>1. m \in A /\ sysinfo.arfcn \in Arfcns /\ sysinfo.si \subseteq A
  BY StoredReads DEF SweepInv, Reading
<1>2. Complete(sysinfo.si)
  BY DEF SweepInv, ReadInv
<1>3. \A x, y \in A : x.si = y.si => x = y
  BY <1>1 DEF Steady
<1>4. m.si \in SIType
  BY <1>1, LinkAssumption DEF SIMessage
<1>5. /\ Has(A, "SI2bis") => Announced(A, "SI2")
      /\ Has(A, "SI2ter") => Announced(A, "SI3")
  BY <1>1 DEF Needed
<1>6. Has(A, m.si)
  BY <1>1 DEF Has
<1> HIDE DEF m, A
<1>7. \A t \in {"SI2", "SI3"} : Announced(A, t) => Announced(sysinfo.si, t)
  BY <1>1, <1>2, <1>3 DEF Complete, Has, Announced
<1>8. Has(sysinfo.si, m.si)
  BY <1>2, <1>4, <1>5, <1>6, <1>7 DEF Complete, SIType
<1>9. m \in sysinfo.si
  BY <1>1, <1>3, <1>8 DEF Has
<1> QED
  BY <1>9 DEF m

(* start_rach sends its one burst to a cell that was read, and no second. *)
LEMMA StartRachBursts ==
  ASSUME TypeOK, OneOutstanding, BurstInv, state = "READ", UNCHANGED phoneVars, \E t : Receive(t),
         NEW s, NEW n, NEW out \in {<<>>, <<CcchModeReq>>}, StartRach(s, n, out)
  PROVE  BurstInv'
<1>1. CASE SendBurst(s, n, out)
  BY <1>1, SendBurstBursts
<1>2. CASE StartSync(pm_index, s, out)
  <2>1. Idle /\ NoAnswer
    BY NothingAsked DEF Reading
  <2>2. Idle /\ NoAnswer' /\ Silent(out)
    BY <2>1, AnswersLeft, SilentBatches DEF NoAnswer
  <2> QED
    BY <1>2, <2>2, StartSyncBursts
<1> QED
  BY <1>1, <1>2 DEF StartRach

LEMMA CatcherBursts ==
  ASSUME Steady, Needed, SweepInv, BurstInv, CatcherNext, UNCHANGED phoneVars
  PROVE  BurstInv'
<1> USE DEF SweepInv, CellInv, RequestInv
<1>a. Silent(<<>>) /\ \A i \in DOMAIN <<>> : <<>>[i].type # "RACH_REQ"
  BY SilentBatches
<1>b. toPhone \o <<>> = toPhone
  BY ConcatEmptySeq DEF TypeOK, LinkTypeOK
<1>c. ASSUME (\E t : Receive(t)) \/ UNCHANGED <<toHost, started>>, UNCHANGED <<toPhone, state, rach>>
      PROVE  BurstInv'
  BY <1>a, <1>b, <1>c, KeepsBursts
<1>d. ASSUME (\E t : Receive(t)) \/ UNCHANGED <<toHost, started>>,
             Idle, NoAnswer', NEW index, StartSync(index, sysinfo, <<>>)
      PROVE  BurstInv'
  BY <1>a, <1>d, StartSyncBursts
<1>e. ASSUME \E t : Receive(t) PROVE task' # "off"
  BY <1>e DEF BurstInv, phoneVars, Receive, HostGets
<1>f. Reading => Idle /\ NoAnswer
  BY NothingAsked
<1>1. CASE ResetSignal
  <2>1. Receive("RESET") /\ (UNCHANGED <<toPhone, state, rach>> \/ state' = "PM")
    BY <1>1 DEF ResetSignal, hostVars
  <2>2. CASE state' = "PM"
    BY <1>e, <2>1, <2>2 DEF BurstInv
  <2> QED
    BY <1>c, <2>1, <2>2
<1>2. CASE PmResult
  BY <1>2, <1>c DEF PmResult
<1>3. CASE PmFinished
  <2>1. Receive("PM_DONE") /\ Idle /\ NoAnswer'
    BY <1>3, AnswersLeft DEF PmFinished
  <2>2. state' = "PM" \/ StartSync(NextIndex, sysinfo, <<>>)
    BY <1>3 DEF PmFinished
  <2>3. CASE state' = "PM"
    BY <1>e, <2>1, <2>3 DEF BurstInv
  <2> QED
    BY <1>d, <2>1, <2>2, <2>3
<1>4. CASE SyncResult
  <2>1. Receive("FBSB_CONF") /\ Idle /\ NoAnswer'
    BY <1>4, AnswersLeft DEF SyncResult
  <2>2. CASE Head(toHost).ok
    <3>1. state' = "READ" /\ toPhone' = toPhone
      BY <1>4, <2>2, Zenon DEF SyncResult
    <3>2. /\ 1 \in DOMAIN toHost /\ toHost[1].type = "FBSB_CONF"
          /\ \A i \in DOMAIN toHost' : i \in Nat /\ i + 1 \in DOMAIN toHost /\ toHost'[i] = toHost[i + 1]
      BY <2>1, HostTaken
    <3>3. state = "SYNC"
      BY <3>2 DEF OneOutstanding, NoSynchronising, Reading, TypeOK, CatcherTypeOK
    <3>4. SyncClears
      BY <3>3 DEF BurstInv
    <3>5. NoBurstAsked' /\ NoBurstDue'
      BY <2>1, <3>1, <3>4 DEF SyncClears, Idle, NoBurstAsked, NoBurstDue, phoneVars, phoneRach
    <3>6. NoBurstConfirmed'
      <4> SUFFICES ASSUME NEW i \in DOMAIN toHost' PROVE toHost'[i].type # "RACH_CONF"
        BY DEF NoBurstConfirmed
      <4>1. i \in Nat /\ i > 0 /\ i + 1 \in DOMAIN toHost /\ toHost'[i] = toHost[i + 1]
        <5>1. toHost' \in Seq(HostMsg)
          BY <2>1, HostQueue DEF TypeOK
        <5> QED
          BY <3>2, <5>1
      <4>2. 1 < i + 1
        BY <4>1
      <4> QED
        BY <3>2, <3>4, <4>1, <4>2 DEF SyncClears
    <3> QED
      BY <1>e, <2>1, <3>1, <3>5, <3>6 DEF BurstInv, ReadQuiet
  <2>3. CASE ~Head(toHost).ok
    <3>1. StartSync(pm_index, sysinfo, <<>>)
      BY <1>4, <2>3, Zenon DEF SyncResult
    <3> QED
      BY <1>d, <2>1, <3>1
  <2> QED
    BY <2>2, <2>3
<1>5. CASE Bcch
  <2> DEFINE m == Head(toHost).msg
             s == [sysinfo EXCEPT !.si = Store(@, m)]
             out == IF m.si = "SI3" THEN <<CcchModeReq>> ELSE <<>>
  <2>1. Receive("BCCH_IND")
    BY <1>5 DEF Bcch
  <2>2. \/ UNCHANGED <<state, rach, toPhone>>
        \/ Reading /\ m \notin sysinfo.si /\ NewSysinfo(s, out)
    BY <1>5 DEF Bcch
  <2>3. out \in {<<>>, <<CcchModeReq>>}
    OBVIOUS
  <2>4. m \notin sysinfo.si /\ Reading => state = "READ"
    BY <2>1, AllHeard DEF Reading
  <2> HIDE DEF m, s, out
  <2>5. CASE UNCHANGED <<state, rach, toPhone>>
    BY <1>c, <2>1, <2>5
  <2>6. CASE state = "READ" /\ StartRach(s, 0, out)
    BY <2>1, <2>3, <2>6, StartRachBursts
  <2>7. CASE UNCHANGED <<state, rach>> /\ toPhone' = toPhone \o out
    <3>1. Silent(out) /\ \A i \in DOMAIN out : out[i].type # "RACH_REQ"
      BY <2>3, SilentBatches DEF CcchModeReq
    <3> QED
      BY <2>1, <2>7, <3>1, KeepsBursts
  <2> QED
    BY <2>2, <2>4, <2>5, <2>6, <2>7 DEF NewSysinfo
<1>6. CASE ImmediateAssignment
  <2>1. Receive("AGCH_IND") /\ UNCHANGED rach
    BY <1>6 DEF ImmediateAssignment
  <2>2. CASE Accepts(Head(toHost).refs)
    <3>1. StartSync(pm_index, sysinfo, <<>>)
      BY <1>6, <2>2, Zenon DEF ImmediateAssignment
    <3>2. Reading
      BY <2>2 DEF Accepts, Reading
    <3> QED
      BY <1>d, <1>f, <2>1, <3>1, <3>2, AnswersLeft
  <2>3. CASE ~Accepts(Head(toHost).refs)
    BY <1>6, <1>c, <2>1, <2>3 DEF ImmediateAssignment
  <2> QED
    BY <2>2, <2>3
<1>7. CASE ChanConf
  <2>1. Receive("RACH_CONF") /\ UNCHANGED <<state, toPhone, rach_count>>
    BY <1>7 DEF ChanConf
  <2>2. CASE state # "RACH"
    BY <1>7, <1>c, <2>1, <2>2 DEF ChanConf, rach
  <2>3. CASE state = "RACH"
    <3>1. BurstUnderWay /\ BurstsAreOwn
      BY <2>3 DEF BurstInv
    <3>2. rach_ref' = [rach_ref EXCEPT !.valid = TRUE, !.fn = Head(toHost).fn]
      BY <1>7, <2>3 DEF ChanConf
    <3>3. rach_ref'.cr = rach_ref.cr /\ rach_ref'.fn = Head(toHost).fn
      BY <3>2 DEF TypeOK, CatcherTypeOK
    <3>4. /\ 1 \in DOMAIN toHost /\ toHost[1] = Head(toHost) /\ toHost[1].type = "RACH_CONF"
          /\ \A i \in DOMAIN toHost' : i + 1 \in DOMAIN toHost /\ toHost'[i] = toHost[i + 1]
      BY <2>1, HostTaken
    <3>5. UNCHANGED <<task, compl, overdue, rachRa, rachDue, lastRach, onAir>>
      BY DEF phoneVars, phoneRach
    <3>6. BurstUnderWay'
      BY <2>1, <3>1, <3>3, <3>5 DEF BurstUnderWay, FirstBurst, NoBurstAsked, NoBurstDue
    <3>7. BurstsAreOwn'
      BY <2>1, <3>1, <3>3, <3>4, <3>5 DEF BurstsAreOwn, OwnBurst, OnCell
    <3> QED
      BY <1>e, <2>1, <2>3, <3>6, <3>7 DEF BurstInv
  <2> QED
    BY <2>2, <2>3
<1>8. CASE CcchModeConfirmed
  BY <1>8, <1>c DEF CcchModeConfirmed, hostVars
<1>9. CASE ReadTimeout
  <2>1. Reading /\ UNCHANGED <<toHost, started>> /\ StartSync(pm_index, sysinfo, <<>>)
    BY <1>9 DEF ReadTimeout, Reading
  <2>2. NoAnswer'
    BY <1>f, <2>1 DEF NoAnswer
  <2> QED
    BY <1>d, <1>f, <2>1, <2>2
<1>10. CASE RachTimeout
  <2>1. Reading /\ UNCHANGED <<toHost, started>> /\ StartRach(sysinfo, rach_count + 1, <<>>)
    BY <1>10 DEF RachTimeout, Reading
  <2>2. CASE SendBurst(sysinfo, rach_count + 1, <<>>)
    <3>1. state = "RACH"
      BY <1>10 DEF RachTimeout
    <3> QED
      BY <2>1, <2>2, <3>1, RepeatBursts
  <2>3. CASE StartSync(pm_index, sysinfo, <<>>)
    <3>1. NoAnswer'
      BY <1>f, <2>1 DEF NoAnswer
    <3> QED
      BY <1>d, <1>f, <2>1, <2>3, <3>1
  <2> QED
    BY <2>1, <2>2, <2>3 DEF StartRach
<1>11. CASE IdleTimeout
  BY <1>11, <1>c DEF IdleTimeout, link
<1> QED
  BY <1>1, <1>2, <1>3, <1>4, <1>5, <1>6, <1>7, <1>8, <1>9, <1>10, <1>11
  DEF CatcherNext, Receipt, Timeout

-----------------------------------------------------------------------------
(* What the phone does about them. *)

(* A synchronisation that is asked for stands behind its reset. *)
LEMMA SyncTaken ==
  ASSUME TypeOK, SyncClears, NEW t, Take(t)
  PROVE  \A i \in DOMAIN toPhone' : toPhone'[i].type = "FBSB_REQ" =>
           /\ i = 1 => t = "RESET_REQ"
           /\ i # 1 => toPhone'[i - 1].type = "RESET_REQ"
           /\ \A j \in DOMAIN toPhone' : i < j => toPhone'[j].type # "RACH_REQ"
<1>1. /\ 1 \in DOMAIN toPhone /\ toPhone[1].type = t
      /\ \A i \in DOMAIN toPhone' : i \in Nat /\ i + 1 \in DOMAIN toPhone /\ toPhone'[i] = toPhone[i + 1]
  BY PhoneTaken
<1>2. \A j \in DOMAIN toPhone : j # 1 => j - 1 \in DOMAIN toPhone' /\ toPhone'[j - 1] = toPhone[j]
  BY PhoneRest
<1>3. DOMAIN toPhone = 1 .. Len(toPhone) /\ Len(toPhone) \in Nat /\ \A i \in DOMAIN toPhone' : i > 0
  <2>1. toPhone' \in Seq(PhoneMsg)
    BY PhoneQueue DEF TypeOK
  <2> QED
    BY <2>1 DEF TypeOK, LinkTypeOK
<1> SUFFICES ASSUME NEW i \in DOMAIN toPhone', toPhone'[i].type = "FBSB_REQ"
             PROVE  /\ i = 1 => t = "RESET_REQ"
                    /\ i # 1 => toPhone'[i - 1].type = "RESET_REQ"
                    /\ \A j \in DOMAIN toPhone' : i < j => toPhone'[j].type # "RACH_REQ"
  OBVIOUS
<1>4. i + 1 \in DOMAIN toPhone /\ i + 1 # 1 /\ (i + 1) - 1 = i /\ i \in DOMAIN toPhone
  BY <1>1, <1>3
<1>5. /\ toPhone[i].type = "RESET_REQ"
      /\ \A j \in DOMAIN toPhone : i + 1 < j => toPhone[j].type # "RACH_REQ"
  BY <1>1, <1>4 DEF SyncClears
<1>6. ASSUME NEW j \in DOMAIN toPhone', i < j PROVE toPhone'[j].type # "RACH_REQ"
  <2>1. i + 1 < j + 1 /\ j + 1 \in DOMAIN toPhone
    BY <1>1, <1>6
  <2> QED
    BY <1>1, <1>5, <2>1
<1> QED
  BY <1>1, <1>2, <1>4, <1>5, <1>6

(* What is left of the requests when one was taken. *)
LEMMA TakenRest ==
  ASSUME TypeOK, NEW t, Take(t)
  PROVE  /\ task' = task => task' # "off"
         /\ overdue = {} /\ overdue' = compl
         /\ NoBurstAsked => NoBurstAsked' /\ t # "RACH_REQ"
         /\ t \notin {"PM_REQ", "FBSB_REQ"} /\ NoAsk' => NoAsk
         /\ FirstBurst => \A i \in DOMAIN toPhone' : toPhone'[i].type = "RACH_REQ" =>
              toPhone'[i].ra = rach_ref.cr /\ t # "RACH_REQ"
<1>1. /\ 1 \in DOMAIN toPhone /\ toPhone[1].type = t
      /\ \A i \in DOMAIN toPhone' : i \in Nat /\ i + 1 \in DOMAIN toPhone /\ toPhone'[i] = toPhone[i + 1]
  BY PhoneTaken
<1>2. \A j \in DOMAIN toPhone : j # 1 => j - 1 \in DOMAIN toPhone' /\ toPhone'[j - 1] = toPhone[j]
  BY PhoneRest
<1>3. task # "off" /\ overdue = {} /\ overdue' = compl
  BY DEF Take
<1>4. NoBurstAsked => NoBurstAsked' /\ t # "RACH_REQ"
  BY <1>1 DEF NoBurstAsked
<1>5. t \notin {"PM_REQ", "FBSB_REQ"} /\ NoAsk' => NoAsk
  BY <1>1, <1>2 DEF NoAsk, Asks
<1>6. ASSUME FirstBurst, NEW i \in DOMAIN toPhone', toPhone'[i].type = "RACH_REQ"
      PROVE  toPhone'[i].ra = rach_ref.cr /\ t # "RACH_REQ"
  <2>1. i + 1 \in DOMAIN toPhone /\ i + 1 # 1 /\ toPhone'[i] = toPhone[i + 1]
    <3>1. toPhone' \in Seq(PhoneMsg)
      BY PhoneQueue DEF TypeOK
    <3> QED
      BY <1>1, <1>6, <3>1
  <2> QED
    BY <1>1, <1>6, <2>1 DEF FirstBurst
<1> QED
  BY <1>3, <1>4, <1>5, <1>6

(* What was sent to the host is no confirmation of a burst. *)
NoConfSent ==
  \/ UNCHANGED toHost
  \/ \E out \in Seq(HostMsg) : Send(out) /\ \A i \in DOMAIN out : out[i].type # "RACH_CONF"

LEMMA HostKept ==
  ASSUME TypeOK, NoConfSent
  PROVE  /\ NoBurstConfirmed => NoBurstConfirmed'
         /\ \A i \in DOMAIN toHost' : toHost'[i].type = "RACH_CONF" =>
              i \in DOMAIN toHost /\ toHost'[i] = toHost[i]
         /\ SyncClears => \A i \in DOMAIN toHost' : toHost'[i].type = "FBSB_CONF" =>
              \A j \in DOMAIN toHost' : i < j => toHost'[j].type # "RACH_CONF"
<1>1. CASE UNCHANGED toHost
  BY <1>1 DEF NoBurstConfirmed, SyncClears
<1>2. CASE \E out \in Seq(HostMsg) : Send(out) /\ \A i \in DOMAIN out : out[i].type # "RACH_CONF"
  <2>1. /\ \A i \in DOMAIN toHost : i \in DOMAIN toHost' /\ toHost'[i] = toHost[i]
        /\ \A i \in DOMAIN toHost' : i \notin DOMAIN toHost => toHost'[i].type # "RACH_CONF"
        /\ \A i, j \in DOMAIN toHost' : i < j /\ j \in DOMAIN toHost => i \in DOMAIN toHost
    BY <1>2, HostSent
  <2> QED
    BY <2>1 DEF NoBurstConfirmed, SyncClears
<1> QED
  BY <1>1, <1>2 DEF NoConfSent

(* One message that is none. *)
LEMMA OneSentNoConf ==
  ASSUME NEW m \in HostMsg, m.type # "RACH_CONF", Send(<<m>>)
  PROVE  NoConfSent
<1>1. <<m>> \in Seq(HostMsg) /\ \A i \in DOMAIN <<m>> : <<m>>[i].type # "RACH_CONF"
  OBVIOUS
<1> QED
  BY <1>1 DEF NoConfSent

(* A step of the phone that has nothing to do with bursts. *)
LEMMA PhoneKeepsBursts ==
  ASSUME TypeOK, BurstInv, UNCHANGED hostVars, UNCHANGED <<toPhone, rachRa, rachDue, lastRach>>,
         state = "RACH" => onAir' = onAir,
         "RACH" \in compl' <=> "RACH" \in compl, "RACH" \in overdue => "RACH" \in overdue',
         task' = "off" => task = "off" /\ UNCHANGED toHost,
         NoConfSent
  PROVE  BurstInv'
<1>1. UNCHANGED <<state, started, rach_ref, rach_count>>
  BY DEF hostVars, rach
<1>2. (NoAsk' <=> NoAsk) /\ (NoBurstAsked' <=> NoBurstAsked) /\ (NoBurstDue' <=> NoBurstDue)
  BY DEF NoAsk, NoBurstAsked, NoBurstDue
<1>3. BurstsCleared => BurstsCleared'
  BY DEF BurstsCleared
<1>4. /\ NoBurstConfirmed => NoBurstConfirmed'
      /\ \A i \in DOMAIN toHost' : toHost'[i].type = "RACH_CONF" =>
           i \in DOMAIN toHost /\ toHost'[i] = toHost[i]
      /\ SyncClears => \A i \in DOMAIN toHost' : toHost'[i].type = "FBSB_CONF" =>
           \A j \in DOMAIN toHost' : i < j => toHost'[j].type # "RACH_CONF"
  BY HostKept
<1>5. SyncClears => SyncClears'
  BY <1>2, <1>3, <1>4 DEF SyncClears
<1>6. ReadQuiet => ReadQuiet'
  BY <1>2, <1>4 DEF ReadQuiet
<1>7. BurstUnderWay => BurstUnderWay'
  BY <1>1, <1>2 DEF BurstUnderWay, FirstBurst
<1>8. state = "RACH" /\ BurstsAreOwn => BurstsAreOwn'
  BY <1>1, <1>4 DEF BurstsAreOwn, OwnBurst, OnCell
<1> QED
  BY <1>1, <1>5, <1>6, <1>7, <1>8 DEF BurstInv

(* A request that has nothing to do with bursts, but for a reset. *)
LEMMA RequestKeepsBursts ==
  ASSUME TypeOK, BurstInv, UNCHANGED hostVars, UNCHANGED <<rachRa, lastRach, onAir, compl>>,
         NEW t, Take(t), t \notin {"PM_REQ", "FBSB_REQ", "RACH_REQ"},
         rachDue' = 0 \/ (rachDue' = rachDue /\ t # "RESET_REQ"),
         task' # "off", NoConfSent
  PROVE  BurstInv'
<1>1. UNCHANGED <<state, started, rach_ref, rach_count>>
  BY DEF hostVars, rach
<1>2. /\ overdue' = compl
      /\ NoBurstAsked => NoBurstAsked'
      /\ NoAsk' => NoAsk
      /\ FirstBurst => \A i \in DOMAIN toPhone' : toPhone'[i].type = "RACH_REQ" =>
           toPhone'[i].ra = rach_ref.cr
  BY TakenRest
<1>3. /\ NoBurstConfirmed => NoBurstConfirmed'
      /\ \A i \in DOMAIN toHost' : toHost'[i].type = "RACH_CONF" =>
           i \in DOMAIN toHost /\ toHost'[i] = toHost[i]
      /\ SyncClears => \A i \in DOMAIN toHost' : toHost'[i].type = "FBSB_CONF" =>
           \A j \in DOMAIN toHost' : i < j => toHost'[j].type # "RACH_CONF"
  BY HostKept
<1>4. NoBurstDue => NoBurstDue'
  BY DEF NoBurstDue
<1>5. t = "RESET_REQ" => BurstsCleared'
  BY <1>2 DEF BurstsCleared
<1>6. ASSUME SyncClears PROVE SyncClears'
  <2>1. \A i \in DOMAIN toPhone' : toPhone'[i].type = "FBSB_REQ" =>
          /\ i = 1 => t = "RESET_REQ"
          /\ i # 1 => toPhone'[i - 1].type = "RESET_REQ"
          /\ \A j \in DOMAIN toPhone' : i < j => toPhone'[j].type # "RACH_REQ"
    BY <1>6, SyncTaken
  <2>2. NoAsk' => NoBurstAsked' /\ NoBurstDue'
    BY <1>2, <1>4, <1>6 DEF SyncClears
  <2> QED
    BY <1>3, <1>5, <1>6, <2>1, <2>2 DEF SyncClears
<1>7. ReadQuiet => ReadQuiet'
  BY <1>2, <1>3, <1>4 DEF ReadQuiet
<1>8. ASSUME FirstBurst PROVE FirstBurst'
  <2>1. /\ \A i \in DOMAIN toPhone' : i \in Nat /\ i + 1 \in DOMAIN toPhone /\ toPhone'[i] = toPhone[i + 1]
    BY PhoneTaken
  <2>2. ASSUME NEW i \in DOMAIN toPhone', NEW j \in DOMAIN toPhone',
               toPhone'[i].type = "RACH_REQ", toPhone'[j].type = "RACH_REQ"
        PROVE  i = j
    <3>1. i + 1 = j + 1
      BY <1>8, <2>1, <2>2 DEF FirstBurst
    <3> QED
      BY <2>1, <3>1
  <2>3. rachDue' > 0 => rachRa' = rach_ref'.cr
    BY <1>1, <1>8 DEF FirstBurst
  <2> QED
    BY <1>1, <1>2, <1>4, <1>8, <2>2, <2>3 DEF FirstBurst
<1>9. BurstsAreOwn => BurstsAreOwn'
  BY <1>1, <1>3 DEF BurstsAreOwn, OwnBurst, OnCell
<1>10. BurstUnderWay => BurstUnderWay'
  BY <1>1, <1>8 DEF BurstUnderWay
<1> QED
  BY <1>1, <1>6, <1>7, <1>9, <1>10 DEF BurstInv

(* The burst goes out: it is the one catcher waits for, if any. *)
LEMMA TransmitBursts ==
  ASSUME TypeOK, BurstInv, TransmitRach, UNCHANGED hostVars
  PROVE  BurstInv'
<1>1. UNCHANGED <<state, started, rach_ref, rach_count, toPhone, toHost, task, rachRa, overdue>>
  BY DEF hostVars, rach, TransmitRach, link
<1>2. /\ rachDue \in Nat /\ rachDue > 0 /\ rachDue' = rachDue - 1
      /\ lastRach' = fn + 1 /\ onAir' = onAir \cup {[ra |-> rachRa, fn |-> fn + 1]}
  BY DEF TransmitRach, TypeOK, Layer1TypeOK
<1>3. ~NoBurstDue /\ ~BurstsCleared
  BY <1>2 DEF NoBurstDue, BurstsCleared
<1>4. (NoAsk' <=> NoAsk) /\ (NoBurstAsked' <=> NoBurstAsked)
  BY <1>1 DEF NoAsk, NoBurstAsked
<1>5. SyncClears => SyncClears'
  BY <1>1, <1>3, <1>4 DEF SyncClears
<1>6. ~ReadQuiet
  BY <1>3 DEF ReadQuiet
<1>7. BurstUnderWay => BurstUnderWay'
  BY <1>1, <1>2, <1>3, <1>4 DEF BurstUnderWay, FirstBurst
<1>8. ASSUME BurstUnderWay, BurstsAreOwn PROVE BurstsAreOwn'
  <2>1. \A f : OwnBurst(f) => OwnBurst(f)'
    BY <1>1, <1>2 DEF OwnBurst, OnCell
  <2>2. OwnBurst(lastRach)'
    <3>1. [ra |-> rachRa, fn |-> fn + 1] \in onAir' /\ [ra |-> rachRa, fn |-> fn + 1].fn = lastRach'
      BY <1>2
    <3>2. OnCell(lastRach)'
      BY <3>1 DEF OnCell
    <3>3. rach_count' = 0 => rachRa = rach_ref'.cr
      BY <1>1, <1>2, <1>8 DEF BurstUnderWay, FirstBurst
    <3> QED
      BY <1>2, <3>1, <3>2, <3>3 DEF OwnBurst
  <2> QED
    BY <1>1, <1>8, <2>1, <2>2 DEF BurstsAreOwn
<1> QED
  BY <1>1, <1>5, <1>6, <1>7, <1>8 DEF BurstInv

(* The phone confirms it with the frame it was sent in. *)
LEMMA ConfirmBursts ==
  ASSUME TypeOK, OneOutstanding, BurstInv, RachCompletion, UNCHANGED hostVars
  PROVE  BurstInv'
<1>1. UNCHANGED <<state, started, rach_ref, rach_count, toPhone, task, rachRa, rachDue, lastRach, onAir>>
  BY DEF hostVars, rach, RachCompletion, phoneRach
<1>2. /\ task # "off" /\ "RACH" \in compl /\ compl' = compl \ {"RACH"} /\ "RACH" \notin compl'
      /\ Send(<<RachConf(lastRach)>>)
  BY DEF RachCompletion
<1>3. RachConf(lastRach) \in HostMsg /\ RachConf(lastRach).type = "RACH_CONF" /\ RachConf(lastRach).fn = lastRach
  BY HostMsgs DEF TypeOK, Layer1TypeOK, RachConf
<1>4. \A i \in DOMAIN toHost' : toHost'[i] = RachConf(lastRach) \/ (i \in DOMAIN toHost /\ toHost'[i] = toHost[i])
  <2> DEFINE out == <<RachConf(lastRach)>>
  <2>1. out \in Seq(HostMsg) /\ DOMAIN out = {1} /\ out[1] = RachConf(lastRach) /\ Send(out)
    BY <1>2, <1>3
  <2> HIDE DEF out
  <2>2. /\ \A i \in DOMAIN toHost : i \in DOMAIN toHost' /\ toHost'[i] = toHost[i]
        /\ \A i \in DOMAIN toHost' : i \notin DOMAIN toHost =>
             i - Len(toHost) \in DOMAIN out /\ toHost'[i] = out[i - Len(toHost)]
    BY <2>1, HostSent
  <2> QED
    BY <2>1, <2>2
<1>5. ~NoBurstDue
  BY <1>2 DEF NoBurstDue
<1>6. (NoAsk' <=> NoAsk) /\ (NoBurstAsked' <=> NoBurstAsked)
  BY <1>1 DEF NoAsk, NoBurstAsked
<1>7. ASSUME SyncClears PROVE SyncClears'
  <2>1. ~NoAsk
    BY <1>5, <1>7 DEF SyncClears
  <2>2. \A i \in DOMAIN toHost : toHost[i].type # "FBSB_CONF"
    BY <2>1 DEF OneOutstanding, NoAnswer, Answers
  <2>3. \A i \in DOMAIN toHost' : toHost'[i].type # "FBSB_CONF"
    BY <1>3, <1>4, <2>2
  <2>4. BurstsCleared => BurstsCleared'
    BY <1>1, <1>2 DEF BurstsCleared
  <2> QED
    BY <1>1, <1>6, <1>7, <2>1, <2>3, <2>4 DEF SyncClears
<1>8. ~ReadQuiet
  BY <1>5 DEF ReadQuiet
<1>9. BurstUnderWay => BurstUnderWay'
  BY <1>1, <1>5, <1>6 DEF BurstUnderWay, FirstBurst
<1>10. BurstsAreOwn => BurstsAreOwn'
  BY <1>1, <1>2, <1>3, <1>4 DEF BurstsAreOwn, OwnBurst, OnCell
<1> QED
  BY <1>1, <1>2, <1>7, <1>8, <1>9, <1>10 DEF BurstInv

(* The phone schedules it. *)
LEMMA ScheduleBursts ==
  ASSUME TypeOK, BurstInv, RachRequest, UNCHANGED hostVars
  PROVE  BurstInv'
<1>1. /\ UNCHANGED <<state, started, rach_ref, rach_count, toHost, task, compl, onAir>>
      /\ Take("RACH_REQ") /\ rachRa' = Head(toPhone).ra /\ lastRach' = 0
  BY DEF hostVars, rach, RachRequest
<1>2. /\ 1 \in DOMAIN toPhone /\ toPhone[1].type = "RACH_REQ" /\ toPhone[1] = Head(toPhone)
  BY <1>1, PhoneTaken
<1>3. ~NoBurstAsked /\ task' # "off"
  BY <1>1, <1>2, TakenRest DEF NoBurstAsked
<1>4. ASSUME SyncClears PROVE SyncClears'
  <2>1. \A i \in DOMAIN toPhone' : toPhone'[i].type = "FBSB_REQ" =>
          /\ i # 1
          /\ toPhone'[i - 1].type = "RESET_REQ"
          /\ \A j \in DOMAIN toPhone' : i < j => toPhone'[j].type # "RACH_REQ"
    BY <1>1, <1>4, SyncTaken
  <2>2. ~NoAsk /\ (NoAsk' => NoAsk)
    BY <1>1, <1>3, <1>4, TakenRest DEF SyncClears
  <2> QED
    BY <1>1, <1>4, <2>1, <2>2 DEF SyncClears
<1>5. ~ReadQuiet
  BY <1>3 DEF ReadQuiet
<1>6. FirstBurst => NoBurstAsked' /\ NoBurstDue
  BY <1>1, <1>3, TakenRest DEF FirstBurst, NoBurstAsked
<1>7. BurstUnderWay => BurstUnderWay'
  BY <1>1, <1>2, <1>6 DEF BurstUnderWay, FirstBurst, NoBurstAsked
<1>8. ASSUME BurstUnderWay, BurstsAreOwn PROVE BurstsAreOwn'
  <2>1. \A f : OwnBurst(f)' <=> OwnBurst(f)
    BY <1>1 DEF OwnBurst, OnCell
  <2>2. "RACH" \in compl' => OwnBurst(lastRach)'
    BY <1>1, <1>6, <1>8 DEF OwnBurst, OnCell, BurstUnderWay, NoBurstDue
  <2> QED
    BY <1>1, <1>8, <2>1, <2>2 DEF BurstsAreOwn
<1> QED
  BY <1>1, <1>3, <1>4, <1>5, <1>7, <1>8 DEF BurstInv

(* A synchronisation is taken up when all bursts of old are gone. *)
LEMMA SyncBursts ==
  ASSUME TypeOK, OneOutstanding, BurstInv, FbsbRequest, UNCHANGED hostVars
  PROVE  BurstInv'
<1>1. /\ UNCHANGED <<state, started, toHost, compl>> /\ Take("FBSB_REQ")
      /\ rachDue' = 0 /\ task' = "fbsb"
  BY DEF hostVars, FbsbRequest, ResetSchedulers
<1>2. /\ 1 \in DOMAIN toPhone /\ toPhone[1].type = "FBSB_REQ"
      /\ \A i \in DOMAIN toPhone' : i \in Nat /\ i + 1 \in DOMAIN toPhone /\ toPhone'[i] = toPhone[i + 1]
  BY <1>1, PhoneTaken
<1>3. state = "SYNC"
  BY <1>2 DEF OneOutstanding, NoSynchronising, Reading, TypeOK, CatcherTypeOK
<1>4. SyncClears
  BY <1>3 DEF BurstInv
<1>5. BurstsCleared /\ \A j \in DOMAIN toPhone : 1 < j => toPhone[j].type # "RACH_REQ"
  BY <1>2, <1>4 DEF SyncClears
<1>6. NoBurstDue'
  BY <1>1, <1>5, TakenRest DEF BurstsCleared, NoBurstDue
<1>7. \A i \in DOMAIN toPhone' : 1 < i + 1
  <2>1. toPhone' \in Seq(PhoneMsg)
    BY <1>1, PhoneQueue DEF TypeOK
  <2> QED
    BY <2>1
<1>8. NoBurstAsked'
  BY <1>2, <1>5, <1>7 DEF NoBurstAsked
<1>9. \A i \in DOMAIN toPhone' : toPhone'[i].type = "FBSB_REQ" =>
        /\ i # 1
        /\ toPhone'[i - 1].type = "RESET_REQ"
        /\ \A j \in DOMAIN toPhone' : i < j => toPhone'[j].type # "RACH_REQ"
  BY <1>1, <1>4, SyncTaken
<1>10. SyncClears'
  BY <1>1, <1>4, <1>6, <1>8, <1>9 DEF SyncClears
<1> QED
  BY <1>1, <1>3, <1>10 DEF BurstInv

(* Every step of the phone sends only bursts that catcher waits for. *)
LEMMA Layer1Bursts ==
  ASSUME TypeOK, OneOutstanding, BurstInv, Layer1Next, UNCHANGED hostVars
  PROVE  BurstInv'
<1> USE DEF phonePm, phoneRach, phoneVars, link
<1>a. ASSUME NEW m \in HostMsg, m.type # "RACH_CONF", Send(<<m>>) PROVE NoConfSent
  BY <1>a, OneSentNoConf
<1>b. UNCHANGED toHost => NoConfSent
  BY DEF NoConfSent
<1>1. CASE ResetRequest
  <2>1. Send(<<Reset>>) /\ Reset \in HostMsg /\ Reset.type = "RESET"
    BY <1>1, HostMsgs DEF ResetRequest, Reset
  <2>2. /\ Take("RESET_REQ") /\ task' = "idle" /\ rachDue' = 0
        /\ UNCHANGED <<rachRa, lastRach, onAir, compl>>
    BY <1>1 DEF ResetRequest, ResetSchedulers
  <2> QED
    BY <1>a, <2>1, <2>2, RequestKeepsBursts
<1>2. CASE PmRequest
  <2>1. Take("PM_REQ") /\ task' = "pm"
    BY <1>2 DEF PmRequest
  <2>2. state = "PM" /\ state' = "PM"
    BY <2>1, PhoneTaken
    DEF OneOutstanding, NoMeasuring, Reading, TypeOK, CatcherTypeOK, hostVars
  <2> QED
    BY <2>1, <2>2 DEF BurstInv
<1>3. CASE FbsbRequest
  BY <1>3, SyncBursts
<1>4. CASE CcchModeRequest
  <2>1. Send(<<CcchModeConf>>) /\ CcchModeConf \in HostMsg /\ CcchModeConf.type = "CCCH_MODE_CONF"
    BY <1>4, HostMsgs DEF CcchModeRequest, CcchModeConf
  <2>2. /\ Take("CCCH_MODE_REQ") /\ task' = task /\ rachDue' = rachDue
        /\ UNCHANGED <<rachRa, lastRach, onAir, compl>>
    BY <1>4 DEF CcchModeRequest
  <2>3. task' # "off"
    BY <2>2, TakenRest
  <2> QED
    BY <1>a, <2>1, <2>2, <2>3, RequestKeepsBursts
<1>5. CASE RachRequest
  BY <1>5, ScheduleBursts
<1>6. CASE MeasureNext
  <2>1. PICK lev \in Levels :
          LET full  == Len(pmMsg) = PmBatch
              msg   == (IF full THEN <<>> ELSE pmMsg) \o <<PmRes(pmNext, lev)>>
              flush == IF full THEN pmMsg ELSE <<>>
          IN Send(flush) \/ Send(flush \o msg \o <<PmDone>>)
    BY <1>6 DEF MeasureNext
  <2> DEFINE full  == Len(pmMsg) = PmBatch
             msg   == (IF full THEN <<>> ELSE pmMsg) \o <<PmRes(pmNext, lev)>>
             flush == IF full THEN pmMsg ELSE <<>>
             Quiet == PmResults \cup {PmDone}
  <2>2. PmRes(pmNext, lev) \in PmResults
    <3>1. PICK i \in DOMAIN Bands : pmNext \in Range2Set(Bands[i])
      BY <1>6 DEF MeasureNext, TypeOK, Layer1TypeOK
    <3>2. pmNext \in Arfcns
      BY <3>1, BandFacts
    <3> QED
      BY <3>2, HostMsgs
  <2>3. pmMsg \in Seq(PmResults) /\ <<PmRes(pmNext, lev)>> \in Seq(PmResults)
    BY <2>2 DEF TypeOK, Layer1TypeOK
  <2>4. flush \in Seq(PmResults) /\ msg \in Seq(PmResults)
    BY <2>3, ConcatProperties
  <2>5. Send(flush) \/ Send(flush \o msg \o <<PmDone>>)
    BY <2>1
  <2> HIDE DEF full, msg, flush
  <2>6. Quiet \subseteq HostMsg /\ \A m \in Quiet : m.type # "RACH_CONF"
    BY HostMsgs DEF PmResults, PmDone
  <2>7. flush \in Seq(Quiet) /\ msg \in Seq(Quiet) /\ <<PmDone>> \in Seq(Quiet)
    BY <2>4, SeqMonotonic
  <2> HIDE DEF Quiet
  <2>8. PICK out \in Seq(Quiet) : Send(out)
    BY <2>5, <2>7, ConcatProperties
  <2>9. out \in Seq(HostMsg)
    BY <2>6, SeqMonotonic
  <2>10. \A i \in DOMAIN out : out[i] \in Quiet
    OBVIOUS
  <2>11. NoConfSent
    BY <2>6, <2>8, <2>9, <2>10 DEF NoConfSent
  <2>12. /\ task' # "off"
         /\ UNCHANGED <<toPhone, rachRa, rachDue, lastRach, onAir, compl, overdue>>
    BY <1>6 DEF MeasureNext
  <2> QED
    BY <2>11, <2>12, PhoneKeepsBursts
<1>7. CASE Synchronise \/ GiveUpSync
  <2>1. /\ task = "fbsb" /\ task' # "off" /\ compl' = compl \cup {"FB"}
        /\ UNCHANGED <<toPhone, toHost, rachRa, rachDue, lastRach, overdue>>
    BY <1>7 DEF Synchronise, GiveUpSync
  <2>2. state # "RACH"
    BY <2>1 DEF OneOutstanding, NoSynchronising, Reading
  <2>3. "RACH" \in compl' <=> "RACH" \in compl
    BY <2>1
  <2> QED
    BY <1>b, <2>1, <2>2, <2>3, PhoneKeepsBursts
<1>8. CASE TransmitRach
  BY <1>8, TransmitBursts
<1>9. CASE HearBcch
  <2>1. PICK m \in Air[tuned] : Send(<<BcchInd(m)>>)
    BY <1>9 DEF HearBcch
  <2>2. BcchInd(m) \in HostMsg /\ BcchInd(m).type = "BCCH_IND"
    BY <1>9, LinkAssumption, HostMsgs
    DEF HearBcch, Listening, TypeOK, Layer1TypeOK, BcchInd
  <2>3. task # "off" /\ UNCHANGED <<toPhone, task, rachRa, rachDue, lastRach, onAir, compl, overdue>>
    BY <1>9 DEF HearBcch, Listening
  <2> QED
    BY <1>a, <2>1, <2>2, <2>3, PhoneKeepsBursts
<1>10. CASE HearAgch
  <2>1. PICK refs \in SUBSET [ra : RA, fn : 0 .. fn] : Send(<<AgchInd(refs)>>)
    BY <1>10 DEF HearAgch
  <2>2. AgchInd(refs) \in HostMsg /\ AgchInd(refs).type = "AGCH_IND"
    BY HostMsgs, Layer1Assumption DEF Ref, TypeOK, Layer1TypeOK, AgchInd
  <2>3. task # "off" /\ UNCHANGED <<toPhone, task, rachRa, rachDue, lastRach, onAir, compl, overdue>>
    BY <1>10 DEF HearAgch, Listening
  <2> QED
    BY <1>a, <2>1, <2>2, <2>3, PhoneKeepsBursts
<1>11. CASE SyncCompletion
  <2>1. FbsbConf(synced) \in HostMsg /\ FbsbConf(synced).type = "FBSB_CONF"
    BY HostMsgs DEF TypeOK, Layer1TypeOK, FbsbConf
  <2>2. /\ Send(<<FbsbConf(synced)>>) /\ task # "off"
        /\ compl' = compl \ {"FB"} /\ overdue' = overdue \ {"FB"}
        /\ UNCHANGED <<toPhone, task, rachRa, rachDue, lastRach, onAir>>
    BY <1>11 DEF SyncCompletion
  <2>3. ("RACH" \in compl' <=> "RACH" \in compl) /\ ("RACH" \in overdue => "RACH" \in overdue')
    BY <2>2
  <2> QED
    BY <1>a, <2>1, <2>2, <2>3, PhoneKeepsBursts
<1>12. CASE RachCompletion
  BY <1>12, ConfirmBursts
<1>13. CASE Boot
  <2>1. /\ task' = "idle" /\ toPhone' = <<>> /\ compl' = {} /\ rachDue' = 0
        /\ onAir' = onAir /\ Send(<<Reset>>)
    BY <1>13 DEF Boot
  <2>2. UNCHANGED <<state, rach_ref, rach_count>>
    BY DEF hostVars, rach
  <2>3. NoConfSent
    <3>1. Reset \in HostMsg /\ Reset.type # "RACH_CONF"
      BY HostMsgs DEF Reset
    <3> QED
      BY <1>a, <2>1, <3>1
  <2>4. NoBurstAsked' /\ NoBurstDue'
    BY <2>1 DEF NoBurstAsked, NoBurstDue
  <2>5. DOMAIN toPhone' = {}
    BY <2>1
  <2>6. SyncClears => SyncClears'
    BY <2>3, <2>4, <2>5, HostKept DEF SyncClears
  <2>7. ReadQuiet => ReadQuiet'
    BY <2>3, <2>4, HostKept DEF ReadQuiet
  <2>8. BurstUnderWay'
    BY <2>1, <2>4, <2>5 DEF BurstUnderWay, FirstBurst
  <2>9. BurstsAreOwn => BurstsAreOwn'
    <3>1. \A f : OwnBurst(f)' <=> OwnBurst(f)
      BY <2>1, <2>2 DEF OwnBurst, OnCell
    <3>2. \A i \in DOMAIN toHost' : toHost'[i].type = "RACH_CONF" =>
            i \in DOMAIN toHost /\ toHost'[i] = toHost[i]
      BY <2>3, HostKept
    <3> QED
      BY <2>1, <2>2, <3>1, <3>2 DEF BurstsAreOwn
  <2> QED
    BY <2>1, <2>2, <2>6, <2>7, <2>8, <2>9 DEF BurstInv
<1> QED
  BY <1>1, <1>2, <1>3, <1>4, <1>5, <1>6, <1>7, <1>8, <1>9, <1>10, <1>11, <1>12, <1>13
  DEF Layer1Next, Request, Radio, Completion, Cell

LEMMA BurstInvariant ==
  ASSUME ~Leftover, Steady, Needed
  PROVE  Spec => []BurstInv
<1>1. Init => BurstInv
  BY DEF Init, CatcherInit, BurstInv
<1>2. SweepInv /\ BurstInv /\ [Next]_vars => BurstInv'
  <2> SUFFICES ASSUME SweepInv, BurstInv, [Next]_vars PROVE BurstInv'
    OBVIOUS
  <2>1. CASE CatcherNext /\ UNCHANGED phoneVars
    BY <2>1, CatcherBursts
  <2>2. CASE Layer1Next /\ UNCHANGED hostVars
    BY <2>2, Layer1Bursts DEF SweepInv, CellInv, RequestInv
  <2>3. CASE UNCHANGED vars
    BY <2>3 DEF vars, link, hostVars, rach, phoneVars, phoneRach, BurstInv, SyncClears, ReadQuiet,
                BurstUnderWay, FirstBurst, BurstsAreOwn, BurstsCleared, OwnBurst, OnCell, NoAsk,
                NoBurstAsked, NoBurstDue, NoBurstConfirmed
  <2> QED
    BY <2>1, <2>2, <2>3 DEF Next
<1> QED
  BY <1>1, <1>2, SweepInvariant, PTL DEF Spec

(***************************************************************************)
(* However many bursts a cell is sent and however often the phone is       *)
(* switched off meanwhile, what counts as confirmed is of the cell, and of *)
(* the very burst until it is repeated, unless an earlier client left the  *)
(* phone busy (catcher.c:504 match_ra, 833 chan_conf).                     *)
(***************************************************************************)
THEOREM AssignmentsAreOwn ==
  ASSUME ~Leftover, Steady, Needed
  PROVE  Spec => []ConfirmedBurst
<1>1. BurstInv => ConfirmedBurst
  BY DEF BurstInv, BurstsAreOwn, OwnBurst, ConfirmedBurst
<1> QED
  BY <1>1, BurstInvariant, PTL
=============================================================================
