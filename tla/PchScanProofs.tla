---------------------------- MODULE PchScanProofs ----------------------------
(***************************************************************************)
(* Proofs about the paging scan, for any ARFCNs to scan, cells, number of  *)
(* retries, and moments at which the program is killed or the phone is     *)
(* switched off.                                                           *)
(***************************************************************************)
EXTENDS PchScan, SequenceTheorems, TLAPS

(* pch_scan never asks for a measurement or a burst. *)
Requests == {ResetReq, CcchModeReq} \cup {FbsbReq(a) : a \in Arfcns}
Messages ==
  {Reset, CcchModeConf} \cup {FbsbConf(ok) : ok \in BOOLEAN}
    \cup {BcchInd(m) : m \in SIMessage} \cup {PchInd(a, k) : a \in Arfcns, k \in Kinds}
Lines == {"page", "hop", "nonhop", "fail"}

PhoneTypeOK ==
  /\ toPhone \in Seq(Requests)
  /\ toHost \in Seq(Messages)
  /\ task \in {"off", "idle", "fbsb", "camped"}
  /\ task \in {"fbsb", "camped"} => tuned \in Arfcns
  /\ compl \subseteq {"FB"} /\ overdue \subseteq compl
  /\ synced \in BOOLEAN
  /\ rachDue = 0

ThreadTypeOK ==
  /\ scan \in 1 .. Len(Targets) + 1
  /\ client \in {"none", "starting", "up"} /\ (client # "none" => scan <= Len(Targets))
  /\ ccch_mode \in BOOLEAN
  /\ pipe \in Seq(Lines)
  /\ thread \in {"loop", "read", "retry"}
  /\ thread # "loop" => scan <= Len(Targets) /\ pch_retries > 0
  /\ pch_retries \in 0 .. PCH_retries
  /\ stale \in BOOLEAN
  /\ time \in {"running", "up", "known"}
  /\ found \subseteq {"page", "hop"}

TypeOK == PhoneTypeOK /\ ThreadTypeOK

-----------------------------------------------------------------------------
(* Messages. *)

LEMMA MessageTypes ==
  /\ ResetReq.type = "RESET_REQ" /\ CcchModeReq.type = "CCCH_MODE_REQ"
  /\ \A a : FbsbReq(a).type = "FBSB_REQ" /\ FbsbReq(a).arfcn = a
  /\ Reset.type = "RESET" /\ CcchModeConf.type = "CCCH_MODE_CONF"
  /\ \A ok : FbsbConf(ok).type = "FBSB_CONF" /\ FbsbConf(ok).ok = ok
  /\ \A m : BcchInd(m).type = "BCCH_IND" /\ BcchInd(m).msg = m
  /\ \A a, k : PchInd(a, k).type = "PCH_IND" /\ PchInd(a, k).arfcn = a /\ PchInd(a, k).kind = k
  BY DEF ResetReq, CcchModeReq, FbsbReq, Reset, CcchModeConf, FbsbConf, BcchInd, PchInd

LEMMA RequestCases ==
  /\ ResetReq \in Requests /\ CcchModeReq \in Requests /\ \A a \in Arfcns : FbsbReq(a) \in Requests
  /\ \A r \in Requests :
       /\ r.type \in {"RESET_REQ", "CCCH_MODE_REQ", "FBSB_REQ"}
       /\ r.type = "RESET_REQ" => r = ResetReq
       /\ r.type = "CCCH_MODE_REQ" => r = CcchModeReq
       /\ r.type = "FBSB_REQ" => r.arfcn \in Arfcns
  BY MessageTypes DEF Requests

LEMMA MessageCases ==
  /\ Reset \in Messages /\ CcchModeConf \in Messages
  /\ \A ok \in BOOLEAN : FbsbConf(ok) \in Messages
  /\ \A a \in Arfcns : \A m \in Air[a] : BcchInd(m) \in Messages /\ m.arfcn = a
  /\ \A a \in Arfcns, k \in Kinds : PchInd(a, k) \in Messages
  /\ \A m \in Messages :
       /\ m.type = "RESET" => m = Reset
       /\ m.type = "FBSB_CONF" => m.ok \in BOOLEAN /\ m = FbsbConf(m.ok)
       /\ m.type = "PCH_IND" => m.kind \in Kinds
<1>1. \A a \in Arfcns : \A m \in Air[a] : m \in SIMessage /\ m.arfcn = a
  BY LinkAssumption
<1> QED
  BY <1>1, MessageTypes DEF Messages

-----------------------------------------------------------------------------
(* Queues. *)

(* A queue to which one message was appended. *)
LEMMA Joined ==
  ASSUME NEW S, NEW q \in Seq(S), NEW x \in S
  PROVE  /\ q \o <<x>> \in Seq(S)
         /\ Len(q) \in Nat /\ DOMAIN q = 1 .. Len(q)
         /\ DOMAIN (q \o <<x>>) = 1 .. Len(q) + 1
         /\ \A i \in DOMAIN q : (q \o <<x>>)[i] = q[i]
         /\ (q \o <<x>>)[Len(q) + 1] = x
<1>1. <<x>> \in Seq(S) /\ Len(<<x>>) = 1 /\ <<x>>[1] = x
  OBVIOUS
<1> DEFINE b == <<x>>
<1> HIDE DEF b
<1>2. /\ q \o b \in Seq(S) /\ Len(q \o b) = Len(q) + Len(b)
      /\ \A i \in 1 .. Len(q) + Len(b) : (q \o b)[i] = IF i <= Len(q) THEN q[i] ELSE b[i - Len(q)]
  BY <1>1, ConcatProperties DEF b
<1>3. Len(b) = 1 /\ b[1] = x
  BY <1>1 DEF b
<1>4. Len(q) \in Nat /\ DOMAIN q = 1 .. Len(q) /\ DOMAIN (q \o b) = 1 .. Len(q \o b)
  BY <1>2
<1>5. \A i \in DOMAIN q : (q \o b)[i] = q[i]
  BY <1>2, <1>3, <1>4
<1>6. (q \o b)[Len(q) + 1] = x
  BY <1>2, <1>3, <1>4
<1> QED
  BY <1>2, <1>3, <1>4, <1>5, <1>6 DEF b

(* A queue whose head was taken. *)
LEMMA Taken ==
  ASSUME NEW S, NEW q \in Seq(S), q # <<>>
  PROVE  /\ Tail(q) \in Seq(S) /\ Head(q) \in S
         /\ 1 \in DOMAIN q /\ Head(q) = q[1]
         /\ DOMAIN q \subseteq Nat /\ DOMAIN Tail(q) \subseteq Nat
         /\ \A i \in DOMAIN Tail(q) : i + 1 \in DOMAIN q /\ Tail(q)[i] = q[i + 1]
         /\ \A i \in DOMAIN q : i # 1 => i - 1 \in DOMAIN Tail(q) /\ Tail(q)[i - 1] = q[i]
  BY HeadTailProperties

LEMMA SameQueue ==
  ASSUME NEW S, NEW q \in Seq(S)
  PROVE  q \o <<>> = q
  BY ConcatEmptySeq

-----------------------------------------------------------------------------
(* The inductive invariant. *)

(* A reset of the phone is requested. *)
ResetDue == \E j \in DOMAIN toPhone : toPhone[j].type = "RESET_REQ"

(* A message that was heard elsewhere than on the ARFCN that is scanned. *)
Foreign(m) ==
  \/ m.type = "PCH_IND" /\ m.arfcn # Target
  \/ m.type = "BCCH_IND" /\ m.msg.arfcn # Target

(* Whatever an earlier client left is followed by a reset of this one, or by *)
(* the reset of a phone that was switched on.                                *)
LeftBehind ==
  client = "up" =>
    /\ \A i \in DOMAIN toPhone : toPhone[i].type = "FBSB_REQ" /\ toPhone[i].arfcn # Target =>
         \E j \in DOMAIN toPhone : i < j /\ toPhone[j].type = "RESET_REQ"
    /\ task \in {"fbsb", "camped"} /\ tuned # Target => ResetDue
    /\ \A i \in DOMAIN toHost : Foreign(toHost[i]) =>
         ResetDue \/ \E j \in DOMAIN toHost : i < j /\ toHost[j].type = "RESET"

(* The program will ask for a synchronisation, or has. *)
Told ==
  \/ \E i \in DOMAIN toPhone : toPhone[i].type \in {"RESET_REQ", "FBSB_REQ"}
  \/ \E i \in DOMAIN toHost : toHost[i].type = "RESET"

(* A failure that is reported, or is to be, and a retry. *)
Failing ==
  \/ "FB" \in compl /\ ~synced
  \/ \E i \in DOMAIN toHost : toHost[i] = FbsbConf(FALSE)
  \/ \E i \in DOMAIN pipe : pipe[i] = "fail"
  \/ thread = "retry"

(* A completion that is still pending may be that of a synchronisation before *)
(* the reset: then it will not tell of a failure.                             *)
Awake == client = "up" /\ task = "idle" => Told \/ Failing

ScanInv == TypeOK /\ LeftBehind /\ ModeInForce /\ Awake

-----------------------------------------------------------------------------
(* Type correctness. *)

(* What the program finds on the link, and what is behind it. *)
LEMMA HostTaken ==
  ASSUME TypeOK, HostGets(Head(toHost).type), toHost' = Tail(toHost)
  PROVE  /\ toHost' \in Seq(Messages) /\ Head(toHost) \in Messages
         /\ 1 \in DOMAIN toHost /\ Head(toHost) = toHost[1]
         /\ DOMAIN toHost \subseteq Nat /\ DOMAIN toHost' \subseteq Nat
         /\ \A i \in DOMAIN toHost' : i + 1 \in DOMAIN toHost /\ toHost'[i] = toHost[i + 1]
         /\ \A i \in DOMAIN toHost : i # 1 => i - 1 \in DOMAIN toHost' /\ toHost'[i - 1] = toHost[i]
  BY Taken DEF TypeOK, PhoneTypeOK, HostGets

LEMMA PhoneTaken ==
  ASSUME TypeOK, NEW t, Take(t)
  PROVE  /\ toPhone' \in Seq(Requests) /\ Head(toPhone) \in Requests /\ Head(toPhone).type = t
         /\ t \in {"RESET_REQ", "CCCH_MODE_REQ", "FBSB_REQ"}
         /\ 1 \in DOMAIN toPhone /\ Head(toPhone) = toPhone[1]
         /\ DOMAIN toPhone \subseteq Nat /\ DOMAIN toPhone' \subseteq Nat
         /\ \A i \in DOMAIN toPhone' : i + 1 \in DOMAIN toPhone /\ toPhone'[i] = toPhone[i + 1]
         /\ \A i \in DOMAIN toPhone : i # 1 => i - 1 \in DOMAIN toPhone' /\ toPhone'[i - 1] = toPhone[i]
  BY Taken, RequestCases DEF TypeOK, PhoneTypeOK, Take

(* What a request, or a message, is appended to. *)
LEMMA Asked ==
  ASSUME TypeOK, NEW r \in Requests, Ask(<<r>>)
  PROVE  /\ toPhone' \in Seq(Requests)
         /\ Len(toPhone) \in Nat /\ DOMAIN toPhone = 1 .. Len(toPhone)
         /\ DOMAIN toPhone' = 1 .. Len(toPhone) + 1
         /\ \A i \in DOMAIN toPhone : toPhone'[i] = toPhone[i]
         /\ toPhone'[Len(toPhone) + 1] = r
  BY Joined DEF TypeOK, PhoneTypeOK, Ask

LEMMA Sent ==
  ASSUME TypeOK, NEW m \in Messages, Send(<<m>>)
  PROVE  /\ toHost' \in Seq(Messages)
         /\ Len(toHost) \in Nat /\ DOMAIN toHost = 1 .. Len(toHost)
         /\ DOMAIN toHost' = 1 .. Len(toHost) + 1
         /\ \A i \in DOMAIN toHost : toHost'[i] = toHost[i]
         /\ toHost'[Len(toHost) + 1] = m
  BY Joined DEF TypeOK, PhoneTypeOK, Send

LEMMA TargetType ==
  ASSUME TypeOK, client # "none"
  PROVE  Target \in Arfcns
  BY PchScanAssumption DEF TypeOK, ThreadTypeOK, Target

(* The steps of the phone: none of them measures or sends a burst. *)
LEMMA PhoneSteps ==
  ASSUME TypeOK, Phone \/ HearCcch
  PROVE  \/ ResetRequest \/ FbsbRequest \/ CcchModeRequest
         \/ Synchronise \/ GiveUpSync \/ SyncCompletion
         \/ HearBcch \/ HearCcch \/ Boot
<1>1. ~PmRequest /\ ~RachRequest
  BY PhoneTaken DEF PmRequest, RachRequest
<1>2. ~MeasureNext /\ ~TransmitRach /\ ~RachCompletion
  BY DEF TypeOK, PhoneTypeOK, MeasureNext, TransmitRach, RachCompletion
<1> QED
  BY <1>1, <1>2 DEF Phone, Request, Radio, Completion

LEMMA PhoneType ==
  ASSUME TypeOK, Phone \/ HearCcch, UNCHANGED Others
  PROVE  TypeOK'
<1>1. ThreadTypeOK'
  BY DEF TypeOK, ThreadTypeOK, Others, clientVars, threadVars
<1>a. ASSUME toPhone' \in Seq(Requests), toHost' \in Seq(Messages),
             task' \in {"off", "idle", "fbsb", "camped"},
             task' \in {"fbsb", "camped"} => tuned' \in Arfcns,
             compl' \subseteq {"FB"}, overdue' \subseteq compl', synced' \in BOOLEAN, rachDue' = 0
      PROVE  TypeOK'
  BY <1>1, <1>a DEF TypeOK, PhoneTypeOK
<1>b. /\ toPhone \in Seq(Requests) /\ toHost \in Seq(Messages)
      /\ task \in {"off", "idle", "fbsb", "camped"}
      /\ task \in {"fbsb", "camped"} => tuned \in Arfcns
      /\ compl \subseteq {"FB"} /\ overdue \subseteq compl /\ synced \in BOOLEAN /\ rachDue = 0
  BY DEF TypeOK, PhoneTypeOK
<1>2. CASE ResetRequest
  <2>1. Take("RESET_REQ") /\ Send(<<Reset>>)
    BY <1>2 DEF ResetRequest
  <2>2. toPhone' \in Seq(Requests) /\ toHost' \in Seq(Messages)
    BY <2>1, PhoneTaken, Sent, MessageCases
  <2> QED
    BY <1>a, <1>b, <1>2, <2>2 DEF ResetRequest, ResetSchedulers, Take
<1>3. CASE FbsbRequest
  <2>1. Take("FBSB_REQ") /\ toPhone' \in Seq(Requests) /\ tuned' \in Arfcns
    BY <1>3, PhoneTaken, RequestCases DEF FbsbRequest
  <2> QED
    BY <1>a, <1>b, <1>3, <2>1 DEF FbsbRequest, ResetSchedulers, Take
<1>4. CASE CcchModeRequest
  <2>1. Take("CCCH_MODE_REQ") /\ Send(<<CcchModeConf>>)
    BY <1>4 DEF CcchModeRequest
  <2>2. toPhone' \in Seq(Requests) /\ toHost' \in Seq(Messages)
    BY <2>1, PhoneTaken, Sent, MessageCases
  <2> QED
    BY <1>a, <1>b, <1>4, <2>2 DEF CcchModeRequest, Take, phoneRach
<1>5. CASE Synchronise
  BY <1>a, <1>b, <1>5 DEF Synchronise, link
<1>6. CASE GiveUpSync
  BY <1>a, <1>b, <1>6 DEF GiveUpSync, link, phoneRach
<1>7. CASE SyncCompletion
  <2>1. toHost' \in Seq(Messages)
    BY <1>b, <1>7, Sent, MessageCases DEF SyncCompletion
  <2> QED
    BY <1>a, <1>b, <1>7, <2>1 DEF SyncCompletion, phoneRach
<1>8. CASE HearBcch \/ HearCcch
  <2>1. PICK m \in Messages : Send(<<m>>)
    BY <1>b, <1>8, MessageCases DEF HearBcch, HearCcch, Listening
  <2>2. toHost' \in Seq(Messages)
    BY <2>1, Sent
  <2> QED
    BY <1>a, <1>b, <1>8, <2>2 DEF HearBcch, HearCcch, phoneVars, phoneRach
<1>9. CASE Boot
  <2>1. toHost' \in Seq(Messages)
    BY <1>9, Sent, MessageCases DEF Boot
  <2>2. toPhone' \in Seq(Requests)
    BY <1>9 DEF Boot
  <2> QED
    BY <1>a, <1>9, <2>1, <2>2 DEF Boot
<1> QED
  BY <1>2, <1>3, <1>4, <1>5, <1>6, <1>7, <1>8, <1>9, PhoneSteps

LEMMA ReceiptType ==
  ASSUME TypeOK, Receipt
  PROVE  TypeOK'
<1>1. /\ client = "up" /\ HostGets(Head(toHost).type) /\ toHost' = Tail(toHost)
      /\ UNCHANGED <<phoneVars, client, threadVars>>
  BY DEF Receipt, ResetSignal, FbsbResult, Bcch, Ccch, CcchModeConfirmed, Receive, HostGets
<1>2. toHost' \in Seq(Messages) /\ Head(toHost) \in Messages
  BY <1>1, HostTaken
<1>a. ASSUME toPhone' \in Seq(Requests), ccch_mode' \in BOOLEAN, pipe' \in Seq(Lines)
      PROVE  TypeOK'
  BY <1>1, <1>2, <1>a DEF TypeOK, PhoneTypeOK, ThreadTypeOK, phoneVars, phoneRach, threadVars
<1>b. toPhone \in Seq(Requests) /\ ccch_mode \in BOOLEAN /\ pipe \in Seq(Lines)
  BY DEF TypeOK, PhoneTypeOK, ThreadTypeOK
<1>c. \A line \in Lines : Prints(line) => pipe' \in Seq(Lines)
  BY <1>b DEF Prints
<1>d. \A r \in Requests : Ask(<<r>>) => toPhone' \in Seq(Requests)
  BY Asked
<1>e. Ask(<<>>) => toPhone' \in Seq(Requests)
  BY <1>b, SameQueue DEF Ask
<1>3. CASE ResetSignal
  <2>1. FbsbReq(Target) \in Requests
    BY <1>1, TargetType, RequestCases
  <2> QED
    BY <1>a, <1>b, <1>d, <1>3, <2>1 DEF ResetSignal
<1>4. CASE FbsbResult
  BY <1>a, <1>b, <1>c, <1>4 DEF FbsbResult, Lines
<1>5. CASE Bcch
  <2>1. toPhone' \in Seq(Requests)
    BY <1>d, <1>e, <1>5, RequestCases DEF Bcch
  <2> QED
    BY <1>a, <1>b, <1>5, <2>1 DEF Bcch
<1>6. CASE Ccch
  <2>1. Head(toHost).kind \in Kinds
    BY <1>2, <1>6, MessageCases DEF Ccch, Receive, HostGets
  <2> QED
    BY <1>a, <1>b, <1>c, <1>6, <2>1 DEF Ccch, Lines, Kinds
<1>7. CASE CcchModeConfirmed
  BY <1>a, <1>b, <1>7 DEF CcchModeConfirmed
<1> QED
  BY <1>3, <1>4, <1>5, <1>6, <1>7 DEF Receipt

LEMMA KillType ==
  ASSUME TypeOK, NEW next \in {"none", "starting"}, Kill(next), UNCHANGED <<toHost, phoneVars>>
  PROVE  /\ PhoneTypeOK' /\ client' = next /\ ccch_mode' \in BOOLEAN /\ pipe' \in Seq(Lines)
<1>1. toPhone' \in Seq(Requests)
  <2>1. PICK n \in 0 .. (IF client = "up" THEN Len(toPhone) ELSE 0) :
          toPhone' = SubSeq(toPhone, 1, Len(toPhone) - n)
    BY DEF Kill
  <2>2. toPhone \in Seq(Requests) /\ Len(toPhone) \in Nat
    BY DEF TypeOK, PhoneTypeOK
  <2> QED
    BY <2>1, <2>2, SubSeqProperties
<1>2. PhoneTypeOK'
  BY <1>1 DEF TypeOK, PhoneTypeOK, phoneVars, phoneRach
<1>3. client' = next /\ ccch_mode' = FALSE /\ pipe' = <<>>
  BY DEF Kill
<1>4. <<>> \in Seq(Lines)
  OBVIOUS
<1> QED
  BY <1>2, <1>3, <1>4

LEMMA TypeStep ==
  ASSUME TypeOK, [Next]_vars
  PROVE  TypeOK'
<1>1. CASE ClientStarts
  <2>1. toPhone' \in Seq(Requests)
    BY <1>1, Asked, RequestCases DEF ClientStarts
  <2> QED
    BY <1>1, <2>1 DEF ClientStarts, TypeOK, PhoneTypeOK, ThreadTypeOK, phoneVars, phoneRach, threadVars
<1>2. CASE Receipt
  BY <1>2, ReceiptType
<1>3. CASE Drop
  <2>1. toHost' \in Seq(Messages)
    BY <1>3, Taken DEF Drop, TypeOK, PhoneTypeOK
  <2> QED
    BY <1>3, <2>1
    DEF Drop, TypeOK, PhoneTypeOK, ThreadTypeOK, phoneVars, phoneRach, clientVars, threadVars
<1>4. CASE Expire
  BY <1>4
  DEF Expire, TypeOK, PhoneTypeOK, ThreadTypeOK, link, phoneVars, phoneRach, clientVars
<1>5. CASE Poll
  <2>1. PhoneTypeOK'
    BY <1>5 DEF Poll, TypeOK, PhoneTypeOK, link, phoneVars, phoneRach
  <2>2. /\ thread' \in {"loop", "read"} /\ scan <= Len(Targets) /\ pch_retries > 0
        /\ time' \in {time, "known"}
        /\ UNCHANGED <<client, ccch_mode, pipe, scan, pch_retries, stale, found>>
    BY <1>5 DEF Poll, MayRead, clientVars
  <2> QED
    BY <2>1, <2>2 DEF TypeOK, ThreadTypeOK
<1>6. CASE ReadLine
  <2>1. pipe' \in Seq(Lines) /\ Head(pipe) \in Lines
    BY <1>6, Taken DEF ReadLine, TypeOK, ThreadTypeOK
  <2>2. found' \subseteq {"page", "hop"}
    BY <1>6, <2>1 DEF ReadLine, Counted, Lines, TypeOK, ThreadTypeOK
  <2> QED
    BY <1>6, <2>1, <2>2
    DEF ReadLine, TypeOK, PhoneTypeOK, ThreadTypeOK, link, phoneVars, phoneRach, clientVars
<1>7. CASE Retry
  <2>1. PhoneTypeOK' /\ client' = "starting" /\ ccch_mode' \in BOOLEAN /\ pipe' \in Seq(Lines)
    BY <1>7, KillType DEF Retry
  <2>2. pch_retries' \in 0 .. PCH_retries
    BY <1>7, PchScanAssumption DEF Retry, TypeOK, ThreadTypeOK
  <2> QED
    BY <1>7, <2>1, <2>2 DEF Retry, TypeOK, ThreadTypeOK
<1>8. CASE Finish
  <2>1. \E next \in {"none", "starting"} :
          Kill(next) /\ (next # "none" => scan < Len(Targets))
    BY <1>8 DEF Finish
  <2>2. /\ PhoneTypeOK' /\ ccch_mode' \in BOOLEAN /\ pipe' \in Seq(Lines)
        /\ client' \in {"none", "starting"} /\ (client' # "none" => scan < Len(Targets))
    BY <1>8, <2>1, KillType DEF Finish
  <2>3. scan \in 1 .. Len(Targets) /\ Len(Targets) \in Nat /\ PCH_retries \in Nat
    BY <1>8, PchScanAssumption DEF Finish, TypeOK, ThreadTypeOK
  <2>4. /\ scan' = scan + 1 /\ thread' = "loop" /\ pch_retries' = PCH_retries
        /\ stale' = FALSE /\ time' = "running" /\ found' = {}
    BY <1>8 DEF Finish
  <2>5. /\ scan' \in 1 .. Len(Targets) + 1 /\ pch_retries' \in 0 .. PCH_retries
        /\ client' # "none" => scan' <= Len(Targets)
    BY <2>2, <2>3, <2>4
  <2>6. ThreadTypeOK'
    BY <2>2, <2>4, <2>5 DEF ThreadTypeOK
  <2> QED
    BY <2>2, <2>6 DEF TypeOK
<1>9. CASE (Phone \/ HearCcch) /\ UNCHANGED Others
  BY <1>9, PhoneType
<1>10. CASE UNCHANGED vars
  BY <1>10
  DEF vars, TypeOK, PhoneTypeOK, ThreadTypeOK, link, phoneVars, phoneRach, clientVars, threadVars
<1> QED
  BY <1>1, <1>2, <1>3, <1>4, <1>5, <1>6, <1>7, <1>8, <1>9, <1>10 DEF Next, ThreadStep

-----------------------------------------------------------------------------
(* Steps of the program and the thread. *)

(* What is left behind an own reset does not matter. *)
LEMMA StartsOwn ==
  ASSUME TypeOK, ClientStarts
  PROVE  LeftBehind' /\ ModeInForce' /\ Awake'
<1>1. /\ Len(toPhone) \in Nat /\ DOMAIN toPhone' = 1 .. Len(toPhone) + 1
      /\ toPhone'[Len(toPhone) + 1].type = "RESET_REQ"
  BY Asked, RequestCases, MessageTypes DEF ClientStarts
<1> DEFINE n == Len(toPhone) + 1
<1>2. /\ n \in DOMAIN toPhone' /\ toPhone'[n].type = "RESET_REQ"
      /\ \A i \in DOMAIN toPhone' : i = n \/ i < n
  BY <1>1
<1> HIDE DEF n
<1>3. LeftBehind'
  BY <1>2 DEF LeftBehind, ResetDue
<1>4. Awake'
  BY <1>2 DEF Awake, Told
<1> QED
  BY <1>2, <1>3, <1>4 DEF ModeInForce, Settled

(* Nothing is said of a program that does not run. *)
LEMMA NotRunning ==
  ASSUME client' # "up"
  PROVE  LeftBehind' /\ ModeInForce' /\ Awake'
  BY DEF LeftBehind, ModeInForce, Settled, Awake

(* The thread may see that a synchronisation failed. *)
LEMMA ThreadKeeps ==
  ASSUME TypeOK, LeftBehind, ModeInForce, Awake, Expire \/ Poll \/ ReadLine \/ UNCHANGED vars
  PROVE  LeftBehind' /\ ModeInForce' /\ Awake'
<1>1. UNCHANGED <<link, phoneVars, clientVars, scan>>
  BY DEF Expire, Poll, ReadLine, vars, threadVars
<1>2. UNCHANGED <<toPhone, toHost, task, tuned, compl, synced, ccch, client, ccch_mode, scan>>
  BY <1>1 DEF link, phoneVars, clientVars
<1>3. LeftBehind' /\ ModeInForce'
  BY <1>2 DEF LeftBehind, ResetDue, Foreign, Target, ModeInForce, Settled
<1>4. (\E i \in DOMAIN pipe : pipe[i] = "fail") \/ thread = "retry" =>
      (\E i \in DOMAIN pipe' : pipe'[i] = "fail") \/ thread' = "retry"
  <2>1. CASE ReadLine
    <3>1. /\ pipe \in Seq(Lines) /\ pipe # <<>> /\ pipe' = Tail(pipe) /\ thread = "read"
          /\ thread' = IF Head(pipe) = "fail" THEN "retry" ELSE "loop"
      BY <2>1 DEF ReadLine, TypeOK, ThreadTypeOK
    <3>2. /\ Head(pipe) = pipe[1]
          /\ \A i \in DOMAIN pipe : i # 1 => i - 1 \in DOMAIN pipe' /\ pipe'[i - 1] = pipe[i]
      BY <3>1, Taken
    <3>3. ASSUME NEW i \in DOMAIN pipe, pipe[i] = "fail", i # 1
          PROVE  \E k \in DOMAIN pipe' : pipe'[k] = "fail"
      BY <3>2, <3>3
    <3> QED
      BY <3>1, <3>2, <3>3
  <2>2. CASE Poll
    BY <2>2 DEF Poll
  <2>3. CASE Expire
    BY <2>3 DEF Expire
  <2>4. CASE UNCHANGED vars
    BY <2>4 DEF vars, threadVars
  <2> QED
    BY <2>1, <2>2, <2>3, <2>4
<1>5. Awake'
  BY <1>2, <1>4 DEF Awake, Told, Failing
<1> QED
  BY <1>3, <1>5

(* A message that is handled. *)
LEMMA ReceiptFacts ==
  ASSUME TypeOK, Receipt
  PROVE  /\ client = "up" /\ HostGets(Head(toHost).type) /\ toHost' = Tail(toHost)
         /\ UNCHANGED <<phoneVars, client, threadVars>>
         /\ \/ ResetSignal /\ toHost[1].type = "RESET"
            \/ ~ResetSignal /\ toHost[1].type # "RESET"
<1>1. /\ client = "up" /\ HostGets(Head(toHost).type) /\ toHost' = Tail(toHost)
      /\ UNCHANGED <<phoneVars, client, threadVars>>
      /\ ResetSignal \/ Head(toHost).type # "RESET"
  BY DEF Receipt, ResetSignal, FbsbResult, Bcch, Ccch, CcchModeConfirmed, Receive, HostGets
<1>2. ResetSignal => Head(toHost).type = "RESET"
  BY DEF ResetSignal, Receive, HostGets
<1> QED
  BY <1>1, <1>2, HostTaken

(* What a message handled adds to the requests. *)
LEMMA ReceiptAsks ==
  ASSUME TypeOK, Receipt
  PROVE  \/ UNCHANGED <<toPhone, ccch_mode>>
         \/ ResetSignal /\ Ask(<<FbsbReq(Target)>>) /\ FbsbReq(Target) \in Requests /\ ccch_mode' = FALSE
         \/ ~ResetSignal /\ Ask(<<CcchModeReq>>) /\ CcchModeReq \in Requests
<1>1. FbsbReq(Target) \in Requests /\ CcchModeReq \in Requests
  BY ReceiptFacts, TargetType, RequestCases
<1>2. toPhone \o <<>> = toPhone
  BY SameQueue DEF TypeOK, PhoneTypeOK
<1>3. CASE ResetSignal
  BY <1>1, <1>3 DEF ResetSignal
<1>4. CASE FbsbResult \/ Ccch \/ CcchModeConfirmed
  BY <1>4 DEF FbsbResult, Ccch, CcchModeConfirmed
<1>5. CASE Bcch
  <2>1. ~ResetSignal
    BY <1>5 DEF Bcch, ResetSignal, Receive, HostGets
  <2>2. (ccch_mode' = ccch_mode /\ Ask(<<>>)) \/ Ask(<<CcchModeReq>>)
    BY <1>5 DEF Bcch, TypeOK, ThreadTypeOK
  <2> QED
    BY <1>1, <1>2, <2>1, <2>2 DEF Ask
<1> QED
  BY <1>3, <1>4, <1>5 DEF Receipt

LEMMA ReceiptLeft ==
  ASSUME TypeOK, LeftBehind, Receipt
  PROVE  LeftBehind'
<1>1. /\ client = "up" /\ toHost' = Tail(toHost)
      /\ UNCHANGED <<task, tuned, client, Target>>
  BY ReceiptFacts DEF phoneVars, threadVars, Target
<1>2. /\ DOMAIN toHost' \subseteq Nat /\ DOMAIN toHost \subseteq Nat
      /\ \A i \in DOMAIN toHost' : i + 1 \in DOMAIN toHost /\ toHost'[i] = toHost[i + 1]
      /\ \A i \in DOMAIN toHost : i # 1 => i - 1 \in DOMAIN toHost' /\ toHost'[i - 1] = toHost[i]
  BY ReceiptFacts, HostTaken
<1>3. /\ DOMAIN toPhone \subseteq DOMAIN toPhone' /\ \A i \in DOMAIN toPhone : toPhone'[i] = toPhone[i]
      /\ \A i \in DOMAIN toPhone' : i \in DOMAIN toPhone
            \/ ~(toPhone'[i].type = "FBSB_REQ" /\ toPhone'[i].arfcn # Target)
  <2>1. ASSUME NEW r \in Requests, Ask(<<r>>)
        PROVE  /\ DOMAIN toPhone \subseteq DOMAIN toPhone'
               /\ \A i \in DOMAIN toPhone : toPhone'[i] = toPhone[i]
               /\ \A i \in DOMAIN toPhone' : i \in DOMAIN toPhone \/ toPhone'[i] = r
    BY <2>1, Asked
  <2>2. CASE UNCHANGED toPhone
    BY <2>2
  <2>3. CASE ResetSignal /\ Ask(<<FbsbReq(Target)>>) /\ FbsbReq(Target) \in Requests
    BY <2>1, <2>3, MessageTypes
  <2>4. CASE Ask(<<CcchModeReq>>) /\ CcchModeReq \in Requests
    BY <2>1, <2>4, MessageTypes
  <2> QED
    BY <2>2, <2>3, <2>4, ReceiptAsks
<1>4. ResetDue => ResetDue'
  BY <1>3 DEF ResetDue
<1>5. ASSUME NEW i \in DOMAIN toPhone', toPhone'[i].type = "FBSB_REQ", toPhone'[i].arfcn # Target
      PROVE  \E j \in DOMAIN toPhone' : i < j /\ toPhone'[j].type = "RESET_REQ"
  <2>1. i \in DOMAIN toPhone /\ toPhone'[i] = toPhone[i]
    BY <1>3, <1>5
  <2>2. PICK j \in DOMAIN toPhone : i < j /\ toPhone[j].type = "RESET_REQ"
    BY <1>1, <1>5, <2>1 DEF LeftBehind
  <2> QED
    BY <1>3, <2>2
<1>6. ASSUME NEW i \in DOMAIN toHost', Foreign(toHost'[i])
      PROVE  ResetDue' \/ \E j \in DOMAIN toHost' : i < j /\ toHost'[j].type = "RESET"
  <2>1. i + 1 \in DOMAIN toHost /\ Foreign(toHost[i + 1])
    BY <1>2, <1>6
  <2>2. CASE ResetDue
    BY <1>4, <2>2
  <2>3. CASE ~ResetDue
    <3>1. PICK j \in DOMAIN toHost : i + 1 < j /\ toHost[j].type = "RESET"
      BY <1>1, <2>1, <2>3 DEF LeftBehind
    <3>2. j - 1 \in DOMAIN toHost' /\ toHost'[j - 1] = toHost[j] /\ i < j - 1
      BY <1>2, <3>1
    <3> QED
      BY <3>1, <3>2
  <2> QED
    BY <2>2, <2>3
<1>7. \A i : (Foreign(toHost[i]))' <=> Foreign(toHost'[i])
  BY <1>1 DEF Foreign
<1> QED
  BY <1>1, <1>4, <1>5, <1>6, <1>7 DEF LeftBehind

LEMMA ReceiptMode ==
  ASSUME TypeOK, ModeInForce, Receipt
  PROVE  ModeInForce'
<1> SUFFICES ASSUME Settled', ccch_mode'
             PROVE  LET syncs == {i \in DOMAIN toPhone' : toPhone'[i].type = "FBSB_REQ"}
                        modes == {i \in DOMAIN toPhone' : toPhone'[i] = CcchModeReq}
                    IN \/ ccch' /\ syncs = {}
                       \/ \E i \in modes : \A j \in syncs : j < i
  BY DEF ModeInForce
<1>1. ~ResetSignal /\ toHost[1].type # "RESET" /\ UNCHANGED <<ccch, client>> /\ client = "up"
  BY ReceiptFacts DEF ResetSignal, phoneVars
<1>2. CASE Ask(<<CcchModeReq>>) /\ CcchModeReq \in Requests
  <2>1. /\ Len(toPhone) \in Nat /\ DOMAIN toPhone' = 1 .. Len(toPhone) + 1
        /\ toPhone'[Len(toPhone) + 1] = CcchModeReq
    BY <1>2, Asked
  <2>2. CcchModeReq.type # "FBSB_REQ"
    BY MessageTypes
  <2> QED
    BY <2>1, <2>2
<1>3. CASE UNCHANGED <<toPhone, ccch_mode>>
  <2>1. \A i \in DOMAIN toHost : i # 1 => i - 1 \in DOMAIN toHost' /\ toHost'[i - 1] = toHost[i]
    BY ReceiptFacts, HostTaken
  <2>2. Settled
    BY <1>1, <1>3, <2>1 DEF Settled
  <2> QED
    BY <1>1, <1>3, <2>2 DEF ModeInForce
<1> QED
  BY <1>1, <1>2, <1>3, ReceiptAsks

LEMMA ReceiptAwake ==
  ASSUME TypeOK, Awake, Receipt
  PROVE  Awake'
<1> SUFFICES ASSUME task' = "idle" PROVE Told' \/ Failing'
  BY DEF Awake
<1>1. /\ client = "up" /\ UNCHANGED <<task, compl, synced, thread>> /\ HostGets(Head(toHost).type)
  BY ReceiptFacts DEF phoneVars, threadVars
<1>2. /\ Head(toHost) = toHost[1]
      /\ \A i \in DOMAIN toHost : i # 1 => i - 1 \in DOMAIN toHost' /\ toHost'[i - 1] = toHost[i]
  BY ReceiptFacts, HostTaken
<1>3. Told \/ Failing
  BY <1>1 DEF Awake
<1>4. CASE ResetSignal
  <2>1. Ask(<<FbsbReq(Target)>>) /\ FbsbReq(Target) \in Requests
    BY <1>1, <1>4, TargetType, RequestCases DEF ResetSignal
  <2>2. Len(toPhone) + 1 \in DOMAIN toPhone' /\ toPhone'[Len(toPhone) + 1] = FbsbReq(Target)
    BY <2>1, Asked
  <2> QED
    BY <2>2, MessageTypes DEF Told
<1>5. CASE ~ResetSignal
  <2>1. toHost[1].type # "RESET"
    BY <1>5, ReceiptFacts
  <2>2. \A i \in DOMAIN toPhone : i \in DOMAIN toPhone' /\ toPhone'[i] = toPhone[i]
    <3>1. ASSUME Ask(<<CcchModeReq>>), CcchModeReq \in Requests
          PROVE  \A i \in DOMAIN toPhone : i \in DOMAIN toPhone' /\ toPhone'[i] = toPhone[i]
      BY <3>1, Asked
    <3> QED
      BY <1>5, <3>1, ReceiptAsks
  <2>3. Told => Told'
    BY <1>2, <2>1, <2>2 DEF Told
  <2>4. \A i \in DOMAIN pipe : i \in DOMAIN pipe' /\ pipe'[i] = pipe[i]
    <3>1. UNCHANGED pipe \/ \E line \in Lines : Prints(line)
      <4>1. Ccch => Head(toHost).kind \in Kinds
        BY ReceiptFacts, HostTaken, MessageCases DEF Ccch, Receive, HostGets
      <4> QED
        BY <1>5, <4>1
        DEF Receipt, FbsbResult, Bcch, Ccch, CcchModeConfirmed, Lines, Kinds
    <3> QED
      BY <3>1 DEF Prints, TypeOK, ThreadTypeOK
  <2>5. toHost[1] = FbsbConf(FALSE) => \E i \in DOMAIN pipe' : pipe'[i] = "fail"
    <3> SUFFICES ASSUME toHost[1] = FbsbConf(FALSE) PROVE \E i \in DOMAIN pipe' : pipe'[i] = "fail"
      OBVIOUS
    <3>1. Head(toHost).type = "FBSB_CONF" /\ Head(toHost).ok = FALSE
      <4>1. FbsbConf(FALSE).type = "FBSB_CONF" /\ FbsbConf(FALSE).ok = FALSE
        BY DEF FbsbConf
      <4> QED
        BY <1>2, <4>1
    <3>2. FbsbResult
      BY <1>5, <3>1 DEF Receipt, ResetSignal, Bcch, Ccch, CcchModeConfirmed, Receive, HostGets
    <3>3. pipe' = Append(pipe, "fail") /\ pipe \in Seq(Lines) /\ "fail" \in Lines
      BY <3>1, <3>2 DEF FbsbResult, Prints, TypeOK, ThreadTypeOK, Lines
    <3>4. Len(pipe) + 1 \in DOMAIN pipe' /\ pipe'[Len(pipe) + 1] = "fail"
      BY <3>3
    <3> QED
      BY <3>4
  <2>6. Failing => Failing'
    BY <1>1, <1>2, <2>4, <2>5 DEF Failing
  <2> QED
    BY <1>3, <2>3, <2>6
<1> QED
  BY <1>4, <1>5

-----------------------------------------------------------------------------
(* Steps of the phone. *)

(* Requests are taken in order or lost, and messages appended. *)
LEMMA PhoneFacts ==
  ASSUME TypeOK, Phone \/ HearCcch
  PROVE  /\ \/ UNCHANGED toHost
            \/ \E m \in Messages : Send(<<m>>)
         /\ \/ UNCHANGED toPhone
            \/ \E t : Take(t)
            \/ Boot
<1>1. CASE Boot \/ HearBcch \/ HearCcch \/ SyncCompletion \/ ResetRequest \/ CcchModeRequest
  <2>1. \E m \in Messages : Send(<<m>>)
    BY <1>1, MessageCases
    DEF Boot, HearBcch, HearCcch, Listening, SyncCompletion, ResetRequest, CcchModeRequest, TypeOK, PhoneTypeOK
  <2>2. UNCHANGED toPhone \/ (\E t : Take(t)) \/ Boot
    BY <1>1 DEF HearBcch, HearCcch, SyncCompletion, ResetRequest, CcchModeRequest
  <2> QED
    BY <2>1, <2>2
<1>2. CASE FbsbRequest \/ Synchronise \/ GiveUpSync
  BY <1>2 DEF FbsbRequest, Synchronise, GiveUpSync, link
<1> QED
  BY <1>1, <1>2, PhoneSteps

(* The requests not taken are still there, and the messages sent before. *)
LEMMA PhoneOrder ==
  ASSUME TypeOK, Phone \/ HearCcch, ~Boot
  PROVE  /\ \A i \in DOMAIN toHost : i \in DOMAIN toHost' /\ toHost'[i] = toHost[i]
         /\ \A i \in DOMAIN toHost' : i \in Nat /\ (i \in DOMAIN toHost \/ i = Len(toHost) + 1)
         /\ \E d \in {0, 1} :
              /\ d = 1 => 1 \in DOMAIN toPhone /\ \E t : Take(t) /\ toPhone[1].type = t
              /\ d = 0 => UNCHANGED toPhone
              /\ \A i \in DOMAIN toPhone' : i \in Nat /\ i + d \in DOMAIN toPhone /\ toPhone'[i] = toPhone[i + d]
              /\ \A i \in DOMAIN toPhone : i \in Nat /\
                   (i # d => i - d \in DOMAIN toPhone' /\ toPhone'[i - d] = toPhone[i])
<1>1. /\ \A i \in DOMAIN toHost : i \in DOMAIN toHost' /\ toHost'[i] = toHost[i]
      /\ \A i \in DOMAIN toHost' : i \in Nat /\ (i \in DOMAIN toHost \/ i = Len(toHost) + 1)
  <2>1. CASE UNCHANGED toHost
    <3>1. DOMAIN toHost \subseteq Nat
      BY DEF TypeOK, PhoneTypeOK
    <3> QED
      BY <2>1, <3>1
  <2>2. ASSUME NEW m \in Messages, Send(<<m>>)
        PROVE  /\ \A i \in DOMAIN toHost : i \in DOMAIN toHost' /\ toHost'[i] = toHost[i]
               /\ \A i \in DOMAIN toHost' : i \in Nat /\ (i \in DOMAIN toHost \/ i = Len(toHost) + 1)
    BY <2>2, Sent
  <2> QED
    BY <2>1, <2>2, PhoneFacts
<1>2. CASE UNCHANGED toPhone
  <2>1. \A i \in DOMAIN toPhone : i \in Nat /\ i + 0 = i /\ i - 0 = i
    BY DEF TypeOK, PhoneTypeOK
  <2> QED
    BY <1>1, <1>2, <2>1
<1>3. ASSUME NEW t, Take(t)
      PROVE  /\ 1 \in DOMAIN toPhone /\ toPhone[1].type = t
             /\ \A i \in DOMAIN toPhone' : i \in Nat /\ i + 1 \in DOMAIN toPhone /\ toPhone'[i] = toPhone[i + 1]
             /\ \A i \in DOMAIN toPhone : i \in Nat /\
                  (i # 1 => i - 1 \in DOMAIN toPhone' /\ toPhone'[i - 1] = toPhone[i])
  BY <1>3, PhoneTaken
<1> QED
  BY <1>1, <1>2, <1>3, PhoneFacts

(* A reset that is due stays due until the phone has sent its answer. *)
LEMMA StaysDue ==
  ASSUME TypeOK, Phone \/ HearCcch, ~Boot, ~ResetRequest, ResetDue
  PROVE  ResetDue'
<1>1. PICK j \in DOMAIN toPhone : toPhone[j].type = "RESET_REQ"
  BY DEF ResetDue
<1>2. ASSUME NEW t \in {"FBSB_REQ", "CCCH_MODE_REQ"}, Take(t)
      PROVE  ResetDue'
  <2>1. toPhone[1].type = t /\ (j # 1 => j - 1 \in DOMAIN toPhone' /\ toPhone'[j - 1] = toPhone[j])
    BY <1>2, PhoneTaken
  <2>2. j # 1
    BY <1>1, <2>1
  <2> QED
    BY <1>1, <2>1, <2>2 DEF ResetDue
<1>3. CASE FbsbRequest
  <2>1. Take("FBSB_REQ")
    BY <1>3 DEF FbsbRequest
  <2> QED
    BY <1>2, <2>1
<1>4. CASE CcchModeRequest
  <2>1. Take("CCCH_MODE_REQ")
    BY <1>4 DEF CcchModeRequest
  <2> QED
    BY <1>2, <2>1
<1>5. CASE UNCHANGED toPhone
  BY <1>1, <1>5 DEF ResetDue
<1> QED
  BY <1>3, <1>4, <1>5, PhoneSteps
  DEF Synchronise, GiveUpSync, SyncCompletion, HearBcch, HearCcch, link

LEMMA ResetAnswered ==
  ASSUME TypeOK, ResetRequest \/ Boot
  PROVE  /\ Len(toHost) \in Nat /\ DOMAIN toHost = 1 .. Len(toHost)
         /\ DOMAIN toHost' = 1 .. Len(toHost) + 1
         /\ toHost'[Len(toHost) + 1].type = "RESET" /\ task' = "idle"
<1>1. Send(<<Reset>>) /\ task' = "idle"
  BY DEF ResetRequest, ResetSchedulers, Boot
<1> QED
  BY <1>1, Sent, MessageCases, MessageTypes

(* What is heard is of the ARFCN that was asked for. *)
LEMMA HeardOnTuned ==
  ASSUME TypeOK, Phone \/ HearCcch, ~Boot, UNCHANGED Others,
         NEW i \in DOMAIN toHost', i \notin DOMAIN toHost, Foreign(toHost'[i])
  PROVE  task = "camped" /\ tuned # Target /\ UNCHANGED toPhone
<1>a. ASSUME NEW m \in Messages, Send(<<m>>), m.type \notin {"PCH_IND", "BCCH_IND"}
      PROVE  FALSE
  BY <1>a, Sent DEF Foreign
<1>1. CASE HearBcch
  <2>1. PICK m \in Air[tuned] : Send(<<BcchInd(m)>>)
    BY <1>1 DEF HearBcch
  <2>2. task = "camped" /\ tuned \in Arfcns /\ UNCHANGED toPhone
    BY <1>1 DEF HearBcch, Listening, TypeOK, PhoneTypeOK
  <2>3. BcchInd(m) \in Messages /\ m.arfcn = tuned
    BY <2>2, MessageCases
  <2>4. toHost'[i] = BcchInd(m)
    BY <2>1, <2>3, Sent
  <2> QED
    BY <2>2, <2>3, <2>4, MessageTypes DEF Foreign
<1>2. CASE HearCcch
  <2>1. PICK k \in Kinds : Send(<<PchInd(tuned, k)>>)
    BY <1>2 DEF HearCcch
  <2>2. task = "camped" /\ tuned \in Arfcns /\ UNCHANGED toPhone
    BY <1>2 DEF HearCcch, Listening, TypeOK, PhoneTypeOK
  <2>3. PchInd(tuned, k) \in Messages
    BY <2>2, MessageCases
  <2>4. toHost'[i] = PchInd(tuned, k)
    BY <2>1, <2>3, Sent
  <2> QED
    BY <2>2, <2>4, MessageTypes DEF Foreign
<1>3. CASE ResetRequest
  BY <1>3, <1>a, MessageCases, MessageTypes DEF ResetRequest
<1>4. CASE CcchModeRequest
  BY <1>4, <1>a, MessageCases, MessageTypes DEF CcchModeRequest
<1>5. CASE SyncCompletion
  BY <1>5, <1>a, MessageCases, MessageTypes DEF SyncCompletion, TypeOK, PhoneTypeOK
<1>6. CASE FbsbRequest \/ Synchronise \/ GiveUpSync
  BY <1>6 DEF FbsbRequest, Synchronise, GiveUpSync, link
<1> QED
  BY <1>1, <1>2, <1>3, <1>4, <1>5, <1>6, PhoneSteps

LEMMA PhoneLeft ==
  ASSUME TypeOK, LeftBehind, Phone \/ HearCcch, UNCHANGED Others
  PROVE  LeftBehind'
<1> SUFFICES ASSUME client = "up"
             PROVE  LeftBehind'
  BY DEF LeftBehind, Others, clientVars
<1>1. Target' = Target /\ \A m : ((Foreign(m))' <=> Foreign(m))
  BY DEF Others, threadVars, Target, Foreign
<1>a. ASSUME \A i \in DOMAIN toPhone' : toPhone'[i].type = "FBSB_REQ" /\ toPhone'[i].arfcn # Target =>
               \E j \in DOMAIN toPhone' : i < j /\ toPhone'[j].type = "RESET_REQ",
             task' \in {"fbsb", "camped"} /\ tuned' # Target => ResetDue',
             \A i \in DOMAIN toHost' : Foreign(toHost'[i]) =>
               ResetDue' \/ \E j \in DOMAIN toHost' : i < j /\ toHost'[j].type = "RESET"
      PROVE  LeftBehind'
  <2>1. \A i : (Foreign(toHost[i]))' <=> Foreign(toHost'[i])
    BY <1>1 DEF Foreign
  <2> QED
    BY <1>1, <1>a, <2>1 DEF LeftBehind
<1>2. CASE Boot
  <2>1. DOMAIN toPhone' = {} /\ task' = "idle"
    BY <1>2 DEF Boot
  <2> DEFINE n == Len(toHost) + 1
  <2>2. n \in DOMAIN toHost' /\ toHost'[n].type = "RESET" /\ \A i \in DOMAIN toHost' : i < n \/ i = n
    BY <1>2, ResetAnswered
  <2> HIDE DEF n
  <2>3. \A i \in DOMAIN toHost' : Foreign(toHost'[i]) => i < n
    BY <2>2 DEF Foreign
  <2> QED
    BY <1>a, <2>1, <2>2, <2>3
<1>3. CASE ~Boot
  <2>1. PICK d \in {0, 1} :
          /\ d = 1 => 1 \in DOMAIN toPhone /\ \E t : Take(t) /\ toPhone[1].type = t
          /\ d = 0 => UNCHANGED toPhone
          /\ \A i \in DOMAIN toPhone' : i \in Nat /\ i + d \in DOMAIN toPhone /\ toPhone'[i] = toPhone[i + d]
          /\ \A i \in DOMAIN toPhone : i \in Nat /\
               (i # d => i - d \in DOMAIN toPhone' /\ toPhone'[i - d] = toPhone[i])
    BY <1>3, PhoneOrder
  <2>2. ASSUME NEW i \in DOMAIN toPhone, toPhone[i].type = "FBSB_REQ", toPhone[i].arfcn # Target, i >= d
        PROVE  \E j \in DOMAIN toPhone' : i - d < j /\ toPhone'[j].type = "RESET_REQ"
    <3>1. PICK j \in DOMAIN toPhone : i < j /\ toPhone[j].type = "RESET_REQ"
      BY <2>2 DEF LeftBehind
    <3>2. j \in Nat /\ i \in Nat /\ j # d /\ i - d < j - d
      BY <2>1, <2>2, <3>1
    <3>3. j - d \in DOMAIN toPhone' /\ toPhone'[j - d] = toPhone[j]
      BY <2>1, <3>2
    <3> QED
      BY <3>1, <3>2, <3>3
  <2>3. ASSUME NEW i \in DOMAIN toPhone', toPhone'[i].type = "FBSB_REQ", toPhone'[i].arfcn # Target
        PROVE  \E j \in DOMAIN toPhone' : i < j /\ toPhone'[j].type = "RESET_REQ"
    <3>1. i \in Nat /\ i + d \in DOMAIN toPhone /\ toPhone'[i] = toPhone[i + d]
      BY <2>1
    <3>2. PICK j \in DOMAIN toPhone' : (i + d) - d < j /\ toPhone'[j].type = "RESET_REQ"
      BY <2>2, <2>3, <3>1
    <3> QED
      BY <3>1, <3>2
  <2>4. ASSUME task' \in {"fbsb", "camped"}, tuned' # Target
        PROVE  ResetDue'
    <3>1. CASE FbsbRequest
      <4>1. Take("FBSB_REQ") /\ tuned' = Head(toPhone).arfcn
        BY <1>3, <3>1 DEF FbsbRequest
      <4>2. 1 \in DOMAIN toPhone /\ toPhone[1].type = "FBSB_REQ" /\ toPhone[1].arfcn # Target
        BY <2>4, <4>1, PhoneTaken
      <4>3. PICK j \in DOMAIN toPhone' : toPhone'[j].type = "RESET_REQ"
        BY <2>2, <4>2
      <4> QED
        BY <4>3 DEF ResetDue
    <3>2. CASE ~FbsbRequest
      <4>1. ~ResetRequest
        BY <2>4, ResetAnswered
      <4>2. task \in {"fbsb", "camped"} /\ tuned' = tuned
        BY <1>3, <2>4, <3>2, <4>1, PhoneSteps
        DEF CcchModeRequest, Synchronise, GiveUpSync, SyncCompletion, HearBcch, HearCcch, phoneVars
      <4> QED
        BY <1>3, <2>4, <4>1, <4>2, StaysDue DEF LeftBehind
    <3> QED
      BY <3>1, <3>2
  <2>5. ASSUME NEW i \in DOMAIN toHost', Foreign(toHost'[i])
        PROVE  ResetDue' \/ \E j \in DOMAIN toHost' : i < j /\ toHost'[j].type = "RESET"
    <3>1. /\ \A k \in DOMAIN toHost : k \in DOMAIN toHost' /\ toHost'[k] = toHost[k]
          /\ i \in Nat
      BY <1>3, PhoneOrder
    <3>2. CASE i \notin DOMAIN toHost
      <4>1. task = "camped" /\ tuned # Target /\ UNCHANGED toPhone
        BY <1>3, <2>5, <3>2, HeardOnTuned
      <4> QED
        BY <4>1 DEF LeftBehind, ResetDue
    <3>3. CASE i \in DOMAIN toHost /\ ResetRequest
      BY <3>3, ResetAnswered
    <3>4. CASE i \in DOMAIN toHost /\ ~ResetRequest
      <4>1. ResetDue \/ \E j \in DOMAIN toHost : i < j /\ toHost[j].type = "RESET"
        BY <2>5, <3>1, <3>4 DEF LeftBehind
      <4> QED
        BY <1>3, <3>1, <3>4, <4>1, StaysDue
    <3> QED
      BY <3>2, <3>3, <3>4
  <2> QED
    BY <1>a, <2>3, <2>4, <2>5
<1> QED
  BY <1>2, <1>3

LEMMA PhoneMode ==
  ASSUME TypeOK, ModeInForce, Phone \/ HearCcch, UNCHANGED Others
  PROVE  ModeInForce'
<1> SUFFICES ASSUME Settled', ccch_mode'
             PROVE  LET syncs == {i \in DOMAIN toPhone' : toPhone'[i].type = "FBSB_REQ"}
                        modes == {i \in DOMAIN toPhone' : toPhone'[i] = CcchModeReq}
                    IN \/ ccch' /\ syncs = {}
                       \/ \E i \in modes : \A j \in syncs : j < i
  BY DEF ModeInForce
<1> DEFINE syncs == {i \in DOMAIN toPhone : toPhone[i].type = "FBSB_REQ"}
           modes == {i \in DOMAIN toPhone : toPhone[i] = CcchModeReq}
<1>1. ~ResetRequest /\ ~Boot
  <2>1. ASSUME ResetRequest \/ Boot PROVE FALSE
    <3>1. Len(toHost) + 1 \in DOMAIN toHost' /\ toHost'[Len(toHost) + 1].type = "RESET"
      BY <2>1, ResetAnswered
    <3> QED
      BY <3>1 DEF Settled
  <2> QED
    BY <2>1
<1>2. ccch_mode /\ client = "up" /\ client' = client
  BY DEF Others, clientVars, Settled
<1>3. ~ResetDue
  BY <1>1, StaysDue DEF Settled, ResetDue
<1>4. Settled
  <2>1. \A k \in DOMAIN toHost : k \in DOMAIN toHost' /\ toHost'[k] = toHost[k]
    BY <1>1, PhoneOrder
  <2> QED
    BY <1>2, <1>3, <2>1 DEF Settled, ResetDue
<1>5. (ccch /\ syncs = {}) \/ \E i \in modes : \A j \in syncs : j < i
  BY <1>2, <1>4 DEF ModeInForce
<1>6. CASE FbsbRequest \/ CcchModeRequest
  <2>1. PICK t : /\ Take(t)
                 /\ t = "FBSB_REQ" \/ (t = "CCCH_MODE_REQ" /\ ccch')
    BY <1>6 DEF FbsbRequest, CcchModeRequest
  <2>2. /\ 1 \in DOMAIN toPhone /\ Head(toPhone) = toPhone[1] /\ toPhone[1].type = t
        /\ DOMAIN toPhone \subseteq Nat /\ DOMAIN toPhone' \subseteq Nat
        /\ \A i \in DOMAIN toPhone' : i + 1 \in DOMAIN toPhone /\ toPhone'[i] = toPhone[i + 1]
        /\ \A i \in DOMAIN toPhone : i # 1 => i - 1 \in DOMAIN toPhone' /\ toPhone'[i - 1] = toPhone[i]
    BY <2>1, PhoneTaken
  <2>3. CcchModeReq.type = "CCCH_MODE_REQ"
    BY MessageTypes
  <2>4. \A i \in DOMAIN toPhone' : 1 <= i
    <3>1. toPhone' \in Seq(Requests)
      BY <2>1, PhoneTaken
    <3> QED
      BY <3>1
  <2>5. CASE t = "CCCH_MODE_REQ" /\ \A j \in syncs : j <= 1
    <3>1. \A i \in DOMAIN toPhone' : toPhone'[i].type # "FBSB_REQ"
      <4> SUFFICES ASSUME NEW i \in DOMAIN toPhone', toPhone'[i].type = "FBSB_REQ"
                   PROVE  FALSE
        OBVIOUS
      <4>1. i + 1 \in syncs /\ i \in Nat
        BY <2>2
      <4> QED
        BY <2>4, <2>5, <4>1
    <3> QED
      BY <2>1, <2>5, <3>1
  <2>6. CASE \E i \in modes : i # 1 /\ \A j \in syncs : j < i
    <3>1. PICK i \in modes : i # 1 /\ \A j \in syncs : j < i
      BY <2>6
    <3>2. i - 1 \in DOMAIN toPhone' /\ toPhone'[i - 1] = CcchModeReq
      BY <2>2, <3>1
    <3>3. ASSUME NEW j \in DOMAIN toPhone', toPhone'[j].type = "FBSB_REQ"
          PROVE  j < i - 1
      <4>1. j + 1 \in syncs /\ j \in Nat /\ i \in Nat
        BY <2>2, <3>3
      <4>2. j + 1 < i
        BY <3>1, <4>1
      <4> QED
        BY <4>1, <4>2
    <3> QED
      BY <3>2, <3>3
  <2>7. t = "FBSB_REQ" => 1 \in syncs
    BY <2>2
  <2>8. 1 \in modes => t = "CCCH_MODE_REQ"
    BY <2>2, <2>3
  <2>9. ASSUME 1 \in modes, \A j \in syncs : j < 1
        PROVE  \A j \in syncs : j <= 1
    BY <2>2, <2>9
  <2> HIDE DEF syncs, modes
  <2>10. t = "CCCH_MODE_REQ" /\ syncs = {} => \A j \in syncs : j <= 1
    OBVIOUS
  <2> QED
    BY <1>5, <2>1, <2>5, <2>6, <2>7, <2>8, <2>9, <2>10
<1>7. CASE UNCHANGED <<toPhone, ccch>>
  BY <1>5, <1>7
<1>8. CASE Synchronise \/ GiveUpSync \/ SyncCompletion \/ HearBcch \/ HearCcch
  BY <1>7, <1>8 DEF Synchronise, GiveUpSync, SyncCompletion, HearBcch, HearCcch, link, phoneVars
<1> QED
  BY <1>1, <1>6, <1>8, PhoneSteps

LEMMA PhoneAwake ==
  ASSUME TypeOK, Awake, Phone \/ HearCcch, UNCHANGED Others
  PROVE  Awake'
<1> SUFFICES ASSUME client = "up", task' = "idle"
             PROVE  Told' \/ Failing'
  BY DEF Awake, Others, clientVars
<1>1. CASE ResetRequest \/ Boot
  BY <1>1, ResetAnswered DEF Told
<1>2. CASE GiveUpSync
  BY <1>2 DEF GiveUpSync, Failing
<1>3. CASE ~Boot /\ (CcchModeRequest \/ SyncCompletion \/ HearBcch \/ HearCcch)
  <2>1. task = "idle" /\ UNCHANGED <<pipe, thread, synced>>
    BY <1>3 DEF CcchModeRequest, SyncCompletion, HearBcch, HearCcch, phoneVars, Others, threadVars
  <2>2. \A k \in DOMAIN toHost : k \in DOMAIN toHost' /\ toHost'[k] = toHost[k]
    BY <1>3, PhoneOrder
  <2>3. Told => Told'
    <3>1. ASSUME NEW j \in DOMAIN toPhone, toPhone[j].type \in {"RESET_REQ", "FBSB_REQ"}
          PROVE  \E i \in DOMAIN toPhone' : toPhone'[i].type \in {"RESET_REQ", "FBSB_REQ"}
      <4>1. CASE CcchModeRequest
        <5>1. /\ toPhone[1].type = "CCCH_MODE_REQ"
              /\ j # 1 => j - 1 \in DOMAIN toPhone' /\ toPhone'[j - 1] = toPhone[j]
          BY <4>1, PhoneTaken DEF CcchModeRequest
        <5> QED
          BY <3>1, <5>1
      <4>2. CASE UNCHANGED toPhone
        BY <3>1, <4>2
      <4> QED
        BY <1>3, <4>1, <4>2 DEF SyncCompletion, HearBcch, HearCcch
    <3> QED
      BY <2>2, <3>1 DEF Told
  <2>4. Failing => Failing'
    <3>1. CASE SyncCompletion /\ "FB" \in compl /\ ~synced
      <4>1. synced = FALSE
        BY <3>1 DEF TypeOK, PhoneTypeOK
      <4>2. PICK m \in Messages : m = FbsbConf(FALSE) /\ Send(<<m>>)
        BY <3>1, <4>1, MessageCases DEF SyncCompletion
      <4>3. Len(toHost) + 1 \in DOMAIN toHost' /\ toHost'[Len(toHost) + 1] = m
        <5>1. Len(toHost) \in Nat /\ DOMAIN toHost' = 1 .. Len(toHost) + 1 /\ toHost'[Len(toHost) + 1] = m
          BY <4>2, Sent
        <5> QED
          BY <5>1
      <4> QED
        BY <4>2, <4>3 DEF Failing
    <3>2. CASE compl' = compl
      BY <2>1, <2>2, <3>2 DEF Failing
    <3>3. CASE ~("FB" \in compl /\ ~synced)
      BY <2>1, <2>2, <3>3 DEF Failing
    <3> QED
      BY <1>3, <3>1, <3>2, <3>3 DEF CcchModeRequest, HearBcch, HearCcch, phoneVars
  <2> QED
    BY <2>1, <2>3, <2>4 DEF Awake
<1>4. CASE FbsbRequest \/ Synchronise
  BY <1>4 DEF FbsbRequest, ResetSchedulers, Synchronise
<1> QED
  BY <1>1, <1>2, <1>3, <1>4, PhoneSteps

-----------------------------------------------------------------------------
(* The theorems. *)

LEMMA ScanInvariant == Spec => []ScanInv
<1>1. Init => ScanInv
  <2> SUFFICES ASSUME Init PROVE ScanInv
    OBVIOUS
  <2>1. /\ toPhone = <<>> /\ toHost = <<>> /\ task \in {"off", "idle"} /\ compl = {} /\ overdue = {}
        /\ synced = FALSE /\ rachDue = 0
    BY DEF Init, Layer1Init
  <2>2. /\ scan = 1 /\ client = "starting" /\ ccch_mode = FALSE /\ pipe = <<>> /\ thread = "loop"
        /\ pch_retries = PCH_retries /\ stale = FALSE /\ time = "running" /\ found = {}
    BY DEF Init
  <2>3. PhoneTypeOK
    <3>1. <<>> \in Seq(Requests) /\ <<>> \in Seq(Messages)
      OBVIOUS
    <3> QED
      BY <2>1, <3>1 DEF PhoneTypeOK
  <2>4. 1 \in 1 .. Len(Targets) + 1 /\ 1 <= Len(Targets) /\ PCH_retries \in 0 .. PCH_retries
    BY PchScanAssumption
  <2>5. ThreadTypeOK
    <3>1. <<>> \in Seq(Lines)
      OBVIOUS
    <3> QED
      BY <2>2, <2>4, <3>1 DEF ThreadTypeOK
  <2> QED
    BY <2>2, <2>3, <2>5 DEF ScanInv, TypeOK, LeftBehind, ModeInForce, Settled, Awake
<1>2. ScanInv /\ [Next]_vars => ScanInv'
  <2> SUFFICES ASSUME TypeOK, LeftBehind, ModeInForce, Awake, [Next]_vars
               PROVE  LeftBehind' /\ ModeInForce' /\ Awake'
    BY TypeStep DEF ScanInv
  <2>1. CASE ClientStarts
    BY <2>1, StartsOwn
  <2>2. CASE Receipt
    BY <2>2, ReceiptLeft, ReceiptMode, ReceiptAwake
  <2>3. CASE Drop
    BY <2>3, NotRunning DEF Drop, clientVars
  <2>4. CASE Expire \/ Poll \/ ReadLine \/ UNCHANGED vars
    BY <2>4, ThreadKeeps
  <2>5. CASE Retry \/ Finish
    BY <2>5, NotRunning DEF Retry, Finish, Kill
  <2>6. CASE (Phone \/ HearCcch) /\ UNCHANGED Others
    BY <2>6, PhoneLeft, PhoneMode, PhoneAwake
  <2> QED
    BY <2>1, <2>2, <2>3, <2>4, <2>5, <2>6 DEF Next, ThreadStep
<1> QED
  BY <1>1, <1>2, PTL DEF Spec

(***************************************************************************)
(* However the last client ended, and whenever the phone was switched off, *)
(* what is heard after the answer to the client's reset is of the ARFCN    *)
(* that is scanned (pch_scan.c:458, 533).                                  *)
(***************************************************************************)
THEOREM HearsTarget == Spec => []OwnCell
<1>1. ScanInv => OwnCell
  BY DEF ScanInv, LeftBehind, OwnCell, Settled, ResetDue, Foreign
<1> QED
  BY <1>1, ScanInvariant, PTL

(***************************************************************************)
(* The mode of the CCCH the program takes for set is set, or will be by a  *)
(* request behind the last synchronisation (pch_scan.c:89, 513).           *)
(***************************************************************************)
THEOREM ModeIsInForce == Spec => []ModeInForce
<1>1. ScanInv => ModeInForce
  BY DEF ScanInv
<1> QED
  BY <1>1, ScanInvariant, PTL

(***************************************************************************)
(* A phone that is idle under a connected program has been or will be told *)
(* to synchronise, or the program is about to be started again             *)
(* (pch_scan.c:530, driverConnector.py:241).                               *)
(***************************************************************************)
THEOREM NeverWaitsDeaf == Spec => []NeverDeaf
<1>1. ScanInv => NeverDeaf
  <2> SUFFICES ASSUME ScanInv, client = "up", task = "idle"
               PROVE  \/ \E i \in DOMAIN toPhone : toPhone[i].type \in {"RESET_REQ", "FBSB_REQ"}
                      \/ \E i \in DOMAIN toHost : toHost[i] \in {Reset, FbsbConf(FALSE)}
                      \/ "FB" \in compl
                      \/ "fail" \in {pipe[i] : i \in DOMAIN pipe} \/ thread = "retry"
    BY DEF NeverDeaf
  <2>1. Told \/ Failing
    BY DEF ScanInv, Awake
  <2>2. \A i \in DOMAIN toHost : toHost[i].type = "RESET" => toHost[i] = Reset
    BY MessageCases DEF ScanInv, TypeOK, PhoneTypeOK
  <2>3. CASE Told
    BY <2>2, <2>3 DEF Told
  <2>4. CASE Failing
    BY <2>4 DEF Failing
  <2> QED
    BY <2>1, <2>3, <2>4
<1> QED
  BY <1>1, ScanInvariant, PTL
=============================================================================
