------------------------------- MODULE Layer1 -------------------------------
(***************************************************************************)
(* Layer 1 of the phone firmware (target/firmware/layer1), as far as the   *)
(* requests of catcher reach it.                                           *)
(*                                                                         *)
(* Two activities share its state.  The frame interrupt (FIQ) advances the *)
(* scheduled radio task and leaves a completion bit behind; the main loop  *)
(* alternates between executing pending completions and handling one host  *)
(* request.  A reset clears the schedulers but neither the completion bits *)
(* nor a partly filled measurement message.                                *)
(***************************************************************************)
EXTENDS L1Link

CONSTANTS
  PmBatch,     \* measurement results that fit in one L1CTL_PM_CONF
  LinkBound,   \* bound: unread messages beyond which the cell sends nothing more
  FnBound,     \* bound: bursts sent on one cell
  MaxRefs,     \* bound: request references in one assignment message
  MaxReboots   \* bound: times the running phone is switched off and on again

ASSUME Layer1Assumption ==
  /\ PmBatch \in Nat \ {0}
  /\ {LinkBound, FnBound, MaxRefs, MaxReboots} \subseteq Nat

VARIABLES
  task,      \* what the frame interrupt is working on
  tuned,     \* the ARFCN of the last L1CTL_FBSB_REQ
  pmNext,    \* l1s.pm.range.arfcn_next
  pmEnd,     \* l1s.pm.range.arfcn_end
  pmMsg,     \* l1s.pm.msg: results not yet sent
  compl,     \* l1s.scheduled_compl
  overdue,   \* completions the main loop executes before it takes a request
  synced,    \* the result the FB completion will report
  ccch,      \* a CCCH multiframe task is enabled
  rachRa,    \* l1s.rach.ra
  rachDue,   \* RACH bursts scheduled and not sent yet
  lastRach,  \* last_rach.fn
  fn,        \* frame number of the last burst sent on the tuned cell
  onAir,     \* the bursts sent since the last synchronisation, as the cell heard them
  reboots

phoneRach == <<rachRa, rachDue, lastRach, fn, onAir>>
phonePm == <<pmNext, pmEnd, pmMsg>>
phoneVars == <<task, tuned, phonePm, compl, overdue, synced, ccch, phoneRach, reboots>>

Layer1Init ==
  /\ task \in {"off", "idle"}
  /\ tuned = 0
  /\ pmNext = 0 /\ pmEnd = 0 /\ pmMsg = <<>>
  /\ compl = {} /\ overdue = {} /\ synced = FALSE /\ ccch = FALSE
  /\ rachRa \in RA /\ rachDue = 0 /\ lastRach = 0
  /\ fn = 0 /\ onAir = {}
  /\ reboots = 0

Send(msgs) == toHost' = toHost \o msgs

-----------------------------------------------------------------------------
(***************************************************************************)
(* l1a_l23_handler: one request of the host.  A completion flagged before  *)
(* it is executed on the next round of the main loop, before the next      *)
(* request.                                                                *)
(***************************************************************************)
Take(t) ==
  /\ task # "off" /\ overdue = {}
  /\ toPhone # <<>> /\ Head(toPhone).type = t
  /\ toPhone' = Tail(toPhone)
  /\ overdue' = compl

(* l1s_reset: stop every scheduled radio task. *)
ResetSchedulers(next) ==
  /\ task' = next
  /\ ccch' = FALSE
  /\ rachDue' = 0

ResetRequest ==
  /\ Take("RESET_REQ")
  /\ ResetSchedulers("idle")
  /\ Send(<<Reset>>)
  /\ UNCHANGED <<tuned, phonePm, compl, synced, rachRa, lastRach, fn, onAir, reboots>>

PmRequest ==
  /\ Take("PM_REQ")
  /\ task' = "pm"
  /\ pmNext' = Head(toPhone).from
  /\ pmEnd' = Head(toPhone).to
  /\ UNCHANGED <<toHost, tuned, pmMsg, compl, synced, ccch, phoneRach, reboots>>

FbsbRequest ==
  /\ Take("FBSB_REQ")
  /\ ResetSchedulers("fbsb")
  /\ tuned' = Head(toPhone).arfcn
  /\ UNCHANGED <<toHost, phonePm, compl, synced, rachRa, lastRach, fn, onAir, reboots>>

CcchModeRequest ==
  /\ Take("CCCH_MODE_REQ")
  /\ ccch' = TRUE
  /\ Send(<<CcchModeConf>>)
  /\ UNCHANGED <<task, tuned, phonePm, compl, synced, phoneRach, reboots>>

(* l1a_rach_req: the burst waits for its frame, its ra is read only then. *)
RachRequest ==
  /\ Take("RACH_REQ")
  /\ rachRa' = Head(toPhone).ra
  /\ rachDue' = rachDue + 1
  /\ lastRach' = 0
  /\ UNCHANGED <<toHost, task, tuned, phonePm, compl, synced, ccch, fn, onAir, reboots>>

Request ==
  ResetRequest \/ PmRequest \/ FbsbRequest \/ CcchModeRequest \/ RachRequest

-----------------------------------------------------------------------------
(* The frame interrupt. *)

(* l1s_pm_resp: one ARFCN measured; a full or final message is flushed. *)
MeasureNext ==
  /\ task = "pm"
  /\ \E lev \in Levels :
       LET full  == Len(pmMsg) = PmBatch
           msg   == (IF full THEN <<>> ELSE pmMsg) \o <<PmRes(pmNext, lev)>>
           flush == IF full THEN pmMsg ELSE <<>>
       IN \/ /\ pmNext # pmEnd
             /\ pmNext' = pmNext + 1
             /\ pmMsg' = msg
             /\ Send(flush)
             /\ UNCHANGED task
          \/ /\ pmNext = pmEnd
             /\ pmMsg' = <<>>
             /\ Send(flush \o msg \o <<PmDone>>)
             /\ task' = "idle"
             /\ UNCHANGED pmNext
  /\ UNCHANGED <<toPhone, tuned, pmEnd, compl, overdue, synced, ccch, phoneRach, reboots>>

(* l1s_sbdet_resp: synchronised; reading the BCCH starts at once. *)
Synchronise ==
  /\ task = "fbsb"
  /\ task' = "camped"
  /\ compl' = compl \cup {"FB"}
  /\ synced' = TRUE
  /\ fn' = 0 /\ onAir' = {}
  /\ UNCHANGED <<link, tuned, phonePm, overdue, ccch, rachRa, rachDue, lastRach, reboots>>

(* l1s_fbdet_resp, l1s_sbdet_resp: the last attempt failed. *)
GiveUpSync ==
  /\ task = "fbsb"
  /\ task' = "idle"
  /\ compl' = compl \cup {"FB"}
  /\ synced' = FALSE
  /\ UNCHANGED <<link, tuned, phonePm, overdue, ccch, phoneRach, reboots>>

(* l1s_tx_rach_cmd and l1s_tx_rach_resp: a burst is sent. *)
TransmitRach ==
  /\ rachDue > 0 /\ fn < FnBound
  /\ rachDue' = rachDue - 1
  /\ fn' = fn + 1
  /\ lastRach' = fn + 1
  /\ onAir' = onAir \cup {[ra |-> rachRa, fn |-> fn + 1]}
  /\ compl' = compl \cup {"RACH"}
  /\ UNCHANGED <<link, task, tuned, phonePm, overdue, synced, ccch, rachRa, reboots>>

(* l1s_nb_resp: the camped cell is heard, on its BCCH or its AGCH. *)
Listening == task = "camped" /\ Len(toHost) < LinkBound

HearBcch ==
  /\ Listening
  /\ \E m \in Air[tuned] : Send(<<BcchInd(m)>>)
  /\ UNCHANGED <<toPhone, phoneVars>>

(* The cell answers bursts of this phone and of others in frames so far. *)
HearAgch ==
  /\ Listening /\ ccch
  /\ \E refs \in SUBSET [ra : RA, fn : 0 .. fn] :
       /\ refs # {} /\ Cardinality(refs) <= MaxRefs
       /\ Send(<<AgchInd(refs)>>)
  /\ UNCHANGED <<toPhone, phoneVars>>

-----------------------------------------------------------------------------
(* l1a_compl_execute *)
SyncCompletion ==
  /\ task # "off" /\ "FB" \in compl
  /\ compl' = compl \ {"FB"}
  /\ overdue' = overdue \ {"FB"}
  /\ Send(<<FbsbConf(synced)>>)
  /\ UNCHANGED <<toPhone, task, tuned, phonePm, synced, ccch, phoneRach, reboots>>

RachCompletion ==
  /\ task # "off" /\ "RACH" \in compl
  /\ compl' = compl \ {"RACH"}
  /\ overdue' = overdue \ {"RACH"}
  /\ Send(<<RachConf(lastRach)>>)
  /\ UNCHANGED <<toPhone, task, tuned, phonePm, synced, ccch, phoneRach, reboots>>

(***************************************************************************)
(* main: the firmware starts, now or again after a power cycle, and        *)
(* announces itself.  Requests sent to a phone that was off are lost.      *)
(***************************************************************************)
Boot ==
  /\ \/ task = "off" /\ UNCHANGED reboots
     \/ task # "off" /\ reboots < MaxReboots /\ reboots' = reboots + 1
  /\ task' = "idle"
  /\ tuned' = 0
  /\ pmNext' = 0 /\ pmEnd' = 0 /\ pmMsg' = <<>>
  /\ compl' = {} /\ overdue' = {} /\ synced' = FALSE /\ ccch' = FALSE
  /\ rachRa' \in RA /\ rachDue' = 0 /\ lastRach' = 0
  /\ fn' = 0 /\ UNCHANGED onAir
  /\ toPhone' = <<>>
  /\ Send(<<Reset>>)

Completion == SyncCompletion \/ RachCompletion
Cell == HearBcch \/ HearAgch
Radio == MeasureNext \/ Synchronise \/ GiveUpSync \/ TransmitRach

Layer1Next == Request \/ Radio \/ Completion \/ Cell \/ Boot

Layer1TypeOK ==
  /\ task \in {"off", "idle", "pm", "fbsb", "camped"}
  /\ tuned \in Arfcns \cup {0} /\ (task \in {"fbsb", "camped"} => tuned \in Arfcns)
  /\ task = "pm" =>
       \E i \in DOMAIN Bands : pmNext \in Range2Set(Bands[i]) /\ pmEnd = Bands[i][2]
  /\ pmMsg \in Seq(PmResults)
  /\ compl \subseteq {"FB", "RACH"} /\ overdue \subseteq compl
  /\ synced \in BOOLEAN
  /\ ccch \in BOOLEAN
  /\ rachRa \in RA
  /\ rachDue \in Nat /\ lastRach \in Nat /\ fn \in 0 .. FnBound
  /\ onAir \subseteq Ref
  /\ reboots \in 0 .. MaxReboots
=============================================================================
