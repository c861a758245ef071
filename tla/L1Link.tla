------------------------------- MODULE L1Link -------------------------------
(***************************************************************************)
(* The link between a layer23 host program and the phone's layer 1.        *)
(*                                                                         *)
(* The host and the phone exchange L1CTL messages over the osmocon serial  *)
(* link.  Each direction is a reliable FIFO: osmocon forwards every frame  *)
(* in order.  A message is a record whose field "type" is the L1CTL        *)
(* message type; only the fields the two ends look at are kept.  An        *)
(* L1CTL_PM_CONF is split into its results, one PM_RES each, followed by   *)
(* PM_DONE when its F_DONE flag is set: that is how rx_l1_pm_conf and      *)
(* l1ctl_recv dispatch it.                                                 *)
(***************************************************************************)
EXTENDS Integers, Sequences, FiniteSets, SystemInfo

CONSTANTS
  Bands,     \* band_range: the ARFCN ranges <<from, to>> the phone measures, in order
  Levels,    \* the reception levels (dBm) a measurement can yield
  Air,       \* Air[a]: the BCCH messages the cell on ARFCN a broadcasts
  RA         \* the random references a channel request can carry

Range2Set(r) == r[1] .. r[2]
Arfcns == UNION {Range2Set(Bands[i]) : i \in DOMAIN Bands}

ASSUME LinkAssumption ==
  /\ Bands \in Seq(Nat \X Nat)
  /\ Len(Bands) > 0
  /\ \A i \in DOMAIN Bands : Bands[i][1] <= Bands[i][2] /\ Bands[i] # <<0, 0>>
  /\ \A i, j \in DOMAIN Bands :
       i # j => Range2Set(Bands[i]) \cap Range2Set(Bands[j]) = {}
  /\ Levels \subseteq Int
  /\ Air \in [Arfcns -> SUBSET SIMessage]
  /\ \A a \in Arfcns : \A m \in Air[a] : m.arfcn = a
  /\ RA # {}

(* A request reference: the random access value and the frame of the burst. *)
Ref == [ra : RA, fn : Nat]

VARIABLES
  toPhone,   \* L1CTL requests on their way from the host to the phone
  toHost     \* L1CTL indications and confirmations on their way to the host

link == <<toPhone, toHost>>

(* Host to phone *)
ResetReq        == [type |-> "RESET_REQ"]
PmReq(from, to) == [type |-> "PM_REQ", from |-> from, to |-> to]
FbsbReq(a)      == [type |-> "FBSB_REQ", arfcn |-> a]
CcchModeReq     == [type |-> "CCCH_MODE_REQ"]
RachReq(ra)     == [type |-> "RACH_REQ", ra |-> ra]

PhoneMsg ==
  {ResetReq, CcchModeReq}
    \cup {PmReq(Bands[i][1], Bands[i][2]) : i \in DOMAIN Bands}
    \cup [type : {"FBSB_REQ"}, arfcn : Arfcns]
    \cup [type : {"RACH_REQ"}, ra : RA]

(* Phone to host *)
Reset         == [type |-> "RESET"]     \* RESET_IND and RESET_CONF: one signal
PmRes(a, lev) == [type |-> "PM_RES", arfcn |-> a, rxlev |-> lev]
PmDone        == [type |-> "PM_DONE"]
FbsbConf(ok)  == [type |-> "FBSB_CONF", ok |-> ok]
BcchInd(m)    == [type |-> "BCCH_IND", msg |-> m]
AgchInd(refs) == [type |-> "AGCH_IND", refs |-> refs]
RachConf(fn)  == [type |-> "RACH_CONF", fn |-> fn]
CcchModeConf  == [type |-> "CCCH_MODE_CONF"]

PmResults == [type : {"PM_RES"}, arfcn : Arfcns, rxlev : Levels]

HostMsg ==
  {Reset, PmDone, CcchModeConf} \cup PmResults
    \cup [type : {"FBSB_CONF"}, ok : BOOLEAN]
    \cup [type : {"BCCH_IND"}, msg : SIMessage]
    \cup [type : {"AGCH_IND"}, refs : SUBSET Ref]
    \cup [type : {"RACH_CONF"}, fn : Nat]

(* The next message to the host has type t. *)
HostGets(t) == toHost # <<>> /\ Head(toHost).type = t

LinkTypeOK ==
  /\ toPhone \in Seq(PhoneMsg)
  /\ toHost \in Seq(HostMsg)
=============================================================================
