-------------------------------- MODULE Radio --------------------------------
(***************************************************************************)
(* The radio resource layer of RadioRes at work: the two queues by which   *)
(* its neighbours reach it, the timers, and what layer 1, the network and  *)
(* mobility management may do.                                             *)
(*                                                                         *)
(* The phone is one thread.  A round of its loop (osmo_select_main with    *)
(* the work function of mobile) runs the timers that are due, then one     *)
(* message of layer 1 or one request from above, and then empties the      *)
(* queues: first what the link layer indicates, then what RR indicates to  *)
(* MM, as often as there is anything.  So an event finds the queues as the *)
(* timers of its round left them.                                          *)
(*                                                                         *)
(* The network is free: it assigns, refuses, modifies and releases         *)
(* channels as it likes, and answers or not.  Nothing is fair here; the    *)
(* properties are of states: a state that waits has what ends the wait.    *)
(***************************************************************************)
EXTENDS RadioRes

VARIABLES
  ms,     \* the phone
  round   \* the part of the round: timers until one event, then the queues

vars == <<ms, round>>

Init == round = "timers" /\ ms = InitRr

Rest(s) == IF s.rsl = <<>> /\ s.up = <<>> THEN "timers" ELSE "drain"

(* A timer leaves what it queues to the end of the round, an event and the
   handling of a message are followed by the messages they queued. *)
Timer(s) == round = "timers" /\ ms' = s /\ UNCHANGED round
Event(s) == round = "timers" /\ ms' = s /\ round' = Rest(s)
Settle(s) == ms' = s /\ round' = Rest(s)

-----------------------------------------------------------------------------
(* Timers of RR *)
TimerExpires == \E t \in ms.timers : Timer(Expired(Stop(ms, t), t))

(* The last T200 of the link.  A link with a message queued while timers run has
   been suspended or has reported its error: T200 does not run then. *)
T200 ==
  CASE ms.l2 = "sabm" -> Timer(Rsl(Rsl([ms EXCEPT !.l2 = "idle"], "REL_IND"), "ERROR_IND"))
    [] ms.l2 = "disc" -> Timer(Rsl(Rsl([ms EXCEPT !.l2 = "idle"], "REL_CONF"), "ERROR_IND"))
    [] ms.l2 = "mf" -> ms.rsl = <<>> /\ Timer(Rsl(ms, "ERROR_IND"))
    [] OTHER -> FALSE

-----------------------------------------------------------------------------
(* Mobility management asks for a channel, for a call in emergency or not, of a
   cell that may be barred; it aborts what it asked for or was given. *)
MmAsks ==
  /\ ms.mm = "idle"
  /\ \E emergency, barred \in BOOLEAN : Event(EstReq([ms EXCEPT !.mm = "wait"], emergency, barred))
MmAborts == ms.mm # "idle" /\ Event(AbortReq([ms EXCEPT !.mm = "idle"]))

-----------------------------------------------------------------------------
(* Cell selection camps on a cell: it has synchronised to it, which resets layer
   1, and read it. *)
Camp ==
  /\ ms.cell = "away"
  /\ Event([ms EXCEPT !.cell = "camped", !.sync = "none", !.nbr = FALSE, !.ccch = "data",
                      !.dm = FALSE, !.rach = FALSE])

(* From there it reads neighbours and returns: an answer may be pending, of the
   neighbour or of the own cell. *)
Neighbour ==
  /\ ms.cell = "camped"
  /\ \E n \in BOOLEAN, y \in {"none", "own", "nb"} :
       /\ (y = "nb" => n) /\ (y = "own" => ~n)
       /\ Event([ms EXCEPT !.nbr = n, !.sync = y])

(* An answer for another cell than the serving one makes gsm322_l1_signal ask
   again, with the neighbour it is reading (cs->neighbour is not reset).  The
   last failure, and a link or a CCCH that fades, is a loss of the signal. *)
FbsbResp ==
  /\ ms.cell = "conn" /\ ms.sync # "none"
  /\ Event(IF ms.sync = "nb" THEN [ms EXCEPT !.sync = "own"]
           ELSE [ms EXCEPT !.sync = "none", !.ccch = "sync"])
FbsbErr ==
  /\ ms.cell = "conn" /\ ms.sync # "none"
  /\ Event(IF ms.sync = "nb" THEN [ms EXCEPT !.sync = "own"] ELSE Los([ms EXCEPT !.sync = "none"]))
LossInd ==
  /\ ms.cell = "conn"
  /\ ms.dm \/ (ms.sync = "none" /\ ms.ccch # "init")
  /\ Event(Los(ms))

-----------------------------------------------------------------------------
(* Layer 1: a block of the BCCH or of the CCCH, the confirmation of a burst, and
   a frame on the dedicated channel with what the link layer makes of it. *)
CchData ==
  /\ ~ms.dm /\ ms.sync = "none" /\ ms.cell \in {"camped", "conn"} /\ ms.ccch # "init"
  /\ \E m \in CchMsgs : Event(Rsl(ms, m))
RachConf == ms.rach /\ Event(Rsl([ms EXCEPT !.rach = FALSE], "CHAN_CONF"))
L2Frame ==
  /\ ms.dm
  /\ CASE ms.l2 = "sabm" -> \/ Event(Rsl([ms EXCEPT !.l2 = "mf"], "EST_CONF"))
                            \/ Event(Rsl([ms EXCEPT !.l2 = "idle"], "REL_IND"))
       [] ms.l2 = "disc" -> Event(Rsl([ms EXCEPT !.l2 = "idle"], "REL_CONF"))
       [] ms.l2 = "mf" -> \/ Event(Rsl([ms EXCEPT !.l2 = "idle"], "REL_IND"))
                          \/ \E m \in {"ERROR_IND", "CHAN_REL", "MODIFY"} : Event(Rsl(ms, m))
       [] OTHER -> FALSE

-----------------------------------------------------------------------------
(* The queues.  ra is the reference of the next burst, i names the burst a
   message answers, usable and b what it says besides. *)
RslDequeue ==
  /\ ms.rsl # <<>>
  /\ \E ra \in RA, i \in 1..3, usable, b \in BOOLEAN :
       Settle(FromL2([ms EXCEPT !.rsl = Tail(@)], Head(ms.rsl), ra, i, usable, b))
RrDequeue ==
  /\ ms.rsl = <<>> /\ ms.up # <<>>
  /\ Settle(FromRr([ms EXCEPT !.up = Tail(@)], Head(ms.up)))

Next ==
  \/ TimerExpires \/ T200 \/ MmAsks \/ MmAborts \/ Camp \/ Neighbour
  \/ FbsbResp \/ FbsbErr \/ LossInd \/ CchData \/ RachConf \/ L2Frame
  \/ RslDequeue \/ RrDequeue

Spec == Init /\ [][Next]_vars

-----------------------------------------------------------------------------
Queued(msgs) == \E i \in DOMAIN ms.rsl : ms.rsl[i] \in msgs

ReleaseEnds ==
  ms.st = "REL_PEND" =>
    \/ ms.timers \cap {"T3110", "rel_wait"} # {}
    \/ ms.l2 = "disc"
    \/ Queued({"REL_CONF"})

AccessEnds ==
  ms.st = "CONN_PEND" /\ ms.usable /\ ~(ms.dm /\ ms.l2 = "mf") =>
    \/ ms.sync # "none"                         \* layer 1 answers
    \/ ms.wait = 0 /\ ms.ccch = "sync"          \* a first message comes, or a loss
    \/ ms.rach
    \/ Queued({"CHAN_CONF", "EST_CONF", "REL_IND", "REL_CONF"})
    \/ "T3126" \in ms.timers
    \/ ms.mod = "IMM_ASS" /\ "starting" \in ms.timers
    \/ ms.l2 \in {"sabm", "disc"}

(* The phone refuses every other use while it accesses or leaves a channel, so
   both should end whatever the network does.  A release always does: at any moment
   layer 2 owes an answer, or a timer runs, although t_rel_wait and the starting time
   outlive the state they were started in (gsm48_rr_los, gsm48_rr_abort_req); and so
   does an access, but for two kinds that are excepted, in which the code waits until
   the signal is lost: one assigned a channel the phone cannot use, where
   gsm48_rr_dl_est returns after it stopped T3126, and one that finds the link of an
   earlier access still up. *)
ChannelEnds == ReleaseEnds /\ AccessEnds

(* A modification of the channel ends: it waits for its starting time, for an
   answer of the peer, or has an indication of the link to handle, across its
   suspension, its resumption on the new channel, the failure of that, the return
   to the old channel, and any release, loss or further command in between.
   Messages of the upper layers are held back until then. *)
ModifyEnds ==
  ms.st = "DEDICATED" /\ ms.mod \in {"MODIFY", "RESUME"} =>
    \/ "starting" \in ms.timers
    \/ ms.l2 \in {"sabm", "disc"}
    \/ Queued({"SUSP_CONF", "EST_CONF", "REL_IND", "REL_CONF", "ERROR_IND"})
=============================================================================
