---------------------------- MODULE RadioProofs -----------------------------
(***************************************************************************)
(* What MCRadio checks of Radio on a small instance holds for all          *)
(* references and any number of channel requests: an access to a channel,  *)
(* every release and every modification of one has what ends it (but for   *)
(* two kinds of access, see AccessEnds).                                   *)
(*                                                                         *)
(* The invariant is stated for the phone s and the message m that has been *)
(* taken from the queue and is about to be handled ("none" between the     *)
(* steps): what a state waits for may be the message in hand, and the      *)
(* lemma of each operation says that the operation handles it.  To be      *)
(* inductive it needs, besides the two properties: that a link that is     *)
(* down has announced it to a phone in dedicated mode (Links), that a      *)
(* confirmation of the establishment that is queued when the link is down  *)
(* is followed by the release (Ordered), that a modification happens in    *)
(* dedicated mode only, and that cell selection stays away while a channel *)
(* is requested (Base).                                                    *)
(***************************************************************************)
EXTENDS Radio, SequenceTheorems, TLAPS

(* The messages of the link layer, those for mobility management, and the values
   the fields of the phone may have. *)
Msgs == CchMsgs \cup {"CHAN_CONF", "EST_CONF", "REL_IND", "REL_CONF", "SUSP_CONF",
                      "ERROR_IND", "CHAN_REL", "MODIFY"}
UpMsgs == {"EST_CNF", "EST_IND", "REL_IND", "ABORT_IND"}
Refs == RA \cup {NoRa}

Timers == {"T3110", "T3122", "T3126", "starting", "rel_wait"}
States == {"IDLE", "CONN_PEND", "DEDICATED", "REL_PEND"}

Phone ==
  [st : States,
   mod : {"NONE", "IMM_ASS", "MODIFY", "RESUME"}, wait : {0, 1, 2}, req : Nat,
   ra : Refs, hist : Seq(Refs), estReq : BOOLEAN, usable : BOOLEAN,
   timers : SUBSET Timers,
   dm : BOOLEAN, rach : BOOLEAN, cell : {"away", "camped", "conn"},
   sync : {"none", "own", "nb"}, nbr : BOOLEAN, ccch : {"init", "sync", "data"},
   l2 : {"idle", "sabm", "mf", "disc"}, rsl : Seq(Msgs), up : Seq(UpMsgs),
   mm : {"idle", "wait", "conn"}]

(* A message is queued; after a confirmation of the establishment a release is. *)
Has(q, m) == \E i \in DOMAIN q : q[i] = m
HasRel(q) == Has(q, "REL_IND") \/ Has(q, "REL_CONF")
Ordered(q) ==
  \A i \in DOMAIN q : q[i] = "EST_CONF" =>
    \E j \in DOMAIN q : i < j /\ q[j] \in {"REL_IND", "REL_CONF"}

(* Two states that agree in all the invariant speaks of, but for state,
   modification and timers. *)
Alike(t, s) ==
  /\ t.wait = s.wait /\ t.usable = s.usable /\ t.dm = s.dm /\ t.rach = s.rach
  /\ t.cell = s.cell /\ t.sync = s.sync /\ t.ccch = s.ccch /\ t.l2 = s.l2
Same(t, s) == Alike(t, s) /\ t.rsl = s.rsl

(* The invariant, part by part: Base does not speak of the message in hand. *)
Base(s) ==
  /\ s \in Phone
  /\ s.mod \in {"MODIFY", "RESUME"} => s.st = "DEDICATED"
  /\ s.st = "CONN_PEND" => s.cell = "conn"
  /\ s.l2 = "idle" => Ordered(s.rsl)
Links(s, m) ==
  s.l2 = "idle" =>
    /\ m = "EST_CONF" => HasRel(s.rsl)
    /\ s.st = "DEDICATED" => HasRel(s.rsl) \/ m \in {"REL_IND", "REL_CONF"}
Modifies(s, m) ==
  /\ s.mod = "MODIFY" =>
       \/ "starting" \in s.timers \/ s.l2 \in {"sabm", "disc"} \/ HasRel(s.rsl)
       \/ Has(s.rsl, "SUSP_CONF") \/ Has(s.rsl, "EST_CONF") \/ Has(s.rsl, "ERROR_IND")
       \/ m \in {"REL_IND", "REL_CONF", "SUSP_CONF", "EST_CONF", "ERROR_IND"}
  /\ s.mod = "RESUME" =>
       \/ s.l2 \in {"sabm", "disc"} \/ HasRel(s.rsl)
       \/ Has(s.rsl, "EST_CONF") \/ Has(s.rsl, "ERROR_IND")
       \/ m \in {"REL_IND", "REL_CONF", "EST_CONF", "ERROR_IND"}
Releases(s, m) ==
  s.st = "REL_PEND" =>
    \/ "T3110" \in s.timers \/ "rel_wait" \in s.timers \/ s.l2 = "disc"
    \/ Has(s.rsl, "REL_CONF") \/ m = "REL_CONF"
Accesses(s, m) ==
  s.st = "CONN_PEND" /\ s.usable /\ ~(s.dm /\ s.l2 = "mf") =>
    \/ s.wait = 0 /\ (s.sync # "none" \/ s.ccch = "sync")
    \/ s.wait # 2 /\ (s.rach \/ Has(s.rsl, "CHAN_CONF") \/ m = "CHAN_CONF")
    \/ "T3126" \in s.timers
    \/ s.mod = "IMM_ASS" /\ "starting" \in s.timers
    \/ s.l2 \in {"sabm", "disc"} \/ HasRel(s.rsl) \/ Has(s.rsl, "EST_CONF")
    \/ m \in {"EST_CONF", "REL_IND", "REL_CONF"}

LinkInv(s, m) == Base(s) /\ Links(s, m) /\ Modifies(s, m) /\ Releases(s, m)
Inv(s, m) == LinkInv(s, m) /\ Accesses(s, m)

-----------------------------------------------------------------------------
(* Appending a message keeps those queued; at the end a release is in order
   after everything. *)
LEMMA Appended ==
  ASSUME NEW q \in Seq(Msgs), NEW m \in Msgs
  PROVE  /\ Append(q, m) \in Seq(Msgs)
         /\ \A n : Has(Append(q, m), n) <=> Has(q, n) \/ m = n
         /\ m \in {"REL_IND", "REL_CONF"} => Ordered(Append(q, m))
         /\ m # "EST_CONF" /\ Ordered(q) => Ordered(Append(q, m))
  <1> DEFINE r == Append(q, m)
  <1>1. /\ r \in Seq(Msgs) /\ Len(r) = Len(q) + 1 /\ r[Len(q) + 1] = m
        /\ \A i \in 1..Len(q) : r[i] = q[i]
    BY AppendProperties
  <1>2. Len(q) \in Nat /\ DOMAIN q = 1..Len(q) /\ DOMAIN r = 1..(Len(q) + 1)
    BY <1>1, LenProperties
  <1> HIDE DEF r
  <1>3. \A n : Has(r, n) <=> Has(q, n) \/ m = n
    BY <1>1, <1>2 DEF Has
  <1>4. m \in {"REL_IND", "REL_CONF"} => Ordered(r)
    BY <1>1, <1>2 DEF Ordered
  <1>5. m # "EST_CONF" /\ Ordered(q) => Ordered(r)
    BY <1>1, <1>2 DEF Ordered
  <1> QED BY <1>1, <1>3, <1>4, <1>5 DEF r

(* Taking the first message leaves the others in their order. *)
LEMMA Popped ==
  ASSUME NEW q \in Seq(Msgs), q # <<>>
  PROVE  /\ Tail(q) \in Seq(Msgs) /\ Head(q) \in Msgs
         /\ \A n : Has(q, n) <=> Has(Tail(q), n) \/ Head(q) = n
         /\ Ordered(q) => Ordered(Tail(q)) /\ (Head(q) = "EST_CONF" => HasRel(Tail(q)))
  <1> DEFINE r == Tail(q)
  <1>1. /\ Head(q) \in Msgs /\ r \in Seq(Msgs) /\ Len(r) = Len(q) - 1
        /\ \A i \in 1..Len(r) : r[i] = q[i + 1]
    BY HeadTailProperties
  <1>2. Len(q) \in Nat \ {0} /\ DOMAIN q = 1..Len(q) /\ DOMAIN r = 1..(Len(q) - 1)
    BY <1>1, LenProperties, EmptySeq
  <1>3. Head(q) = q[1]
    OBVIOUS
  <1> HIDE DEF r
  <1>0. ASSUME NEW i \in DOMAIN q, i # 1 PROVE i - 1 \in DOMAIN r /\ r[i - 1] = q[i]
    <2>1. i \in Nat /\ i - 1 \in 1..Len(r)
      BY <1>1, <1>2, <1>0
    <2>2. r[i - 1] = q[(i - 1) + 1] /\ (i - 1) + 1 = i
      BY <1>1, <2>1
    <2> QED BY <1>1, <1>2, <2>1, <2>2
  <1>4. \A n : Has(q, n) <=> Has(r, n) \/ Head(q) = n
    <2> SUFFICES ASSUME NEW n PROVE Has(q, n) <=> Has(r, n) \/ Head(q) = n
      OBVIOUS
    <2>2. ASSUME NEW i \in DOMAIN r PROVE i + 1 \in DOMAIN q /\ r[i] = q[i + 1]
      BY <1>1, <1>2
    <2> QED BY <1>2, <1>3, <1>0, <2>2 DEF Has
  <1>5. Ordered(q) => Ordered(r) /\ (Head(q) = "EST_CONF" => HasRel(r))
    <2> SUFFICES ASSUME Ordered(q) PROVE Ordered(r) /\ (Head(q) = "EST_CONF" => HasRel(r))
      OBVIOUS
    <2>2. Ordered(r)
      <3> SUFFICES ASSUME NEW i \in DOMAIN r, r[i] = "EST_CONF"
                   PROVE  \E j \in DOMAIN r : i < j /\ r[j] \in {"REL_IND", "REL_CONF"}
        BY DEF Ordered
      <3>1. i + 1 \in DOMAIN q /\ q[i + 1] = "EST_CONF"
        BY <1>1, <1>2
      <3>2. PICK j \in DOMAIN q : i + 1 < j /\ q[j] \in {"REL_IND", "REL_CONF"}
        BY <3>1 DEF Ordered
      <3>3. j # 1 /\ i < j - 1
        BY <1>1, <1>2, <3>2
      <3> QED BY <1>0, <3>2, <3>3
    <2>3. ASSUME Head(q) = "EST_CONF" PROVE HasRel(r)
      <3>1. 1 \in DOMAIN q /\ q[1] = "EST_CONF"
        BY <1>2, <1>3, <2>3
      <3>2. PICK j \in DOMAIN q : 1 < j /\ q[j] \in {"REL_IND", "REL_CONF"}
        BY <3>1 DEF Ordered
      <3>3. j - 1 \in DOMAIN r /\ r[j - 1] = q[j]
        BY <1>0, <1>2, <3>2
      <3> QED BY <3>2, <3>3 DEF HasRel, Has
    <2> QED BY <2>2, <2>3
  <1> QED BY <1>1, <1>4, <1>5 DEF r

-----------------------------------------------------------------------------
(* What the small operators of RadioRes change, and that they change no more. *)
LEMMA UpFacts ==
  ASSUME NEW s \in Phone, NEW m \in UpMsgs
  PROVE  /\ Up(s, m) \in Phone /\ Same(Up(s, m), s)
         /\ Up(s, m).st = s.st /\ Up(s, m).mod = s.mod /\ Up(s, m).timers = s.timers
  <1>1. Append(s.up, m) \in Seq(UpMsgs)
    BY AppendProperties DEF Phone
  <1> QED BY <1>1 DEF Phone, Up, Same, Alike

LEMMA RslFacts ==
  ASSUME NEW s \in Phone, NEW m \in Msgs
  PROVE  LET t == Rsl(s, m) IN
         /\ t \in Phone /\ Alike(t, s)
         /\ t.st = s.st /\ t.mod = s.mod /\ t.timers = s.timers
         /\ \A n : Has(t.rsl, n) <=> Has(s.rsl, n) \/ m = n
         /\ m \in {"REL_IND", "REL_CONF"} => Ordered(t.rsl)
         /\ m # "EST_CONF" /\ Ordered(s.rsl) => Ordered(t.rsl)
  <1> DEFINE q == Append(s.rsl, m)
  <1>1. /\ q \in Seq(Msgs)
        /\ \A n : Has(q, n) <=> Has(s.rsl, n) \/ m = n
        /\ m \in {"REL_IND", "REL_CONF"} => Ordered(q)
        /\ m # "EST_CONF" /\ Ordered(s.rsl) => Ordered(q)
    BY Appended DEF Phone
  <1>2. Rsl(s, m) = [s EXCEPT !.rsl = q]
    BY DEF Rsl
  <1> HIDE DEF q
  <1>3. Rsl(s, m) \in Phone /\ Rsl(s, m).rsl = q /\ Alike(Rsl(s, m), s)
        /\ Rsl(s, m).st = s.st /\ Rsl(s, m).mod = s.mod /\ Rsl(s, m).timers = s.timers
    <2> DEFINE t == Rsl(s, m)
    <2>1. s \in Phone /\ q \in Seq(Msgs) /\ t = [s EXCEPT !.rsl = q]
      BY <1>1, <1>2
    <2> HIDE DEF t
    <2>2. t \in Phone
      BY <2>1 DEF Phone
    <2>3. t.rsl = q /\ Alike(t, s)
      BY <2>1 DEF Phone, Alike
    <2>4. t.st = s.st /\ t.mod = s.mod /\ t.timers = s.timers
      BY <2>1 DEF Phone
    <2> QED BY <2>2, <2>3, <2>4 DEF t
  <1> QED BY <1>1, <1>3

LEMMA StopFacts ==
  ASSUME NEW s \in Phone, NEW timer
  PROVE  /\ Stop(s, timer) \in Phone /\ Same(Stop(s, timer), s)
         /\ Stop(s, timer).st = s.st /\ Stop(s, timer).mod = s.mod
         /\ Stop(s, timer).timers = s.timers \ {timer}
  BY DEF Phone, Stop, Same, Alike

LEMMA StartFacts ==
  ASSUME NEW s \in Phone, NEW timer \in Timers
  PROVE  /\ Start(s, timer) \in Phone /\ Same(Start(s, timer), s)
         /\ Start(s, timer).st = s.st /\ Start(s, timer).mod = s.mod
         /\ Start(s, timer).timers = s.timers \cup {timer}
  BY DEF Phone, Start, Same, Alike

LEMMA ModFacts ==
  ASSUME NEW s \in Phone, NEW mod \in {"NONE", "IMM_ASS", "MODIFY", "RESUME"}
  PROVE  LET t == [s EXCEPT !.mod = mod] IN
         t \in Phone /\ Same(t, s) /\ t.st = s.st /\ t.mod = mod /\ t.timers = s.timers
  BY DEF Phone, Same, Alike

LEMMA NewStateFacts ==
  ASSUME NEW s \in Phone, NEW st \in States
  PROVE  /\ NewState(s, st) \in Phone /\ Same(NewState(s, st), s)
         /\ NewState(s, st).st = st
         /\ NewState(s, st).timers \in {s.timers, s.timers \ {"starting"}}
         /\ s.st # "DEDICATED" => NewState(s, st).mod = s.mod /\ NewState(s, st).timers = s.timers
         /\ s.st = "DEDICATED" /\ st # "DEDICATED" => NewState(s, st).mod = "NONE"
  <1>1. CASE s.st = "DEDICATED" /\ st # "DEDICATED"
    BY <1>1 DEF Phone, NewState, Stop, Same, Alike
  <1>2. CASE ~(s.st = "DEDICATED" /\ st # "DEDICATED")
    BY <1>2 DEF Phone, NewState, Same, Alike
  <1> QED BY <1>1, <1>2

(* Operations after which the invariant holds whatever of it held before, but for
   its base: they leave the state that waits, or start what ends it.  The link is
   released at once, the phone goes idle, the link is released with the peer, and
   the release is confirmed. *)
LEMMA RelLocalInv ==
  ASSUME NEW s, Base(s)
  PROVE  Inv(RelLocal(s), "none")
  <1> DEFINE u == [s EXCEPT !.l2 = "idle"]
             t == Rsl(u, "REL_CONF")
  <1>1. u \in Phone /\ u.l2 = "idle" /\ u.st = s.st /\ u.mod = s.mod /\ u.cell = s.cell
    BY DEF Base, Phone
  <1>2. RelLocal(s) = t /\ "REL_CONF" \in Msgs
    BY DEF RelLocal, Msgs
  <1> HIDE DEF u
  <1>3. /\ t \in Phone /\ t.l2 = "idle" /\ t.st = s.st /\ t.mod = s.mod /\ t.cell = s.cell
        /\ Ordered(t.rsl) /\ Has(t.rsl, "REL_CONF")
    BY <1>1, <1>2, RslFacts DEF Alike
  <1> HIDE DEF t
  <1>4. Inv(t, "none")
    BY <1>3 DEF Base, Inv, LinkInv, Links, Modifies, Releases, Accesses, HasRel
  <1> QED BY <1>2, <1>4

LEMMA ToIdleInv ==
  ASSUME NEW s, Base(s)
  PROVE  Inv(ToIdle(s), "none")
  <1> DEFINE t == ToIdle(s)
  <1>1. /\ t \in Phone /\ t.st = "IDLE" /\ t.mod \notin {"MODIFY", "RESUME"}
        /\ t.l2 = s.l2 /\ t.rsl = s.rsl
    <2>1. CASE s.st = "IDLE"
      BY <2>1 DEF Base, ToIdle
    <2>2. CASE s.st # "IDLE"
      <3> DEFINE u == NewState(s, "IDLE")
      <3>1. u \in Phone /\ u.st = "IDLE" /\ u.mod \notin {"MODIFY", "RESUME"} /\ Same(u, s)
        BY <2>2, NewStateFacts DEF Base, States
      <3>2. t = [u EXCEPT !.dm = FALSE, !.rach = FALSE, !.estReq = FALSE, !.usable = TRUE,
                          !.cell = IF u.cell = "conn" THEN "away" ELSE u.cell]
        BY <2>2 DEF ToIdle
      <3> HIDE DEF u, t
      <3>3. s.l2 = u.l2 /\ s.rsl = u.rsl
        BY <3>1 DEF Same, Alike
      <3>4. t \in Phone
        <4> DEFINE c == IF u.cell = "conn" THEN "away" ELSE u.cell
        <4>1. c \in {"away", "camped", "conn"}
          BY <3>1 DEF Phone
        <4>2. t = [u EXCEPT !.dm = FALSE, !.rach = FALSE, !.estReq = FALSE, !.usable = TRUE, !.cell = c]
          BY <3>2
        <4> HIDE DEF c
        <4> QED BY <3>1, <4>1, <4>2 DEF Phone
      <3>5. t.st = u.st /\ t.mod = u.mod /\ t.l2 = u.l2 /\ t.rsl = u.rsl
        BY <3>1, <3>2 DEF Phone
      <3> QED BY <3>1, <3>3, <3>4, <3>5
    <2> QED BY <2>1, <2>2
  <1> HIDE DEF t
  <1>2. Inv(t, "none")
    BY <1>1 DEF Base, Inv, LinkInv, Links, Modifies, Releases, Accesses
  <1> QED BY <1>2 DEF t

LEMMA RelNormalInv ==
  ASSUME NEW s, Base(s), s.st = "REL_PEND"
  PROVE  Inv(RelNormal(s), "none")
  <1>1. CASE s.l2 = "idle"
    <2>1. RelNormal(s) = RelLocal(s)
      BY <1>1 DEF RelNormal, RelLocal, Base, Phone, Rsl
    <2> QED BY <2>1, RelLocalInv
  <1>2. CASE s.l2 # "idle"
    <2> DEFINE t == RelNormal(s)
    <2>1. /\ t \in Phone /\ t.l2 = "disc" /\ t.st = "REL_PEND" /\ t.mod = s.mod
      BY <1>2 DEF RelNormal, Base, Phone
    <2> HIDE DEF t
    <2>2. Inv(t, "none")
      BY <2>1 DEF Base, Inv, LinkInv, Links, Modifies, Releases, Accesses
    <2> QED BY <2>2 DEF t
  <1> QED BY <1>1, <1>2

LEMMA RelConfInv ==
  ASSUME NEW s, Base(s)
  PROVE  Inv(RelConf(s), "none")
  <1> USE DEF Inv, LinkInv
  <1>1. CASE s.mod = "MODIFY"
    <2> DEFINE t == Recon(Activate([s EXCEPT !.mod = "RESUME"]))
    <2>1. RelConf(s) = t
      BY <1>1 DEF RelConf
    <2>2. t \in Phone /\ t.st = s.st /\ t.mod = "RESUME" /\ t.l2 \in {"sabm", "disc"}
      BY <1>1, ZenonT(60) DEF Base, Phone, Activate, Recon
    <2> HIDE DEF t
    <2>3. Inv(t, "none")
      BY <1>1, <2>2 DEF Base, Links, Modifies, Releases, Accesses
    <2> QED BY <2>1, <2>3
  <1>2. CASE s.mod # "MODIFY"
    <2> DEFINE t == Up(Stop(IF s.mod = "RESUME" THEN [s EXCEPT !.mod = "NONE"] ELSE s, "T3110"), "REL_IND")
    <2>1. RelConf(s) = ToIdle(t)
      BY <1>2 DEF RelConf
    <2>2. Base(t)
      <3> DEFINE u == IF s.mod = "RESUME" THEN [s EXCEPT !.mod = "NONE"] ELSE s
                 v == Stop(u, "T3110")
      <3>1. u \in Phone /\ Same(u, s) /\ u.st = s.st /\ u.mod \notin {"MODIFY", "RESUME"}
        BY <1>2, ModFacts DEF Base, Same, Alike
      <3> HIDE DEF u
      <3>2. v \in Phone /\ Same(v, u) /\ v.st = u.st /\ v.mod = u.mod
        BY <3>1, StopFacts
      <3> HIDE DEF v
      <3>3. Up(v, "REL_IND") \in Phone /\ Same(Up(v, "REL_IND"), v)
            /\ Up(v, "REL_IND").st = v.st /\ Up(v, "REL_IND").mod = v.mod
        BY <3>2, UpFacts DEF UpMsgs
      <3> QED BY <3>1, <3>2, <3>3 DEF Base, Same, Alike, u, v
    <2> QED BY <2>1, <2>2, ToIdleInv
  <1> QED BY <1>1, <1>2

-----------------------------------------------------------------------------
(* Of two phones that agree in what the invariant speaks of it holds of both. *)
LEMMA LinkInvSame ==
  ASSUME NEW s, NEW t, NEW m, LinkInv(s, m), t \in Phone,
         t.st = s.st, t.mod = s.mod, t.cell = s.cell, t.l2 = s.l2, t.rsl = s.rsl,
         s.timers \ {"T3122", "T3126"} \subseteq t.timers
  PROVE  LinkInv(t, m)
  BY DEF LinkInv, Base, Links, Modifies, Releases

LEMMA InvSame ==
  ASSUME NEW s, NEW t, NEW m, Inv(s, m), t \in Phone, Same(t, s),
         t.st = s.st, t.mod = s.mod, s.timers \ {"T3122"} \subseteq t.timers
  PROVE  Inv(t, m)
  BY DEF Inv, LinkInv, Base, Links, Modifies, Releases, Accesses, Same, Alike

(* Operations of the access: each starts a timer, a burst, or the link. *)
LEMMA DlEstInv ==
  ASSUME NEW s, LinkInv(s, "none"), s.mod \notin {"MODIFY", "RESUME"}, NEW later \in BOOLEAN
  PROVE  Inv(DlEst(s, later), "none")
  <1> DEFINE t == Stop(s, "T3126")
  <1>1. /\ t \in Phone /\ Same(t, s) /\ t.st = s.st /\ t.mod = s.mod
        /\ t.timers = s.timers \ {"T3126"}
    BY StopFacts DEF LinkInv, Base
  <1>2. LinkInv(t, "none")
    BY <1>1, LinkInvSame DEF Same, Alike
  <1> HIDE DEF t
  <1>3. CASE later
    <2> DEFINE u == [t EXCEPT !.mod = "IMM_ASS"]
               v == Start(u, "starting")
    <2>1. u \in Phone /\ Same(u, t) /\ u.st = t.st /\ u.mod = "IMM_ASS" /\ u.timers = t.timers
      BY <1>1, ModFacts
    <2>2. DlEst(s, later) = v
      BY <1>3 DEF DlEst, t
    <2> HIDE DEF u
    <2>3. /\ v \in Phone /\ Same(v, u) /\ v.st = u.st /\ v.mod = u.mod
          /\ v.timers = u.timers \cup {"starting"}
      BY <2>1, StartFacts DEF Timers
    <2> HIDE DEF v
    <2>4. Inv(v, "none")
      BY <1>2, <2>1, <2>3
         DEF Inv, LinkInv, Base, Links, Modifies, Releases, Accesses, Same, Alike
    <2> QED BY <2>2, <2>4
  <1>4. CASE ~later /\ ~t.usable
    <2>1. DlEst(s, later) = t
      BY <1>4 DEF DlEst, t
    <2> QED BY <1>2, <1>4, <2>1 DEF Inv, Accesses
  <1>5. CASE ~later /\ t.usable
    <2> DEFINE v == Est(Activate(t))
    <2>1. DlEst(s, later) = v
      BY <1>5 DEF DlEst, t
    <2>2. /\ v \in Phone /\ v.st = t.st /\ v.mod = t.mod /\ v.timers = t.timers
          /\ v.cell = t.cell /\ v.rsl = t.rsl /\ v.dm
          /\ v.l2 = IF t.l2 = "idle" THEN "sabm" ELSE t.l2
      <3> DEFINE y == Activate(t)
      <3>1. /\ y \in Phone /\ y.st = t.st /\ y.mod = t.mod /\ y.timers = t.timers
            /\ y.cell = t.cell /\ y.rsl = t.rsl /\ y.dm /\ y.l2 = t.l2
        BY <1>1 DEF Phone, Activate
      <3>4. v = Est(y)
        OBVIOUS
      <3> HIDE DEF y, v
      <3>2. CASE y.l2 = "idle"
        <4>1. v = [y EXCEPT !.l2 = "sabm"]
          BY <3>2, <3>4 DEF Est
        <4> HIDE DEF y, v
        <4>2. v \in Phone
          BY <3>1, <4>1 DEF Phone
        <4>3. /\ v.st = y.st /\ v.mod = y.mod /\ v.timers = y.timers /\ v.cell = y.cell
              /\ v.rsl = y.rsl /\ v.dm = y.dm /\ v.l2 = "sabm"
          BY <3>1, <4>1 DEF Phone
        <4> QED BY <3>1, <3>2, <4>2, <4>3
      <3>3. CASE y.l2 # "idle"
        BY <3>1, <3>3, <3>4 DEF Est
      <3> QED BY <3>2, <3>3
    <2> HIDE DEF v
    <2>3. LinkInv(v, "none")
      BY <1>1, <1>2, <2>2 DEF LinkInv, Base, Links, Modifies, Releases
    <2>4. Accesses(v, "none")
      BY <2>2 DEF Accesses, Phone
    <2> QED BY <2>1, <2>3, <2>4 DEF Inv
  <1> QED BY <1>3, <1>4, <1>5 DEF Base

LEMMA RandAccInv ==
  ASSUME NEW s, LinkInv(s, "none"), NEW ra \in RA
  PROVE  Inv(RandAcc(s, ra), "none")
  <1>3. CASE s.ccch # "data"
    <2> DEFINE t == IF s.estReq THEN Up(s, "REL_IND") ELSE s
    <2>1. RandAcc(s, ra) = ToIdle(t)
      BY <1>3 DEF RandAcc
    <2>2. Base(s) /\ s \in Phone
      BY DEF LinkInv, Base
    <2>3. Base(t)
      <3>1. CASE s.estReq
        BY <2>2, <3>1, UpFacts DEF UpMsgs, Base, Same, Alike
      <3>2. CASE ~s.estReq
        BY <2>2, <3>2
      <3> QED BY <3>1, <3>2
    <2> HIDE DEF t
    <2> QED BY <2>1, <2>3, ToIdleInv
  <1>1. CASE s.ccch = "data" /\ s.req = 0
    <2> DEFINE t == Start(s, "T3126")
    <2>1. RandAcc(s, ra) = t
      BY <1>1 DEF RandAcc
    <2>2. /\ t \in Phone /\ Same(t, s) /\ t.st = s.st /\ t.mod = s.mod
          /\ t.timers = s.timers \cup {"T3126"}
      BY StartFacts DEF LinkInv, Base, Timers
    <2> HIDE DEF t
    <2>3. LinkInv(t, "none")
      BY <2>2, LinkInvSame DEF Same, Alike
    <2> QED BY <2>1, <2>2, <2>3 DEF Inv, Accesses
  <1>2. CASE s.ccch = "data" /\ s.req # 0
    <2> DEFINE t == [s EXCEPT !.req = @ - 1, !.wait = 1, !.ra = ra, !.rach = TRUE]
    <2>1. RandAcc(s, ra) = t
      BY <1>2 DEF RandAcc
    <2>0. s.req - 1 \in Nat /\ ra \in Refs
      BY <1>2 DEF LinkInv, Base, Phone, Refs
    <2>2. /\ t \in Phone /\ t.st = s.st /\ t.mod = s.mod /\ t.cell = s.cell /\ t.l2 = s.l2
          /\ t.rsl = s.rsl /\ t.timers = s.timers /\ t.wait = 1 /\ t.rach
      BY <2>0 DEF LinkInv, Base, Phone
    <2> HIDE DEF t
    <2>3. LinkInv(t, "none")
      BY <2>2, LinkInvSame
    <2> QED BY <2>1, <2>2, <2>3 DEF Inv, Accesses
  <1> QED BY <1>1, <1>2, <1>3

LEMMA ChanReqInv ==
  ASSUME NEW s, Base(s), s.st = "IDLE"
  PROVE  Inv(ChanReq(s), "none")
  <1> DEFINE t == LeaveIdle(s)
             u == NewState(t, "CONN_PEND")
             v == ChanReq(s)
  <1>1. /\ t \in Phone /\ t.st = "IDLE" /\ t.mod = s.mod /\ t.cell = "conn"
        /\ t.sync # "none" /\ t.l2 = s.l2 /\ t.rsl = s.rsl
    <2>1. s \in Phone /\ s.st = "IDLE"
      BY DEF Base
    <2>2. CASE s.sync = "none"
      BY <2>1, <2>2, ZenonT(60) DEF Phone, LeaveIdle
    <2>3. CASE s.sync # "none"
      BY <2>1, <2>3 DEF Phone, LeaveIdle
    <2> QED BY <2>2, <2>3
  <1> HIDE DEF t
  <1>2. u \in Phone /\ Same(u, t) /\ u.st = "CONN_PEND" /\ u.mod = t.mod
    BY <1>1, NewStateFacts DEF States
  <1>3. v = [u EXCEPT !.wait = 0, !.req = MaxReq, !.hist = <<>>]
    BY DEF ChanReq, t
  <1> HIDE DEF u, v
  <1>4. <<>> \in Seq(Refs) /\ MaxReq \in Nat
    BY EmptySeq, RadioAssumption
  <1>5. /\ v \in Phone /\ v.st = "CONN_PEND" /\ v.mod = u.mod /\ v.cell = u.cell
        /\ v.sync = u.sync /\ v.l2 = u.l2 /\ v.rsl = u.rsl /\ v.wait = 0
    BY <1>2, <1>3, <1>4 DEF Phone
  <1>6. Inv(v, "none")
    BY <1>1, <1>2, <1>5
       DEF Inv, LinkInv, Base, Links, Modifies, Releases, Accesses, Same, Alike
  <1> QED BY <1>6 DEF v

LEMMA EstReqInv ==
  ASSUME NEW s, Inv(s, "none"), NEW emergency \in BOOLEAN, NEW barred \in BOOLEAN
  PROVE  Inv(EstReq(s, emergency, barred), "none")
  <1> DEFINE t == IF emergency THEN Stop(s, "T3122") ELSE s
             u == [t EXCEPT !.estReq = TRUE]
  <1>1. /\ t \in Phone /\ Same(t, s) /\ t.st = s.st /\ t.mod = s.mod
        /\ s.timers \ {"T3122"} \subseteq t.timers
    BY StopFacts DEF Inv, LinkInv, Base, Same, Alike
  <1>2. Inv(t, "none")
    BY <1>1, InvSame
  <1>3. \/ EstReq(s, emergency, barred) = Up(t, "REL_IND")
        \/ t.st = "IDLE" /\ EstReq(s, emergency, barred) = ChanReq(u)
    BY DEF EstReq
  <1> HIDE DEF t
  <1>4. Inv(Up(t, "REL_IND"), "none")
    BY <1>1, <1>2, UpFacts, InvSame DEF UpMsgs
  <1>5. u \in Phone /\ Same(u, t) /\ u.st = t.st /\ u.mod = t.mod /\ u.timers = t.timers
    BY <1>1 DEF Phone, Same, Alike
  <1>6. Base(u) /\ u.st = t.st
    BY <1>2, <1>5, InvSame DEF Inv, LinkInv
  <1> HIDE DEF u
  <1> QED BY <1>3, <1>4, <1>6, ChanReqInv

LEMMA PageInv ==
  ASSUME NEW s, Inv(s, "none")
  PROVE  Inv(Page(s), "none")
  BY ChanReqInv DEF Page, Inv, LinkInv

LEMMA ChanConfInv ==
  ASSUME NEW s, Inv(s, "CHAN_CONF"), NEW ra \in RA
  PROVE  Inv(ChanConf(s, ra), "none")
  <1>1. LinkInv(s, "none")
    BY DEF Inv, LinkInv, Links, Modifies, Releases
  <1>2. CASE s.st # "CONN_PEND" \/ s.wait = 2
    BY <1>1, <1>2 DEF ChanConf, Inv, Accesses
  <1>3. CASE ~(s.st # "CONN_PEND" \/ s.wait = 2)
    <2> DEFINE h == SubSeq(<<s.ra>> \o s.hist, 1, IF Len(s.hist) < 3 THEN Len(s.hist) + 1 ELSE 3)
               t == [s EXCEPT !.hist = h]
    <2>1. h \in Seq(Refs)
      <3>1. s.hist \in Seq(Refs) /\ <<s.ra>> \in Seq(Refs) /\ Len(<<s.ra>>) = 1
        BY <1>1 DEF LinkInv, Base, Phone
      <3> DEFINE q == <<s.ra>> \o s.hist
                 n == IF Len(s.hist) < 3 THEN Len(s.hist) + 1 ELSE 3
      <3>2. q \in Seq(Refs) /\ Len(q) = 1 + Len(s.hist) /\ Len(s.hist) \in Nat
        BY <3>1, ConcatProperties, LenProperties
      <3> HIDE DEF q
      <3>3. n \in Int /\ 1 \in Int /\ n <= Len(q)
        BY <3>2
      <3>4. \A i \in 1..n : q[i] \in Refs
        BY <3>2, <3>3, ElementOfSeq
      <3> HIDE DEF n
      <3>5. SubSeq(q, 1, n) \in Seq(Refs)
        BY <3>3, <3>4, SubSeqProperties
      <3> QED BY <3>5 DEF q, n
    <2>2. ChanConf(s, ra) = RandAcc(t, ra)
      BY <1>3 DEF ChanConf, Confirmed
    <2> HIDE DEF h
    <2>3. t \in Phone /\ Same(t, s) /\ t.st = s.st /\ t.mod = s.mod /\ t.timers = s.timers
      BY <1>1, <2>1 DEF LinkInv, Base, Phone, Same, Alike
    <2> HIDE DEF t
    <2>4. LinkInv(t, "none")
      BY <1>1, <2>3, LinkInvSame DEF Same, Alike
    <2> QED BY <2>2, <2>4, RandAccInv
  <1> QED BY <1>2, <1>3

LEMMA ImmAssInv ==
  ASSUME NEW s, Inv(s, "none"), NEW i, NEW usable \in BOOLEAN, NEW later \in BOOLEAN
  PROVE  Inv(ImmAss(s, i, usable, later), "none")
  <1> DEFINE t == [s EXCEPT !.wait = 2, !.usable = usable]
  <1>1. \/ ImmAss(s, i, usable, later) = s
        \/ s.st = "CONN_PEND" /\ ImmAss(s, i, usable, later) = DlEst(t, later)
    BY DEF ImmAss
  <1>2. /\ t \in Phone /\ t.st = s.st /\ t.mod = s.mod /\ t.cell = s.cell /\ t.l2 = s.l2
        /\ t.rsl = s.rsl /\ t.timers = s.timers
    BY DEF Inv, LinkInv, Base, Phone
  <1> HIDE DEF t
  <1>3. LinkInv(t, "none")
    BY <1>2, LinkInvSame DEF Inv
  <1>4. s.st = "CONN_PEND" => t.mod \notin {"MODIFY", "RESUME"}
    BY <1>2 DEF Inv, LinkInv, Base
  <1> QED BY <1>1, <1>3, <1>4, DlEstInv

LEMMA ImmRejInv ==
  ASSUME NEW s, Inv(s, "none"), NEW i, NEW waitInd \in BOOLEAN
  PROVE  Inv(ImmRej(s, i, waitInd), "none")
  <1> DEFINE t == [s EXCEPT !.req = 0]
             u == IF waitInd THEN Start(t, "T3122") ELSE t
             v == Start(u, "T3126")
  <1>1. ImmRej(s, i, waitInd) = s \/ ImmRej(s, i, waitInd) = v
    BY DEF ImmRej
  <1>2. t \in Phone /\ Same(t, s) /\ t.st = s.st /\ t.mod = s.mod /\ t.timers = s.timers
    BY DEF Inv, LinkInv, Base, Phone, Same, Alike
  <1> HIDE DEF t
  <1>3. u \in Phone /\ Same(u, t) /\ u.st = t.st /\ u.mod = t.mod /\ t.timers \subseteq u.timers
    BY <1>2, StartFacts DEF Same, Alike, Timers
  <1> HIDE DEF u
  <1>4. v \in Phone /\ Same(v, u) /\ v.st = u.st /\ v.mod = u.mod /\ u.timers \subseteq v.timers
    BY <1>3, StartFacts DEF Timers
  <1> HIDE DEF v
  <1>5. Inv(v, "none")
    BY <1>2, <1>3, <1>4, InvSame
  <1> QED BY <1>1, <1>5

-----------------------------------------------------------------------------
(* The indications of the link, each with the message in hand. *)
LEMMA EstConfInv ==
  ASSUME NEW s, Inv(s, "EST_CONF")
  PROVE  Inv(EstConf(s), "none")
  <1>1. CASE s.st = "REL_PEND"
    BY <1>1, RelNormalInv DEF EstConf, Inv, LinkInv
  <1>2. CASE s.st = "DEDICATED"
    <2> DEFINE t == [s EXCEPT !.mod = "NONE"]
    <2>1. t \in Phone /\ Same(t, s) /\ t.st = s.st /\ t.mod = "NONE" /\ t.timers = s.timers
      BY ModFacts DEF Inv, LinkInv, Base
    <2>2. EstConf(s) = t
      BY <1>2 DEF EstConf
    <2> HIDE DEF t
    <2>3. Inv(t, "none")
      BY <1>2, <2>1
         DEF Inv, LinkInv, Base, Links, Modifies, Releases, Accesses, Same, Alike
    <2> QED BY <2>2, <2>3
  <1>3. CASE s.st \in {"IDLE", "CONN_PEND"}
    <2> DEFINE t == NewState(s, "DEDICATED")
               m == IF s.estReq THEN "EST_CNF" ELSE "EST_IND"
               u == Up(t, m)
    <2>1. t \in Phone /\ Same(t, s) /\ t.st = "DEDICATED" /\ t.mod = s.mod
      BY <1>3, NewStateFacts DEF Inv, LinkInv, Base, States
    <2>2. EstConf(s) = u
      BY <1>3 DEF EstConf
    <2> HIDE DEF t
    <2>3. u \in Phone /\ Same(u, t) /\ u.st = t.st /\ u.mod = t.mod
      BY <2>1, UpFacts DEF UpMsgs
    <2> HIDE DEF u
    <2>4. Inv(u, "none")
      BY <1>3, <2>1, <2>3
         DEF Inv, LinkInv, Base, Links, Modifies, Releases, Accesses, Same, Alike
    <2> QED BY <2>2, <2>4
  <1> QED BY <1>1, <1>2, <1>3 DEF Inv, LinkInv, Base, Phone, States

LEMMA RelIndInv ==
  ASSUME NEW s, Inv(s, "REL_IND"), s.st \in {"CONN_PEND", "DEDICATED"}
  PROVE  Inv(RelInd(s), "none")
  <1>1. CASE s.mod = "MODIFY"
    BY <1>1, RelConfInv DEF RelInd, Inv, LinkInv
  <1>2. CASE s.mod # "MODIFY"
    <2> DEFINE t == IF s.mod = "RESUME" THEN [s EXCEPT !.mod = "NONE"] ELSE s
               u == Up(t, "REL_IND")
               v == Start(u, "rel_wait")
               w == NewState(v, "REL_PEND")
    <2>1. RelInd(s) = w
      BY <1>2 DEF RelInd
    <2>2. t \in Phone /\ Same(t, s) /\ t.st = s.st /\ t.mod \notin {"MODIFY", "RESUME"}
      BY <1>2, ModFacts DEF Inv, LinkInv, Base, Same, Alike
    <2> HIDE DEF t
    <2>3. u \in Phone /\ Same(u, t) /\ u.st = t.st /\ u.mod = t.mod
      BY <2>2, UpFacts DEF UpMsgs
    <2> HIDE DEF u
    <2>4. /\ v \in Phone /\ Same(v, u) /\ v.st = u.st /\ v.mod = u.mod
          /\ "rel_wait" \in v.timers
      BY <2>3, StartFacts DEF Timers
    <2> HIDE DEF v
    <2>5. /\ w \in Phone /\ Same(w, v) /\ w.st = "REL_PEND" /\ w.mod \notin {"MODIFY", "RESUME"}
          /\ "rel_wait" \in w.timers
      BY <2>2, <2>3, <2>4, NewStateFacts DEF States
    <2> HIDE DEF w
    <2>6. Inv(w, "none")
      BY <2>2, <2>3, <2>4, <2>5
         DEF Inv, LinkInv, Base, Links, Modifies, Releases, Accesses, Same, Alike
    <2> QED BY <2>1, <2>6
  <1> QED BY <1>1, <1>2

LEMMA SuspConfInv ==
  ASSUME NEW s, Inv(s, "SUSP_CONF"), s.st = "DEDICATED"
  PROVE  Inv(SuspConf(s), "none")
  <1> DEFINE t == Activate(s)
             u == Resume(t)
  <1>1. /\ t \in Phone /\ t.st = s.st /\ t.mod = s.mod /\ t.timers = s.timers
        /\ t.cell = s.cell /\ t.l2 = s.l2 /\ t.rsl = s.rsl
    BY DEF Inv, LinkInv, Base, Phone, Activate
  <1>2. CASE s.mod = "MODIFY"
    <2>1. SuspConf(s) = u
      BY <1>2 DEF SuspConf
    <2> HIDE DEF t
    <2>2. /\ u \in Phone /\ u.st = t.st /\ u.mod = t.mod /\ u.timers = t.timers
          /\ u.cell = t.cell /\ u.rsl = t.rsl
          /\ u.l2 = "sabm" \/ (u.l2 = t.l2 /\ t.l2 # "mf")
      <3>1. CASE t.l2 = "mf"
        BY <1>1, <3>1 DEF Phone, Resume
      <3>2. CASE t.l2 # "mf"
        BY <1>1, <3>2 DEF Resume
      <3> QED BY <3>1, <3>2
    <2>3. u.l2 \in {"idle", "sabm", "disc"}
      BY <1>1, <2>2 DEF Phone
    <2> HIDE DEF u
    <2>4. Inv(u, "none")
      BY <1>1, <1>2, <2>2, <2>3 DEF Inv, LinkInv, Base, Links, Modifies, Releases, Accesses
    <2> QED BY <2>1, <2>4
  <1>3. CASE s.mod # "MODIFY"
    <2>1. SuspConf(s) \in {s, t}
      BY <1>3 DEF SuspConf
    <2> HIDE DEF t
    <2>2. Inv(s, "none") /\ Inv(t, "none")
      BY <1>1, <1>3 DEF Inv, LinkInv, Base, Links, Modifies, Releases, Accesses
    <2> QED BY <2>1, <2>2
  <1> QED BY <1>2, <1>3

LEMMA ErrorIndInv ==
  ASSUME NEW s, Inv(s, "ERROR_IND")
  PROVE  Inv(ErrorInd(s), "none")
  <1> DEFINE t == RelLocal(s)
             u == Up(t, "ABORT_IND")
  <1>1. Inv(t, "none") /\ Base(t)
    BY RelLocalInv DEF Inv, LinkInv
  <1>2. ErrorInd(s) \in {t, ToIdle(u)}
    BY DEF ErrorInd
  <1> HIDE DEF t
  <1>3. Base(u)
    BY <1>1, UpFacts DEF Base, UpMsgs, Same, Alike
  <1> HIDE DEF u
  <1> QED BY <1>1, <1>2, <1>3, ToIdleInv

LEMMA ChanRelInv ==
  ASSUME NEW s, Base(s)
  PROVE  Inv(ChanRel(s), "none")
  <1> DEFINE t == NewState(s, "REL_PEND")
             u == Start(t, "T3110")
  <1>1. t \in Phone /\ Same(t, s) /\ t.st = "REL_PEND" /\ t.mod \notin {"MODIFY", "RESUME"}
    BY NewStateFacts DEF Base, States
  <1>2. ChanRel(s) = RelNormal(u)
    BY DEF ChanRel
  <1> HIDE DEF t
  <1>3. u \in Phone /\ Same(u, t) /\ u.st = t.st /\ u.mod = t.mod
    BY <1>1, StartFacts DEF Timers
  <1>4. Base(u) /\ u.st = "REL_PEND"
    BY <1>1, <1>3 DEF Base, Same, Alike
  <1> HIDE DEF u
  <1> QED BY <1>2, <1>4, RelNormalInv

(* A suspension is asked of a link that is up, or else the link is on its way. *)
(* A modification starts, now or by its timer; the timer that has just run out
   counts as running until it is handled. *)
LEMMA SuspInv ==
  ASSUME NEW s, LinkInv([s EXCEPT !.timers = @ \cup {"starting"}], "none"), s \in Phone,
         Accesses(s, "none")
  PROVE  Inv(Susp(s), "none")
  <1> DEFINE r == [s EXCEPT !.timers = @ \cup {"starting"}]
             t == Rsl(s, "SUSP_CONF")
  <1>1. /\ r.st = s.st /\ r.mod = s.mod /\ r.cell = s.cell /\ r.l2 = s.l2 /\ r.rsl = s.rsl
        /\ r.timers = s.timers \cup {"starting"}
    BY DEF Phone
  <1> HIDE DEF r
  <1>2. Base(s) /\ Links(s, "none") /\ Releases(s, "none")
    BY <1>1 DEF r, LinkInv, Base, Links, Releases
  <1>3. s.mod = "RESUME" => Modifies(s, "none")
    BY <1>1 DEF r, LinkInv, Modifies
  <1>4. CASE s.l2 = "mf"
    <2>1. "SUSP_CONF" \in Msgs /\ Susp(s) = t
      BY <1>4 DEF Susp, Msgs
    <2>2. /\ t \in Phone /\ Alike(t, s) /\ t.st = s.st /\ t.mod = s.mod /\ t.timers = s.timers
          /\ \A n : Has(t.rsl, n) <=> Has(s.rsl, n) \/ "SUSP_CONF" = n
          /\ Ordered(s.rsl) => Ordered(t.rsl)
      BY <2>1, RslFacts
    <2> HIDE DEF t
    <2>3. Inv(t, "none")
      BY <1>2, <1>3, <1>4, <2>2
         DEF Inv, LinkInv, Base, Links, Modifies, Releases, Accesses, Alike, HasRel
    <2> QED BY <2>1, <2>3
  <1>5. CASE s.l2 # "mf"
    <2>1. Susp(s) = s /\ s.l2 \in {"idle", "sabm", "disc"}
      BY <1>5 DEF Susp, Phone
    <2>2. Inv(s, "none")
      BY <1>2, <1>3, <2>1 DEF Inv, LinkInv, Base, Links, Modifies
    <2> QED BY <2>1, <2>2
  <1> QED BY <1>4, <1>5

LEMMA ModifyCmdInv ==
  ASSUME NEW s, Inv(s, "none"), s.st = "DEDICATED", NEW usable \in BOOLEAN, NEW later \in BOOLEAN
  PROVE  Inv(ModifyCmd(s, usable, later), "none")
  <1> DEFINE t == [s EXCEPT !.mod = "MODIFY"]
             u == Start(t, "starting")
  <1>1. t \in Phone /\ Same(t, s) /\ t.st = s.st /\ t.mod = "MODIFY" /\ t.timers = s.timers
    BY ModFacts DEF Inv, LinkInv, Base
  <1>2. ModifyCmd(s, usable, later) \in {s, u, Susp(t)}
    BY DEF ModifyCmd
  <1> HIDE DEF t
  <1>3. u = [t EXCEPT !.timers = @ \cup {"starting"}]
    BY DEF Start
  <1>4. /\ u \in Phone /\ Same(u, t) /\ u.st = t.st /\ u.mod = t.mod
        /\ u.timers = t.timers \cup {"starting"}
    BY <1>1, StartFacts DEF Timers
  <1> HIDE DEF u
  <1>5. Inv(u, "none")
    BY <1>1, <1>4
       DEF Inv, LinkInv, Base, Links, Modifies, Releases, Accesses, Same, Alike
  <1>6. Accesses(t, "none")
    BY <1>1 DEF Accesses
  <1>7. Inv(Susp(t), "none")
    BY <1>1, <1>3, <1>5, <1>6, SuspInv DEF Inv
  <1> QED BY <1>2, <1>5, <1>7

(* Mobility management aborts, and the signal is lost. *)
LEMMA AbortReqInv ==
  ASSUME NEW s, Inv(s, "none")
  PROVE  Inv(AbortReq(s), "none")
  <1> DEFINE t == Stop(s, "T3126")
             u == NewState(t, "REL_PEND")
  <1>1. t \in Phone /\ Same(t, s) /\ t.st = s.st /\ t.mod = s.mod
    BY StopFacts DEF Inv, LinkInv, Base
  <1>2. /\ s.st = "DEDICATED" => AbortReq(s) = RelNormal(u)
        /\ s.st = "CONN_PEND" => AbortReq(s) = ToIdle(t)
        /\ s.st \notin {"DEDICATED", "CONN_PEND"} => AbortReq(s) = s
    BY DEF AbortReq
  <1> HIDE DEF t
  <1>3. Base(t)
    BY <1>1 DEF Inv, LinkInv, Base, Same, Alike
  <1>4. u \in Phone /\ Same(u, t) /\ u.st = "REL_PEND" /\ u.mod \notin {"MODIFY", "RESUME"}
    BY <1>3, NewStateFacts DEF Base, States
  <1> HIDE DEF u
  <1>5. Base(u)
    BY <1>3, <1>4 DEF Base, Same, Alike
  <1> QED BY <1>2, <1>3, <1>4, <1>5, RelNormalInv, ToIdleInv

LEMMA LosInv ==
  ASSUME NEW s, Base(s)
  PROVE  Inv(Los(s), "none")
  <1> DEFINE t == Stop(s, "T3110")
             u == Stop(t, "T3126")
             v == Up(u, "REL_IND")
             w == NewState(t, "REL_PEND")
  <1>1. t \in Phone /\ Same(t, s) /\ t.st = s.st /\ t.mod = s.mod
    BY StopFacts DEF Base
  <1>2. /\ s.st = "CONN_PEND" => Los(s) = ToIdle(v)
        /\ s.st \in {"DEDICATED", "REL_PEND"} => Los(s) = RelLocal(w)
        /\ s.st = "IDLE" => Los(s) = t
    BY DEF Los
  <1> HIDE DEF t
  <1>3. Base(t)
    BY <1>1 DEF Base, Same, Alike
  <1>4. w \in Phone /\ Same(w, t) /\ w.st = "REL_PEND" /\ w.mod \notin {"MODIFY", "RESUME"}
    BY <1>3, NewStateFacts DEF Base, States
  <1> HIDE DEF w
  <1>5. Base(w)
    BY <1>3, <1>4 DEF Base, Same, Alike
  <1>6. u \in Phone /\ Same(u, t) /\ u.st = t.st /\ u.mod = t.mod
    BY <1>1, StopFacts
  <1> HIDE DEF u
  <1>7. v \in Phone /\ Same(v, u) /\ v.st = u.st /\ v.mod = u.mod
    BY <1>6, UpFacts DEF UpMsgs
  <1> HIDE DEF v
  <1>8. Base(v)
    BY <1>3, <1>6, <1>7 DEF Base, Same, Alike
  <1>9. s.st = "IDLE" => Inv(t, "none")
    BY <1>1, <1>3 DEF Base, Inv, LinkInv, Links, Modifies, Releases, Accesses
  <1>10. s.st \in States
    BY DEF Base, Phone
  <1> QED BY <1>2, <1>5, <1>8, <1>9, <1>10, ToIdleInv, RelLocalInv DEF States

-----------------------------------------------------------------------------
(* A timer of RR, which is stopped when it is handled. *)
LEMMA ExpiredInv ==
  ASSUME NEW s, Inv(s, "none"), NEW timer \in s.timers
  PROVE  Inv(Expired(Stop(s, timer), timer), "none")
  <1> DEFINE t == Stop(s, timer)
  <1>1. /\ t \in Phone /\ Same(t, s) /\ t.st = s.st /\ t.mod = s.mod
        /\ t.timers = s.timers \ {timer}
    BY StopFacts DEF Inv, LinkInv, Base
  <1>2. timer \in Timers
    BY DEF Inv, LinkInv, Base, Phone
  <1> HIDE DEF t
  <1>3. Base(t)
    BY <1>1 DEF Inv, LinkInv, Base, Same, Alike
  <1>4. CASE timer = "starting" /\ s.mod = "IMM_ASS"
    <2> DEFINE u == [t EXCEPT !.mod = "NONE"]
    <2>1. u \in Phone /\ Same(u, t) /\ u.st = t.st /\ u.mod = "NONE" /\ u.timers = t.timers
      BY <1>1, ModFacts
    <2>2. Expired(t, timer) = DlEst(u, FALSE)
      BY <1>1, <1>4 DEF Expired
    <2> HIDE DEF u
    <2>3. LinkInv(u, "none")
      BY <1>1, <1>4, <2>1
         DEF Inv, LinkInv, Base, Links, Modifies, Releases, Same, Alike
    <2> QED BY <2>1, <2>2, <2>3, DlEstInv DEF t
  <1>5. CASE timer = "starting" /\ s.mod # "IMM_ASS"
    <2> DEFINE u == [t EXCEPT !.timers = @ \cup {"starting"}]
    <2>1. /\ u \in Phone /\ u.st = t.st /\ u.mod = t.mod /\ u.cell = t.cell /\ u.l2 = t.l2
          /\ u.rsl = t.rsl /\ u.timers = t.timers \cup {"starting"}
      BY <1>1 DEF Phone, Timers
    <2> HIDE DEF u
    <2>2. LinkInv(u, "none")
      BY <1>1, <1>5, <2>1, LinkInvSame DEF Inv, Same, Alike
    <2>3. Accesses(t, "none")
      BY <1>1, <1>5 DEF Inv, Accesses, Same, Alike
    <2>4. Expired(t, timer) = Susp(t)
      BY <1>1, <1>5 DEF Expired
    <2> QED BY <1>1, <2>2, <2>3, <2>4, SuspInv DEF t, u
  <1>6. CASE timer = "rel_wait"
    BY <1>3, <1>6, ToIdleInv DEF Expired, t
  <1>7. CASE timer = "T3110"
    <2> DEFINE u == NewState(t, "REL_PEND")
    <2>1. u \in Phone /\ Same(u, t) /\ u.st = "REL_PEND" /\ u.mod \notin {"MODIFY", "RESUME"}
      BY <1>3, NewStateFacts DEF Base, States
    <2>2. Expired(t, timer) = RelLocal(u)
      BY <1>7 DEF Expired
    <2> HIDE DEF u
    <2>3. Base(u)
      BY <1>3, <2>1 DEF Base, Same, Alike
    <2> QED BY <2>2, <2>3, RelLocalInv DEF t
  <1>8. CASE timer = "T3126"
    <2> DEFINE u == Up(t, "REL_IND")
    <2>1. u \in Phone /\ Same(u, t) /\ u.st = t.st /\ u.mod = t.mod
      BY <1>1, UpFacts DEF UpMsgs
    <2>2. Expired(t, timer) \in {ToIdle(u), ToIdle(t)}
      BY <1>8 DEF Expired
    <2> HIDE DEF u
    <2>3. Base(u)
      BY <1>3, <2>1 DEF Base, Same, Alike
    <2> QED BY <1>3, <2>2, <2>3, ToIdleInv DEF t
  <1>9. CASE timer = "T3122"
    <2>1. Expired(t, timer) = t
      BY <1>9 DEF Expired
    <2>2. Inv(t, "none")
      BY <1>1, <1>9, InvSame
    <2> QED BY <2>1, <2>2 DEF t
  <1> QED BY <1>2, <1>4, <1>5, <1>6, <1>7, <1>8, <1>9 DEF Timers

(* A block of the BCCH or the CCCH. *)
LEMMA UnitDataInv ==
  ASSUME NEW s, Inv(s, "none"), NEW m \in CchMsgs, NEW ra \in RA, NEW i,
         NEW usable \in BOOLEAN, NEW b \in BOOLEAN
  PROVE  Inv(UnitData(s, m, ra, i, usable, b), "none")
  <1> DEFINE t == [s EXCEPT !.ccch = "data"]
             u == UnitData(s, m, ra, i, usable, b)
  <1>1. /\ t \in Phone /\ t.st = s.st /\ t.mod = s.mod /\ t.cell = s.cell /\ t.l2 = s.l2
        /\ t.rsl = s.rsl /\ t.timers = s.timers /\ t.wait = s.wait /\ t.usable = s.usable
        /\ t.dm = s.dm /\ t.rach = s.rach /\ t.sync = s.sync
    BY DEF Inv, LinkInv, Base, Phone
  <1>2. LinkInv(t, "none")
    BY <1>1, LinkInvSame DEF Inv
  <1>3. CASE s.ccch = "init"
    <2>1. u = s
      BY <1>3 DEF UnitData
    <2> QED BY <2>1
  <1>4. CASE s.ccch = "sync" /\ s.st = "CONN_PEND"
    <2>1. u = IF s.wait = 2 THEN t ELSE RandAcc(t, ra)
      BY <1>4 DEF UnitData
    <2> HIDE DEF t
    <2>2. s.wait = 2 => Inv(t, "none")
      BY <1>1, <1>2 DEF Inv, Accesses
    <2> HIDE DEF u
    <2> QED BY <1>2, <2>1, <2>2, RandAccInv DEF u
  <1>5. CASE s.ccch # "init" /\ ~(s.ccch = "sync" /\ s.st = "CONN_PEND")
    <2>1. /\ m = "PAGING" => u = Page(t)
          /\ m = "IMM_ASS" => u = ImmAss(t, i, usable, b)
          /\ m = "IMM_REJ" => u = ImmRej(t, i, b)
          /\ m = "BCCH" => u = t
      BY <1>5 DEF UnitData
    <2> HIDE DEF t
    <2>2. Inv(t, "none")
      BY <1>1, <1>2, <1>5 DEF Inv, Accesses
    <2> HIDE DEF u
    <2>3. Inv(u, "none")
      BY <2>1, <2>2, PageInv, ImmAssInv, ImmRejInv DEF CchMsgs
    <2> QED BY <2>3 DEF u
  <1> QED BY <1>3, <1>4, <1>5

(* A message that the state of RR does not let through. *)
LEMMA DroppedInv ==
  ASSUME NEW s, NEW m, Inv(s, m), m \notin {"CHAN_CONF", "EST_CONF"},
         m = "REL_IND" => s.st \notin {"CONN_PEND", "DEDICATED"},
         m = "REL_CONF" => s.st = "IDLE",
         m \in {"SUSP_CONF", "ERROR_IND"} => s.st # "DEDICATED"
  PROVE  Inv(s, "none")
  BY DEF Inv, LinkInv, Base, Links, Modifies, Releases, Accesses

(* Any message of the link layer, handled: nothing it promised is lost. *)
LEMMA FromL2Inv ==
  ASSUME NEW s, NEW m \in Msgs, Inv(s, m), NEW ra \in RA, NEW i,
         NEW usable \in BOOLEAN, NEW b \in BOOLEAN
  PROVE  Inv(FromL2(s, m, ra, i, usable, b), "none")
  <1> DEFINE u == FromL2(s, m, ra, i, usable, b)
  <1>0. Base(s)
    BY DEF Inv, LinkInv
  <1>1. CASE m \in CchMsgs
    <2>1. u = UnitData(s, m, ra, i, usable, b)
      BY <1>1 DEF FromL2, CchMsgs
    <2>2. Inv(s, "none")
      BY <1>1, DroppedInv DEF CchMsgs
    <2> QED BY <1>1, <2>1, <2>2, UnitDataInv
  <1>2. CASE m = "CHAN_CONF"
    <2>1. u = ChanConf(s, ra)
      BY <1>2 DEF FromL2, CchMsgs
    <2> QED BY <1>2, <2>1, ChanConfInv
  <1>3. CASE m = "EST_CONF"
    <2>1. u = EstConf(s)
      BY <1>3 DEF FromL2, CchMsgs
    <2> QED BY <1>3, <2>1, EstConfInv
  <1>4. CASE m = "REL_IND" /\ s.st \in {"CONN_PEND", "DEDICATED"}
    <2>1. u = RelInd(s)
      BY <1>4 DEF FromL2, CchMsgs
    <2> QED BY <1>4, <2>1, RelIndInv
  <1>5. CASE m = "REL_CONF" /\ s.st # "IDLE"
    <2>1. u = RelConf(s)
      BY <1>5 DEF FromL2, CchMsgs
    <2> QED BY <1>0, <2>1, RelConfInv
  <1>6. CASE m = "SUSP_CONF" /\ s.st = "DEDICATED"
    <2>1. u = SuspConf(s)
      BY <1>6 DEF FromL2, CchMsgs
    <2> QED BY <1>6, <2>1, SuspConfInv
  <1>7. CASE m = "ERROR_IND" /\ s.st = "DEDICATED"
    <2>1. u = ErrorInd(s)
      BY <1>7 DEF FromL2, CchMsgs
    <2> QED BY <1>7, <2>1, ErrorIndInv
  <1>8. CASE m = "CHAN_REL" /\ s.st = "DEDICATED"
    <2>1. u = ChanRel(s)
      BY <1>8 DEF FromL2, CchMsgs
    <2> QED BY <1>0, <2>1, ChanRelInv
  <1>9. CASE m = "MODIFY" /\ s.st = "DEDICATED"
    <2>1. u = ModifyCmd(s, usable, b)
      BY <1>9 DEF FromL2, CchMsgs
    <2>2. Inv(s, "none")
      BY <1>9, DroppedInv
    <2> QED BY <1>9, <2>1, <2>2, ModifyCmdInv
  <1> DEFINE Dropped ==
        \/ m = "REL_IND" /\ s.st \notin {"CONN_PEND", "DEDICATED"}
        \/ m = "REL_CONF" /\ s.st = "IDLE"
        \/ m \in {"SUSP_CONF", "ERROR_IND", "CHAN_REL", "MODIFY"} /\ s.st # "DEDICATED"
  <1>10. CASE Dropped
    <2>1. u = s
      BY <1>10 DEF FromL2, CchMsgs
    <2>2. Inv(s, "none")
      BY <1>10, DroppedInv
    <2> QED BY <2>1, <2>2
  <1> QED BY <1>1, <1>2, <1>3, <1>4, <1>5, <1>6, <1>7, <1>8, <1>9, <1>10 DEF Msgs

-----------------------------------------------------------------------------
(* The invariant of the specification. *)
IInv == round \in {"timers", "drain"} /\ Inv(ms, "none")

(* The phone starts with nothing to wait for. *)
LEMMA Initially == Init => IInv
  <1> SUFFICES ASSUME Init PROVE IInv
    OBVIOUS
  <1>1. <<>> \in Seq(Refs) /\ <<>> \in Seq(Msgs) /\ <<>> \in Seq(UpMsgs) /\ DOMAIN <<>> = {}
    BY EmptySeq
  <1>2. /\ ms \in Phone /\ ms.st = "IDLE" /\ ms.mod = "NONE" /\ ms.l2 = "idle" /\ ms.rsl = <<>>
    BY <1>1 DEF Init, InitRr, Phone, States, Timers, Refs, NoRa
  <1>3. Ordered(ms.rsl)
    BY <1>1, <1>2 DEF Ordered
  <1> QED BY <1>2, <1>3
        DEF Init, IInv, Inv, LinkInv, Base, Links, Modifies, Releases, Accesses

(* What cell selection and layer 1 change before RR is called. *)
LEMMA LossInv ==
  ASSUME NEW s, Base(s)
  PROVE  Inv(Los([s EXCEPT !.sync = "none"]), "none")
  <1> DEFINE t == [s EXCEPT !.sync = "none"]
  <1>1. t \in Phone /\ t.st = s.st /\ t.mod = s.mod /\ t.cell = s.cell /\ t.l2 = s.l2 /\ t.rsl = s.rsl
    BY DEF Base, Phone
  <1> HIDE DEF t
  <1>2. Base(t)
    BY <1>1 DEF Base
  <1> QED BY <1>2, LosInv DEF t

(* A message that is queued, but the confirmation of the establishment, which
   only goes with a link that is up. *)
LEMMA QueuedInv ==
  ASSUME NEW s, Inv(s, "none"), NEW m \in Msgs \ {"EST_CONF"}
  PROVE  Inv(Rsl(s, m), "none")
  <1> DEFINE t == Rsl(s, m)
  <1>1. /\ t \in Phone /\ Alike(t, s) /\ t.st = s.st /\ t.mod = s.mod /\ t.timers = s.timers
        /\ \A n : Has(t.rsl, n) <=> Has(s.rsl, n) \/ m = n
        /\ Ordered(s.rsl) => Ordered(t.rsl)
    BY RslFacts DEF Inv, LinkInv, Base
  <1> HIDE DEF t
  <1>2. Inv(t, "none")
    BY <1>1 DEF Inv, LinkInv, Base, Links, Modifies, Releases, Accesses, Alike, HasRel
  <1> QED BY <1>2 DEF t

(* The link ends, and layer 2 says so; asked by RR, it confirms. *)
LEMMA LinkEndedInv ==
  ASSUME NEW s, Inv(s, "none"), NEW m \in {"REL_IND", "REL_CONF"},
         s.l2 = "disc" => m = "REL_CONF"
  PROVE  Inv(Rsl([s EXCEPT !.l2 = "idle"], m), "none")
  <1> DEFINE u == [s EXCEPT !.l2 = "idle"]
             t == Rsl(u, m)
  <1>1. /\ u \in Phone /\ u.l2 = "idle" /\ u.st = s.st /\ u.mod = s.mod /\ u.cell = s.cell
        /\ u.rsl = s.rsl /\ u.timers = s.timers
    BY DEF Inv, LinkInv, Base, Phone
  <1> HIDE DEF u
  <1>2. m \in Msgs
    BY DEF Msgs
  <1>3. /\ t \in Phone /\ t.l2 = "idle" /\ t.st = s.st /\ t.mod = s.mod /\ t.cell = s.cell
        /\ t.timers = s.timers /\ Ordered(t.rsl)
        /\ \A n : Has(t.rsl, n) <=> Has(s.rsl, n) \/ m = n
    BY <1>1, <1>2, RslFacts DEF Alike
  <1> HIDE DEF t
  <1>4. HasRel(t.rsl) /\ (Has(s.rsl, "REL_CONF") \/ m = "REL_CONF" => Has(t.rsl, "REL_CONF"))
    BY <1>3 DEF HasRel
  <1>5. Inv(t, "none")
    BY <1>3, <1>4 DEF Inv, LinkInv, Base, Links, Modifies, Releases, Accesses
  <1> QED BY <1>5 DEF t, u

(* An answer of layer 1 for another cell: it is asked once more. *)
LEMMA AskedAgainInv ==
  ASSUME NEW s, Inv(s, "none"), s.sync # "none"
  PROVE  Inv([s EXCEPT !.sync = "own"], "none")
  <1> DEFINE t == [s EXCEPT !.sync = "own"]
  <1>1. /\ t \in Phone /\ t.st = s.st /\ t.mod = s.mod /\ t.cell = s.cell /\ t.l2 = s.l2
        /\ t.rsl = s.rsl /\ t.timers = s.timers /\ t.wait = s.wait /\ t.usable = s.usable
        /\ t.dm = s.dm /\ t.rach = s.rach /\ t.sync # "none"
    BY DEF Inv, LinkInv, Base, Phone
  <1> HIDE DEF t
  <1>2. Inv(t, "none")
    BY <1>1 DEF Inv, LinkInv, Base, Links, Modifies, Releases, Accesses
  <1> QED BY <1>2 DEF t

(* Every step preserves the invariant, one case per action. *)
LEMMA Step == IInv /\ [Next]_vars => IInv'
  <1> SUFFICES ASSUME IInv, [Next]_vars PROVE IInv'
    OBVIOUS
  <1>0. Inv(ms, "none") /\ Base(ms) /\ ms \in Phone
    BY DEF IInv, Inv, LinkInv, Base
  <1>a. ASSUME NEW s, Timer(s) \/ Event(s) \/ Settle(s), Inv(s, "none") PROVE IInv'
    BY <1>a DEF IInv, Timer, Event, Settle, Rest
  <1>1. CASE TimerExpires
    BY <1>0, <1>1, <1>a, ExpiredInv DEF TimerExpires
  <1>2. CASE T200
    <2>1. {"REL_IND", "REL_CONF", "ERROR_IND"} \subseteq Msgs \ {"EST_CONF"}
      BY DEF Msgs
    <2>2. CASE ms.l2 = "sabm"
      <3> DEFINE t == Rsl([ms EXCEPT !.l2 = "idle"], "REL_IND")
      <3>1. Timer(Rsl(t, "ERROR_IND"))
        BY <1>2, <2>2 DEF T200
      <3>2. Inv(t, "none")
        BY <1>0, <2>2, LinkEndedInv
      <3> QED BY <1>a, <2>1, <3>1, <3>2, QueuedInv
    <2>3. CASE ms.l2 = "disc"
      <3> DEFINE t == Rsl([ms EXCEPT !.l2 = "idle"], "REL_CONF")
      <3>1. Timer(Rsl(t, "ERROR_IND"))
        BY <1>2, <2>3 DEF T200
      <3>2. Inv(t, "none")
        BY <1>0, <2>3, LinkEndedInv
      <3> QED BY <1>a, <2>1, <3>1, <3>2, QueuedInv
    <2>4. CASE ms.l2 = "mf"
      <3>1. Timer(Rsl(ms, "ERROR_IND"))
        BY <1>2, <2>4 DEF T200
      <3> QED BY <1>0, <1>a, <2>1, <3>1, QueuedInv
    <2>5. ms.l2 \in {"sabm", "disc", "mf"}
      BY <1>2 DEF T200
    <2> QED BY <2>2, <2>3, <2>4, <2>5
  <1>3. CASE MmAsks
    <2>1. PICK e \in BOOLEAN, b \in BOOLEAN : Event(EstReq([ms EXCEPT !.mm = "wait"], e, b))
      BY <1>3 DEF MmAsks
    <2> DEFINE t == [ms EXCEPT !.mm = "wait"]
    <2>2. t \in Phone /\ Same(t, ms) /\ t.st = ms.st /\ t.mod = ms.mod /\ t.timers = ms.timers
      BY <1>0 DEF Phone, Same, Alike
    <2> HIDE DEF t
    <2>3. Inv(t, "none")
      BY <1>0, <2>2, InvSame
    <2> QED BY <1>a, <2>1, <2>3, EstReqInv DEF t
  <1>4. CASE MmAborts
    <2> DEFINE t == [ms EXCEPT !.mm = "idle"]
    <2>2. t \in Phone /\ Same(t, ms) /\ t.st = ms.st /\ t.mod = ms.mod /\ t.timers = ms.timers
      BY <1>0 DEF Phone, Same, Alike
    <2>1. Event(AbortReq(t))
      BY <1>4 DEF MmAborts
    <2> HIDE DEF t
    <2>3. Inv(t, "none")
      BY <1>0, <2>2, InvSame
    <2> QED BY <1>a, <2>1, <2>3, AbortReqInv
  <1>5. CASE Camp
    <2> DEFINE t == [ms EXCEPT !.cell = "camped", !.sync = "none", !.nbr = FALSE, !.ccch = "data",
                               !.dm = FALSE, !.rach = FALSE]
    <2>1. Event(t) /\ ms.st # "CONN_PEND"
      BY <1>0, <1>5 DEF Camp, Base
    <2>2. /\ t \in Phone /\ t.st = ms.st /\ t.mod = ms.mod /\ t.timers = ms.timers /\ t.l2 = ms.l2
          /\ t.rsl = ms.rsl
      BY <1>0, ZenonT(60) DEF Phone
    <2> HIDE DEF t
    <2>3. Inv(t, "none")
      BY <1>0, <2>1, <2>2 DEF Inv, LinkInv, Base, Links, Modifies, Releases, Accesses
    <2> QED BY <1>a, <2>1, <2>3
  <1>6. CASE Neighbour
    <2>1. PICK n \in BOOLEAN, y \in {"none", "own", "nb"} :
            Event([ms EXCEPT !.nbr = n, !.sync = y])
      BY <1>6 DEF Neighbour
    <2> DEFINE t == [ms EXCEPT !.nbr = n, !.sync = y]
    <2>2. /\ t \in Phone /\ t.st = ms.st /\ t.mod = ms.mod /\ t.timers = ms.timers /\ t.l2 = ms.l2
          /\ t.rsl = ms.rsl /\ t.cell = ms.cell
      BY <1>0 DEF Phone
    <2>3. ms.st # "CONN_PEND"
      BY <1>0, <1>6 DEF Neighbour, Base
    <2> HIDE DEF t
    <2>4. Inv(t, "none")
      BY <1>0, <2>2, <2>3 DEF Inv, LinkInv, Base, Links, Modifies, Releases, Accesses
    <2> QED BY <1>a, <2>1, <2>4 DEF t
  <1>7. CASE FbsbResp
    <2>1. CASE ms.sync = "nb"
      <3>1. Event([ms EXCEPT !.sync = "own"])
        BY <1>7, <2>1 DEF FbsbResp
      <3> QED BY <1>0, <1>a, <2>1, <3>1, AskedAgainInv
    <2>2. CASE ms.sync # "nb"
      <3> DEFINE t == [ms EXCEPT !.sync = "none", !.ccch = "sync"]
      <3>1. Event(t)
        BY <1>7, <2>2 DEF FbsbResp
      <3>2. /\ t \in Phone /\ t.st = ms.st /\ t.mod = ms.mod /\ t.cell = ms.cell /\ t.l2 = ms.l2
            /\ t.rsl = ms.rsl /\ t.timers = ms.timers /\ t.wait = ms.wait /\ t.dm = ms.dm
            /\ t.usable = ms.usable /\ t.rach = ms.rach /\ t.ccch = "sync"
        BY <1>0 DEF Phone
      <3> HIDE DEF t
      <3>3. Inv(t, "none")
        BY <1>0, <3>2 DEF Inv, LinkInv, Base, Links, Modifies, Releases, Accesses
      <3> QED BY <1>a, <3>1, <3>3
    <2> QED BY <2>1, <2>2
  <1>8. CASE FbsbErr
    <2>1. CASE ms.sync = "nb"
      <3>1. Event([ms EXCEPT !.sync = "own"])
        BY <1>8, <2>1 DEF FbsbErr
      <3> QED BY <1>0, <1>a, <2>1, <3>1, AskedAgainInv
    <2>2. CASE ms.sync # "nb"
      <3>1. Event(Los([ms EXCEPT !.sync = "none"]))
        BY <1>8, <2>2 DEF FbsbErr
      <3> QED BY <1>0, <1>a, <3>1, LossInv
    <2> QED BY <2>1, <2>2
  <1>9. CASE LossInd
    BY <1>0, <1>9, <1>a, LosInv DEF LossInd
  <1>10. CASE CchData
    <2>1. CchMsgs \subseteq Msgs \ {"EST_CONF"}
      BY DEF CchMsgs, Msgs
    <2> QED BY <1>0, <1>10, <1>a, <2>1, QueuedInv DEF CchData
  <1>11. CASE RachConf
    <2> DEFINE u == [ms EXCEPT !.rach = FALSE]
               t == Rsl(u, "CHAN_CONF")
    <2>1. Event(t) /\ "CHAN_CONF" \in Msgs
      BY <1>11 DEF RachConf, Msgs
    <2>2. /\ u \in Phone /\ u.st = ms.st /\ u.mod = ms.mod /\ u.cell = ms.cell /\ u.l2 = ms.l2
          /\ u.rsl = ms.rsl /\ u.timers = ms.timers /\ u.wait = ms.wait /\ u.dm = ms.dm
          /\ u.usable = ms.usable /\ u.sync = ms.sync /\ u.ccch = ms.ccch
      BY <1>0 DEF Phone
    <2> HIDE DEF u
    <2>3. /\ t \in Phone /\ Alike(t, u) /\ t.st = u.st /\ t.mod = u.mod /\ t.timers = u.timers
          /\ \A n : Has(t.rsl, n) <=> Has(u.rsl, n) \/ "CHAN_CONF" = n
          /\ Ordered(u.rsl) => Ordered(t.rsl)
      BY <2>1, <2>2, RslFacts
    <2> HIDE DEF t
    <2>4. LinkInv(t, "none")
      BY <1>0, <2>2, <2>3
         DEF Inv, LinkInv, Base, Links, Modifies, Releases, Alike, HasRel
    <2>5. Accesses(t, "none")
      BY <1>0, <2>2, <2>3 DEF Inv, Accesses, Alike, HasRel
    <2> QED BY <1>a, <2>1, <2>4, <2>5 DEF Inv
  <1>12. CASE L2Frame
    <2>1. {"REL_IND", "REL_CONF", "ERROR_IND", "CHAN_REL", "MODIFY"} \subseteq Msgs \ {"EST_CONF"}
      BY DEF Msgs
    <2>2. CASE ms.l2 = "sabm" /\ Event(Rsl([ms EXCEPT !.l2 = "mf"], "EST_CONF"))
      <3> DEFINE u == [ms EXCEPT !.l2 = "mf"]
                 t == Rsl(u, "EST_CONF")
      <3>1. "EST_CONF" \in Msgs
        BY DEF Msgs
      <3>2. /\ u \in Phone /\ u.l2 = "mf" /\ u.st = ms.st /\ u.mod = ms.mod /\ u.cell = ms.cell
            /\ u.rsl = ms.rsl /\ u.timers = ms.timers
        BY <1>0 DEF Phone
      <3> HIDE DEF u
      <3>3. /\ t \in Phone /\ t.l2 = "mf" /\ t.st = u.st /\ t.mod = u.mod /\ t.cell = u.cell
            /\ t.timers = u.timers
            /\ \A n : Has(t.rsl, n) <=> Has(u.rsl, n) \/ "EST_CONF" = n
        BY <3>1, <3>2, RslFacts DEF Alike
      <3> HIDE DEF t
      <3>4. Inv(t, "none")
        BY <1>0, <2>2, <3>2, <3>3
           DEF Inv, LinkInv, Base, Links, Modifies, Releases, Accesses
      <3> QED BY <1>a, <2>2, <3>4 DEF t, u
    <2>3. CASE ms.l2 \in {"sabm", "mf"} /\ Event(Rsl([ms EXCEPT !.l2 = "idle"], "REL_IND"))
      BY <1>0, <1>a, <2>3, LinkEndedInv
    <2>4. CASE ms.l2 = "disc" /\ Event(Rsl([ms EXCEPT !.l2 = "idle"], "REL_CONF"))
      BY <1>0, <1>a, <2>4, LinkEndedInv
    <2>5. CASE \E m \in {"ERROR_IND", "CHAN_REL", "MODIFY"} : Event(Rsl(ms, m))
      BY <1>0, <1>a, <2>1, <2>5, QueuedInv
    <2> QED BY <1>12, <2>2, <2>3, <2>4, <2>5 DEF L2Frame
  <1>13. CASE RslDequeue
    <2>1. PICK ra \in RA, i \in 1..3, usable \in BOOLEAN, b \in BOOLEAN :
            Settle(FromL2([ms EXCEPT !.rsl = Tail(@)], Head(ms.rsl), ra, i, usable, b))
      BY <1>13 DEF RslDequeue
    <2> DEFINE q == Tail(ms.rsl)
               m == Head(ms.rsl)
               t == [ms EXCEPT !.rsl = q]
    <2>2. /\ q \in Seq(Msgs) /\ m \in Msgs
          /\ \A n : Has(ms.rsl, n) <=> Has(q, n) \/ m = n
          /\ Ordered(ms.rsl) => Ordered(q) /\ (m = "EST_CONF" => HasRel(q))
      BY <1>0, <1>13, Popped DEF RslDequeue, Phone
    <2> HIDE DEF q, m
    <2>3. /\ t \in Phone /\ Alike(t, ms) /\ t.st = ms.st /\ t.mod = ms.mod /\ t.timers = ms.timers
          /\ t.rsl = q
      BY <1>0, <2>2 DEF Phone, Alike
    <2> HIDE DEF t
    <2>4. Inv(t, m)
      BY <1>0, <2>2, <2>3
         DEF Inv, LinkInv, Base, Links, Modifies, Releases, Accesses, Alike, HasRel
    <2> QED BY <1>a, <2>1, <2>2, <2>4, FromL2Inv DEF t, q, m
  <1>14. CASE RrDequeue
    <2> DEFINE q == Tail(ms.up)
               m == Head(ms.up)
               t == FromRr([ms EXCEPT !.up = q], m)
    <2>1. Settle(t) /\ q \in Seq(UpMsgs)
      BY <1>0, <1>14, HeadTailProperties DEF RrDequeue, Phone
    <2> HIDE DEF q, m
    <2>2. t \in Phone /\ Same(t, ms) /\ t.st = ms.st /\ t.mod = ms.mod /\ t.timers = ms.timers
      BY <1>0, <2>1 DEF FromRr, Phone, Same, Alike
    <2> HIDE DEF t
    <2>3. Inv(t, "none")
      BY <1>0, <2>2, InvSame
    <2> QED BY <1>a, <2>1, <2>3
  <1>15. CASE UNCHANGED vars
    BY <1>0, <1>15 DEF IInv, vars
  <1> QED BY <1>1, <1>2, <1>3, <1>4, <1>5, <1>6, <1>7, <1>8, <1>9, <1>10, <1>11, <1>12, <1>13,
             <1>14, <1>15 DEF Next

-----------------------------------------------------------------------------
(* In every reachable state the phone is well formed and satisfies the invariant, in
   any interleaving of timers, queued messages, cell selection, layer 1 and requests
   of mobility management: a state of gsm48_rr.c that waits has an event owed to it,
   but for the two accesses that AccessEnds excepts. *)
THEOREM RadioInvariant == Spec => []IInv
  BY Initially, Step, PTL DEF Spec

(* A channel that is requested or released has a pending answer, a queued indication
   or a running timer that ends the request or the release, for any references and
   any number of retries; gsm48_rr_los, gsm48_rr_abort_req and the timers of the state
   before included.  Not so, and excepted in AccessEnds, are an access that was
   assigned a channel the phone cannot use, which has none of these any more
   (gsm48_rr_dl_est), and one that finds the link of an earlier access still up. *)
THEOREM ChannelAlwaysEnds == Spec => []ChannelEnds
  <1>1. IInv => ChannelEnds
    <2> SUFFICES ASSUME IInv PROVE ChannelEnds
      OBVIOUS
    <2>1. Releases(ms, "none") /\ Accesses(ms, "none")
      BY DEF IInv, Inv, LinkInv
    <2>2. ReleaseEnds
      BY <2>1 DEF ReleaseEnds, Releases, Queued, Has
    <2>3. AccessEnds
      BY <2>1 DEF AccessEnds, Accesses, Queued, Has, HasRel
    <2> QED BY <2>2, <2>3 DEF ChannelEnds
  <1> QED BY <1>1, RadioInvariant, PTL

(* A modification of the channel, or the return to the old channel after it failed,
   always waits for its timer, for the peer, or for an indication in the queue, so
   the messages that are held back meanwhile are not held back for ever. *)
THEOREM ModificationEnds == Spec => []ModifyEnds
  <1>1. IInv => ModifyEnds
    BY DEF IInv, Inv, LinkInv, Modifies, ModifyEnds, Queued, Has, HasRel
  <1> QED BY <1>1, RadioInvariant, PTL
=============================================================================
