---------------------------- MODULE MobileProofs ----------------------------
(***************************************************************************)
(* Proofs about the phone that makes and takes calls, for any number of    *)
(* calls, of transaction identifiers and of settings: the types, and that  *)
(* the layers agree whenever the queues between them are empty.            *)
(***************************************************************************)
EXTENDS Mobile, SequenceTheorems, WellFoundedInduction, TLAPS

-----------------------------------------------------------------------------
(* What the layers know of a reference r, by the fields they keep it in. *)

Gone == {"REL_IND", "ERR_IND"}
Over == {"REL_IND", "REL_CNF"}
Loss == {"REL_IND", "ABORT_IND"}
RingStates == {"CALL_RECEIVED", "DISCONNECT", "RELEASE_REQ"}

(* A connection has r; it waits; its transaction identifier. *)
Joined(conns, r) == \E i \in DOMAIN conns : conns[i].ref = r
Pend(conns, r) == \E i \in DOMAIN conns : conns[i].ref = r /\ conns[i].state = "CONN_PEND"
TiOf(conns, r) == conns[CHOOSE i \in DOMAIN conns : conns[i].ref = r].ti
(* What MM has queued about it for call control, and call control for layer 4 *)
Ups(mmxx, r) == {mmxx[i] : i \in {j \in DOMAIN mmxx : mmxx[j].ref = r}}
Told(mncc, r) == {mncc[i].prim : i \in {j \in DOMAIN mncc : mncc[j].ref = r}}
(* The user has a call r; it is still being set up; it rings. *)
Listed(calls, r) == \E i \in DOMAIN calls : calls[i].ref = r
Young(calls, r) == \E i \in DOMAIN calls : calls[i].ref = r /\ calls[i].init
Rings(calls, r) == \E i \in DOMAIN calls : calls[i].ref = r /\ calls[i].ring

Distinct(q) == \A i, j \in DOMAIN q : q[i].ref = q[j].ref => i = j

(* A transaction and its connection *)
Tie(trans, conns, mmxx, r) ==
  /\ Pend(conns, r) => TiOf(conns, r) = NoTi
  /\ Joined(conns, r) => TiOf(conns, r) = IF r \in DOMAIN trans THEN trans[r].ti ELSE NoTi
  /\ r \in DOMAIN trans =>
       /\ IF trans[r].ti = NoTi THEN trans[r].state \in {"NULL", "MM_CONNECTION_PEND"}
          ELSE trans[r].state # "MM_CONNECTION_PEND"
       /\ Joined(conns, r) \/ \E m \in Ups(mmxx, r) : m.prim \in Gone
  /\ \A m \in Ups(mmxx, r) :
       IF m.prim \in Gone THEN ~Joined(conns, r)
       ELSE /\ Joined(conns, r) /\ TiOf(conns, r) = m.ti
            /\ m.prim = "EST_CNF" => ~Pend(conns, r)

OneWaits(conns) ==
  \A i, j \in DOMAIN conns : IsPending(conns[i]) /\ IsPending(conns[j]) => i = j
OwnIdentifiers(trans) ==
  \A r, q \in DOMAIN trans : r # q => trans[r].ti = NoTi \/ trans[r].ti # trans[q].ti
(* Of what tells of no end, MM queues one thing for a connection at most. *)
ToldOnce(mmxx) ==
  \A i, j \in DOMAIN mmxx :
    mmxx[i].prim \notin Gone /\ mmxx[j].prim \notin Gone /\ mmxx[i].ref = mmxx[j].ref => i = j

(* A transaction and the call of the user *)
Book(trans, calls, mncc, r) ==
  LET has == r \in DOMAIN trans
      In(states) == has /\ trans[r].state \in states
      told == Told(mncc, r)
      isOver == told \cap Over # {} IN
  /\ Listed(calls, r) => has \/ Young(calls, r) \/ isOver
  /\ Rings(calls, r) => In(RingStates) \/ isOver
  /\ Listed(calls, r) /\ In({"MM_CONNECTION_PEND"}) => Young(calls, r)
  /\ has => Listed(calls, r) \/ In({"NULL", "RELEASE_REQ"}) \/ ~(told \subseteq Over)
  /\ has /\ isOver => In({"NULL"}) /\ trans[r].ti = NoTi
  /\ In({"NULL"}) /\ trans[r].ti # NoTi => ~Listed(calls, r) /\ told = {}
  /\ In({"MM_CONNECTION_PEND"}) => told = {}
  /\ has => (In({"CALL_PRESENT"}) <=> "SETUP_IND" \in told)
  /\ In({"CALL_PRESENT"}) => told \subseteq {"SETUP_IND"}
  /\ ~has /\ Listed(calls, r) => isOver \/ told \subseteq {"DISC_IND"}

OneSetup(mncc) ==
  \A i, j \in DOMAIN mncc : mncc[i].prim = "SETUP_IND" /\ mncc[j].prim = "SETUP_IND" => i = j

Ties(s) ==
  /\ Distinct(s.conns) /\ OneWaits(s.conns) /\ OwnIdentifiers(s.trans) /\ ToldOnce(s.mmxx)
  /\ \A r \in Refs : Tie(s.trans, s.conns, s.mmxx, r)
Books(s) ==
  /\ Distinct(s.calls) /\ OneSetup(s.mncc)
  /\ \A r \in Refs : Book(s.trans, s.calls, s.mncc, r)

-----------------------------------------------------------------------------
(* Sequences, by their elements *)

(* Opaque, so that the lemmas below are applied by it. *)
Grown(v, q, e) == v = Append(q, e)

(* Append to a sequence, by positions. *)
LEMMA Appended ==
  ASSUME NEW S, NEW q \in Seq(S), NEW e \in S
  PROVE  /\ Append(q, e) \in Seq(S) /\ Len(q) \in Nat /\ DOMAIN q = 1..Len(q)
         /\ DOMAIN Append(q, e) = 1..Len(q) + 1
         /\ \A i \in 1..Len(q) : Append(q, e)[i] = q[i]
         /\ Append(q, e)[Len(q) + 1] = e
         /\ Len(Append(q, e)) = Len(q) + 1
  OBVIOUS

(* Head and tail of a sequence, by positions. *)
LEMMA Tailed ==
  ASSUME NEW S, NEW q \in Seq(S), q # <<>>
  PROVE  /\ Head(q) \in S /\ Head(q) = q[1] /\ Tail(q) \in Seq(S)
         /\ Len(q) \in Nat /\ Len(q) > 0 /\ DOMAIN q = 1..Len(q)
         /\ DOMAIN Tail(q) = 1..Len(q) - 1
         /\ \A i \in 1..Len(q) - 1 : Tail(q)[i] = q[i + 1]
         /\ Len(Tail(q)) = Len(q) - 1
  OBVIOUS

(* Two sequences joined, by positions. *)
LEMMA Concatenated ==
  ASSUME NEW S, NEW p \in Seq(S), NEW q \in Seq(S)
  PROVE  /\ p \o q \in Seq(S)
         /\ Len(p) \in Nat /\ Len(q) \in Nat
         /\ DOMAIN p = 1..Len(p) /\ DOMAIN q = 1..Len(q)
         /\ DOMAIN (p \o q) = 1..Len(p) + Len(q)
         /\ \A i \in 1..Len(p) : (p \o q)[i] = p[i]
         /\ \A i \in 1..Len(q) : (p \o q)[Len(p) + i] = q[i]
  OBVIOUS

(* A sequence without its element i, by positions. *)
LEMMA Removed ==
  ASSUME NEW S, NEW q \in Seq(S), NEW i \in DOMAIN q
  PROVE  /\ RemoveAt(q, i) \in Seq(S) /\ Len(q) \in Nat /\ i \in 1..Len(q)
         /\ DOMAIN q = 1..Len(q)
         /\ DOMAIN RemoveAt(q, i) = 1..Len(q) - 1
         /\ \A j \in 1..Len(q) - 1 : RemoveAt(q, i)[j] = IF j < i THEN q[j] ELSE q[j + 1]
<1>1. Len(q) \in Nat /\ DOMAIN q = 1..Len(q)
  OBVIOUS
<1> DEFINE a == SubSeq(q, 1, i - 1)
           b == SubSeq(q, i + 1, Len(q))
<1>2. a \in Seq(S) /\ Len(a) = i - 1 /\ \A j \in 1..i - 1 : a[j] = q[j]
  BY <1>1
<1>3. b \in Seq(S) /\ Len(b) = Len(q) - i /\ \A j \in 1..Len(q) - i : b[j] = q[i + j]
  BY <1>1
<1>4. RemoveAt(q, i) = a \o b
  BY DEF RemoveAt
<1> HIDE DEF a, b
<1>5. /\ a \o b \in Seq(S)
      /\ DOMAIN (a \o b) = 1..Len(a) + Len(b)
      /\ \A j \in 1..Len(a) : (a \o b)[j] = a[j]
      /\ \A j \in 1..Len(b) : (a \o b)[Len(a) + j] = b[j]
  <2>1. a \in Seq(S) /\ b \in Seq(S)
    BY <1>2, <1>3
  <2> QED
    BY <2>1, Concatenated
<1>6. ASSUME NEW j \in 1..Len(q) - 1
      PROVE  (a \o b)[j] = IF j < i THEN q[j] ELSE q[j + 1]
  <2>1. CASE j < i
    BY <1>1, <1>2, <1>5, <2>1
  <2>2. CASE ~(j < i)
    <3>1. j - (i - 1) \in 1..Len(q) - i /\ i \in Int /\ j \in Int
      BY <1>1, <2>2
    <3>2. (a \o b)[Len(a) + (j - (i - 1))] = b[j - (i - 1)]
      BY <1>3, <1>5, <3>1
    <3>3. Len(a) + (j - (i - 1)) = j /\ i + (j - (i - 1)) = j + 1
      BY <1>2, <3>1
    <3> QED
      BY <1>3, <2>2, <3>1, <3>2, <3>3
  <2> QED
    BY <2>1, <2>2
<1> QED
  BY <1>1, <1>2, <1>3, <1>4, <1>5, <1>6

-----------------------------------------------------------------------------
(* The queues to call control and to layer 4 *)

MmxxPrims == Gone \cup {"EST_CNF", "SYNC_IND"}
MnccPrims == Over \cup {"REJ_IND", "DISC_IND", "DISC_IND_8", "SETUP_IND", "CALL_PROC_IND", "ALERT_IND",
                       "SETUP_CNF", "SETUP_COMPL_IND", "MODIFY_IND", "HOLD_CNF", "RETRIEVE_CNF",
                       "OTHER_IND"}
MmxxMsg == [prim : MmxxPrims, ref : Refs, ti : Tis \cup {NoTi}]
MnccMsg == [prim : MnccPrims, ref : Refs]

(* mncc_recvmsg: what layer 4 is told of each reference when one more
   message is queued. *)
LEMMA ToldAppend ==
  ASSUME NEW mncc \in Seq(MnccMsg), NEW e \in MnccMsg, NEW v, Grown(v, mncc, e)
  PROVE  /\ v \in Seq(MnccMsg) /\ v # <<>>
         /\ \A q : Told(v, q) = IF q = e.ref THEN Told(mncc, q) \cup {e.prim} ELSE Told(mncc, q)
         /\ OneSetup(mncc) /\ e.prim # "SETUP_IND" => OneSetup(v)
         /\ (\A q \in Refs : "SETUP_IND" \notin Told(mncc, q)) => OneSetup(v)
<1> DEFINE n == Len(mncc)
           p == e.prim
           r == e.ref
<1>2. /\ v \in Seq(MnccMsg) /\ n \in Nat /\ DOMAIN mncc = 1..n
      /\ DOMAIN v = 1..n + 1 /\ v[n + 1] = e
      /\ \A i \in 1..n : v[i] = mncc[i]
  BY Appended DEF Grown
<1> HIDE DEF n
<1>3. ASSUME NEW q
      PROVE  Told(v, q) = IF q = r THEN Told(mncc, q) \cup {p} ELSE Told(mncc, q)
  <2>1. ASSUME NEW x PROVE x \in Told(v, q) <=> x \in Told(mncc, q) \/ (q = r /\ x = p)
    <3>1. x \in Told(v, q) <=> \E i \in 1..n + 1 : v[i].ref = q /\ x = v[i].prim
      BY <1>2 DEF Told
    <3>2. x \in Told(mncc, q) <=> \E i \in 1..n : mncc[i].ref = q /\ x = mncc[i].prim
      BY <1>2 DEF Told
    <3> QED
      BY <1>2, <3>1, <3>2
  <2> QED
    BY <2>1
<1>4. ASSUME NEW i \in 1..n
      PROVE  mncc[i].ref \in Refs /\ mncc[i].prim \in Told(mncc, mncc[i].ref)
  <2>1. mncc[i] \in MnccMsg
    BY <1>2
  <2>2. mncc[i].ref \in Refs
    BY <2>1 DEF MnccMsg
  <2> QED
    BY <1>2, <2>2 DEF Told
<1>5. v # <<>>
  BY <1>2
<1>6. OneSetup(mncc) /\ p # "SETUP_IND" => OneSetup(v)
  BY <1>2 DEF OneSetup
<1>7. (\A q \in Refs : "SETUP_IND" \notin Told(mncc, q)) => OneSetup(v)
  BY <1>2, <1>4 DEF OneSetup
<1> QED
  BY <1>2, <1>3, <1>5, <1>6, <1>7

(* What is left to tell layer 4 once the first message is taken. *)
LEMMA ToldTail ==
  ASSUME NEW mncc \in Seq(MnccMsg), mncc # <<>>, NEW m, m = Head(mncc)
  PROVE  /\ m \in MnccMsg /\ Tail(mncc) \in Seq(MnccMsg)
         /\ \A q : Told(mncc, q) = IF q = m.ref THEN Told(Tail(mncc), q) \cup {m.prim}
                                   ELSE Told(Tail(mncc), q)
         /\ OneSetup(mncc) =>
              /\ OneSetup(Tail(mncc))
              /\ m.prim = "SETUP_IND" => \A q : "SETUP_IND" \notin Told(Tail(mncc), q)
<1> DEFINE n == Len(mncc)
           v == Tail(mncc)
<1>1. /\ m \in MnccMsg /\ v \in Seq(MnccMsg) /\ n \in Nat /\ n > 0 /\ DOMAIN mncc = 1..n
      /\ m = mncc[1] /\ DOMAIN v = 1..n - 1
      /\ \A i \in 1..n - 1 : v[i] = mncc[i + 1]
  BY Tailed
<1> HIDE DEF n, v
<1>2. ASSUME NEW q
      PROVE  Told(mncc, q) = IF q = m.ref THEN Told(v, q) \cup {m.prim} ELSE Told(v, q)
  <2>1. ASSUME NEW x PROVE x \in Told(mncc, q) <=> x \in Told(v, q) \/ (q = m.ref /\ x = m.prim)
    <3>1. x \in Told(v, q) <=> \E i \in 1..n - 1 : v[i].ref = q /\ x = v[i].prim
      BY <1>1 DEF Told
    <3>2. x \in Told(mncc, q) <=> \E i \in 1..n : mncc[i].ref = q /\ x = mncc[i].prim
      BY <1>1 DEF Told
    <3>3. \A i \in 1..n : i = 1 \/ i - 1 \in 1..n - 1
      BY <1>1
    <3>4. \A i \in 1..n : i = 1 \/ mncc[i] = v[i - 1]
      BY <1>1, <3>3
    <3>5. \A i \in 1..n - 1 : i + 1 \in 1..n
      BY <1>1
    <3> QED
      BY <1>1, <3>1, <3>2, <3>3, <3>4, <3>5
  <2> QED
    BY <2>1
<1>3. ASSUME OneSetup(mncc) PROVE OneSetup(v)
  <2>1. \A i \in 1..n - 1 : i + 1 \in 1..n
    BY <1>1
  <2> SUFFICES ASSUME NEW i \in 1..n - 1, NEW j \in 1..n - 1,
                      v[i].prim = "SETUP_IND", v[j].prim = "SETUP_IND"
               PROVE  i = j
    BY <1>1 DEF OneSetup
  <2>2. i + 1 \in 1..n /\ j + 1 \in 1..n /\ v[i] = mncc[i + 1] /\ v[j] = mncc[j + 1]
    BY <1>1, <2>1
  <2>3. i + 1 = j + 1
    BY <1>1, <1>3, <2>2 DEF OneSetup
  <2> QED
    BY <1>1, <2>3
<1>4. ASSUME OneSetup(mncc), m.prim = "SETUP_IND", NEW q, "SETUP_IND" \in Told(v, q)
      PROVE  FALSE
  <2>1. PICK i \in 1..n - 1 : v[i].prim = "SETUP_IND"
    BY <1>1, <1>4 DEF Told
  <2>2. i + 1 \in 1..n /\ mncc[i + 1].prim = "SETUP_IND" /\ i + 1 # 1 /\ 1 \in 1..n
    BY <1>1, <2>1
  <2> QED
    BY <1>1, <1>4, <2>2 DEF OneSetup
<1> QED
  BY <1>1, <1>2, <1>3, <1>4 DEF v

Note(p, r, ti) == [prim |-> p, ref |-> r, ti |-> ti]

(* What a message of MM for call control is made of. *)
LEMMA NoteFields ==
  ASSUME NEW p \in MmxxPrims, NEW r \in Refs, NEW ti \in Tis \cup {NoTi}
  PROVE  /\ Note(p, r, ti) \in MmxxMsg
         /\ Note(p, r, ti).prim = p /\ Note(p, r, ti).ref = r /\ Note(p, r, ti).ti = ti
  BY DEF Note, MmxxMsg

(* What MM tells of each reference when one more message is queued. *)
LEMMA UpsAppend ==
  ASSUME NEW mmxx \in Seq(MmxxMsg), NEW e \in MmxxMsg, NEW v, Grown(v, mmxx, e)
  PROVE  /\ v \in Seq(MmxxMsg) /\ v # <<>>
         /\ \A q : Ups(v, q) = IF q = e.ref THEN Ups(mmxx, q) \cup {e} ELSE Ups(mmxx, q)
         /\ ToldOnce(mmxx) /\ e.prim \in Gone => ToldOnce(v)
         /\ (\A m \in Ups(mmxx, e.ref) : m.prim \in Gone) /\ ToldOnce(mmxx) => ToldOnce(v)
<1> DEFINE n == Len(mmxx)
           p == e.prim
           r == e.ref
<1>2. /\ v \in Seq(MmxxMsg) /\ n \in Nat /\ DOMAIN mmxx = 1..n
      /\ DOMAIN v = 1..n + 1 /\ v[n + 1] = e
      /\ \A i \in 1..n : v[i] = mmxx[i]
  BY Appended DEF Grown
<1> HIDE DEF n
<1>3. ASSUME NEW q
      PROVE  Ups(v, q) = IF q = r THEN Ups(mmxx, q) \cup {e} ELSE Ups(mmxx, q)
  <2>1. ASSUME NEW x PROVE x \in Ups(v, q) <=> x \in Ups(mmxx, q) \/ (q = r /\ x = e)
    <3>1. x \in Ups(v, q) <=> \E i \in 1..n + 1 : v[i].ref = q /\ x = v[i]
      BY <1>2 DEF Ups
    <3>2. x \in Ups(mmxx, q) <=> \E i \in 1..n : mmxx[i].ref = q /\ x = mmxx[i]
      BY <1>2 DEF Ups
    <3> QED
      BY <1>2, <3>1, <3>2
  <2> QED
    BY <2>1
<1>4. \A i \in 1..n : mmxx[i].ref = r => mmxx[i] \in Ups(mmxx, r)
  BY <1>2 DEF Ups
<1>5. v # <<>>
  BY <1>2
<1>6. ToldOnce(mmxx) /\ p \in Gone => ToldOnce(v)
  BY <1>2 DEF ToldOnce
<1>7. (\A m \in Ups(mmxx, r) : m.prim \in Gone) /\ ToldOnce(mmxx) => ToldOnce(v)
  BY <1>2, <1>4 DEF ToldOnce
<1> QED
  BY <1>2, <1>3, <1>5, <1>6, <1>7

(* What MM has left to tell once the first message is taken. *)
LEMMA UpsTail ==
  ASSUME NEW mmxx \in Seq(MmxxMsg), mmxx # <<>>, NEW m, m = Head(mmxx)
  PROVE  /\ m \in MmxxMsg /\ Tail(mmxx) \in Seq(MmxxMsg)
         /\ \A q : Ups(mmxx, q) = IF q = m.ref THEN Ups(Tail(mmxx), q) \cup {m}
                                  ELSE Ups(Tail(mmxx), q)
         /\ ToldOnce(mmxx) =>
              /\ ToldOnce(Tail(mmxx))
              /\ m.prim \notin Gone => \A x \in Ups(Tail(mmxx), m.ref) : x.prim \in Gone
<1> DEFINE n == Len(mmxx)
           v == Tail(mmxx)
<1>1. /\ m \in MmxxMsg /\ v \in Seq(MmxxMsg) /\ n \in Nat /\ n > 0 /\ DOMAIN mmxx = 1..n
      /\ m = mmxx[1] /\ DOMAIN v = 1..n - 1
      /\ \A i \in 1..n - 1 : v[i] = mmxx[i + 1]
  BY Tailed
<1> HIDE DEF n, v
<1>2. ASSUME NEW q
      PROVE  Ups(mmxx, q) = IF q = m.ref THEN Ups(v, q) \cup {m} ELSE Ups(v, q)
  <2>1. ASSUME NEW x PROVE x \in Ups(mmxx, q) <=> x \in Ups(v, q) \/ (q = m.ref /\ x = m)
    <3>1. x \in Ups(v, q) <=> \E i \in 1..n - 1 : v[i].ref = q /\ x = v[i]
      BY <1>1 DEF Ups
    <3>2. x \in Ups(mmxx, q) <=> \E i \in 1..n : mmxx[i].ref = q /\ x = mmxx[i]
      BY <1>1 DEF Ups
    <3>3. \A i \in 1..n : i = 1 \/ i - 1 \in 1..n - 1
      BY <1>1
    <3>4. \A i \in 1..n : i = 1 \/ mmxx[i] = v[i - 1]
      BY <1>1, <3>3
    <3>5. \A i \in 1..n - 1 : i + 1 \in 1..n
      BY <1>1
    <3> QED
      BY <1>1, <3>1, <3>2, <3>3, <3>4, <3>5
  <2> QED
    BY <2>1
<1>3. ASSUME ToldOnce(mmxx) PROVE ToldOnce(v)
  <2>1. \A i \in 1..n - 1 : i + 1 \in 1..n
    BY <1>1
  <2> SUFFICES ASSUME NEW i \in 1..n - 1, NEW j \in 1..n - 1,
                      v[i].prim \notin Gone, v[j].prim \notin Gone, v[i].ref = v[j].ref
               PROVE  i = j
    BY <1>1 DEF ToldOnce
  <2>2. i + 1 \in 1..n /\ j + 1 \in 1..n /\ v[i] = mmxx[i + 1] /\ v[j] = mmxx[j + 1]
    BY <1>1, <2>1
  <2>3. i + 1 = j + 1
    BY <1>1, <1>3, <2>2 DEF ToldOnce
  <2> QED
    BY <1>1, <2>3
<1>4. ASSUME ToldOnce(mmxx), m.prim \notin Gone, NEW x \in Ups(v, m.ref), x.prim \notin Gone
      PROVE  FALSE
  <2>1. PICK i \in 1..n - 1 : v[i].prim \notin Gone /\ v[i].ref = m.ref
    BY <1>1, <1>4 DEF Ups
  <2>2. i + 1 \in 1..n /\ i + 1 # 1 /\ 1 \in 1..n
    BY <1>1, <2>1
  <2> QED
    BY <1>1, <1>4, <2>1, <2>2 DEF ToldOnce
<1> QED
  BY <1>1, <1>2, <1>3, <1>4 DEF v

-----------------------------------------------------------------------------
(* Connections *)

(* A connection is what its reference says of it, as references are
   distinct. *)
LEMMA ConnIs ==
  ASSUME NEW conns \in Seq(Conn), Distinct(conns), NEW i \in DOMAIN conns
  PROVE  /\ conns[i] \in Conn /\ Joined(conns, conns[i].ref)
         /\ TiOf(conns, conns[i].ref) = conns[i].ti
         /\ Pend(conns, conns[i].ref) <=> conns[i].state = "CONN_PEND"
         /\ (CHOOSE j \in DOMAIN conns : conns[j].ref = conns[i].ref) = i
<1>1. conns[i] \in Conn
  OBVIOUS
<1>2. (CHOOSE j \in DOMAIN conns : conns[j].ref = conns[i].ref) = i
  BY DEF Distinct
<1> QED
  BY <1>1, <1>2 DEF Distinct, Joined, TiOf, Pend

(* A reference with a connection has a place in the list. *)
LEMMA JoinedAt ==
  ASSUME NEW conns \in Seq(Conn), Distinct(conns), NEW r, Joined(conns, r)
  PROVE  \E i \in DOMAIN conns : conns[i].ref = r
  BY DEF Joined

(* A connection that waits is a connection. *)
LEMMA PendJoined ==
  ASSUME NEW conns, NEW r, Pend(conns, r)
  PROVE  Joined(conns, r)
  BY DEF Pend, Joined

(* References and identifiers of connections are those of the phone. *)
LEMMA JoinedRefs ==
  ASSUME NEW conns \in Seq(Conn), NEW r, Joined(conns, r)
  PROVE  r \in Refs /\ TiOf(conns, r) \in Tis \cup {NoTi}
<1> DEFINE i == CHOOSE j \in DOMAIN conns : conns[j].ref = r
<1>1. i \in DOMAIN conns /\ conns[i].ref = r
  BY DEF Joined
<1> HIDE DEF i
<1>2. conns[i] \in Conn
  BY <1>1
<1>3. TiOf(conns, r) = conns[i].ti
  BY DEF i, TiOf
<1> QED
  BY <1>1, <1>2, <1>3 DEF Conn

(* The list of connections is empty when no reference has one. *)
LEMMA NoneJoined ==
  ASSUME NEW conns \in Seq(Conn)
  PROVE  conns = <<>> <=> \A r \in Refs : ~Joined(conns, r)
<1>1. CASE conns = <<>>
  BY <1>1 DEF Joined
<1>2. CASE conns # <<>>
  <2>1. 1 \in DOMAIN conns /\ conns[1] \in Conn
    BY <1>2
  <2> QED
    BY <1>2, <2>1 DEF Joined, Conn
<1> QED
  BY <1>1, <1>2

(* The connection that waits is the one MM finds when it looks for it. *)
LEMMA WaitsIs ==
  ASSUME NEW conns \in Seq(Conn), Distinct(conns), OneWaits(conns),
         NEW i \in DOMAIN conns, IsPending(conns[i])
  PROVE  /\ Pend(conns, conns[i].ref)
         /\ \A r : Pend(conns, r) => r = conns[i].ref
         /\ (CHOOSE j \in DOMAIN conns : IsPending(conns[j])) = i
<1>1. \A j \in DOMAIN conns : IsPending(conns[j]) => j = i
  BY DEF OneWaits
<1> QED
  BY <1>1 DEF Pend, IsPending

(* Opaque, as Grown is *)
Fronted(v, conns, c) == v = <<c>> \o conns
(* What is known of connections of which one has been added *)
ConnRows(v, conns, r, ti, state) ==
  /\ \A q : Joined(v, q) <=> q = r \/ Joined(conns, q)
  /\ \A q : Pend(v, q) <=> IF q = r THEN state = "CONN_PEND" ELSE Pend(conns, q)
  /\ \A q : Joined(v, q) => TiOf(v, q) = IF q = r THEN ti ELSE TiOf(conns, q)

(* mm_conn_new puts a connection in front; the others stay. *)
LEMMA ConnAdded ==
  ASSUME NEW conns \in Seq(Conn), Distinct(conns), NEW c \in Conn, ~Joined(conns, c.ref),
         NEW v, Fronted(v, conns, c)
  PROVE  /\ v \in Seq(Conn) /\ Distinct(v) /\ v # <<>>
         /\ ConnRows(v, conns, c.ref, c.ti, c.state)
         /\ OneWaits(conns) /\ c.state # "CONN_PEND" => OneWaits(v)
         /\ (\A q : ~Pend(conns, q)) => OneWaits(v)
<1>0. v = <<c>> \o conns
  BY DEF Fronted
<1> DEFINE n == Len(conns)
<1>1. /\ v \in Seq(Conn) /\ n \in Nat /\ DOMAIN conns = 1..n /\ DOMAIN v = 1..n + 1
      /\ v[1] = c /\ \A i \in 1..n : v[i + 1] = conns[i]
  <2>1. <<c>> \in Seq(Conn) /\ Len(<<c>>) = 1 /\ <<c>>[1] = c
    OBVIOUS
  <2>2. n \in Nat /\ DOMAIN conns = 1..n
    OBVIOUS
  <2>3. /\ v \in Seq(Conn) /\ DOMAIN v = 1..1 + n
        /\ \A i \in 1..1 : v[i] = <<c>>[i]
        /\ \A i \in 1..n : v[1 + i] = conns[i]
    BY <1>0, <2>1, Concatenated
  <2> HIDE DEF n
  <2> QED
    BY <2>1, <2>2, <2>3
<1> HIDE DEF n
<1>2. 1 \in DOMAIN v /\ v[1] = c
  BY <1>1
<1>3. \A i \in DOMAIN v : i = 1 \/ (i - 1 \in DOMAIN conns /\ v[i] = conns[i - 1])
  <2> TAKE i \in DOMAIN v
  <2>1. i = 1 \/ (i - 1 \in 1..n /\ (i - 1) + 1 = i)
    BY <1>1
  <2> QED
    BY <1>1, <2>1
<1>4. \A i \in DOMAIN conns :
        i + 1 \in DOMAIN v /\ i + 1 # 1 /\ v[i + 1] = conns[i] /\ conns[i].ref # c.ref
  BY <1>1 DEF Joined
<1>5. Distinct(v)
  <2> SUFFICES ASSUME NEW i \in DOMAIN v, NEW j \in DOMAIN v, v[i].ref = v[j].ref
               PROVE  i = j
    BY DEF Distinct
  <2>1. CASE i = 1 \/ j = 1
    BY <1>2, <1>3, <1>4, <2>1
  <2>2. CASE i # 1 /\ j # 1
    <3>1. i - 1 \in DOMAIN conns /\ j - 1 \in DOMAIN conns /\ conns[i - 1].ref = conns[j - 1].ref
      BY <1>3, <2>2
    <3>2. i - 1 = j - 1
      BY <3>1 DEF Distinct
    <3> QED
      BY <1>1, <3>2
  <2> QED
    BY <2>1, <2>2
<1>6. \A q : Joined(v, q) <=> q = c.ref \/ Joined(conns, q)
  <2>1. \A q : Joined(v, q) => q = c.ref \/ Joined(conns, q)
    BY <1>2, <1>3 DEF Joined
  <2>2. \A q : Joined(conns, q) => Joined(v, q)
    BY <1>4 DEF Joined
  <2>3. Joined(v, c.ref)
    BY <1>2 DEF Joined
  <2> QED
    BY <2>1, <2>2, <2>3
<1>7. \A q : Pend(v, q) <=> IF q = c.ref THEN c.state = "CONN_PEND" ELSE Pend(conns, q)
  <2>1. \A q : Pend(v, q) /\ q # c.ref => Pend(conns, q)
    BY <1>2, <1>3 DEF Pend
  <2>2. \A q : Pend(conns, q) => Pend(v, q)
    BY <1>4 DEF Pend
  <2>3. Pend(v, c.ref) <=> c.state = "CONN_PEND"
    BY <1>2, <1>3, <1>4 DEF Pend
  <2> QED
    BY <2>1, <2>2, <2>3
<1>8. ASSUME NEW q, Joined(v, q)
      PROVE  TiOf(v, q) = IF q = c.ref THEN c.ti ELSE TiOf(conns, q)
  <2>1. PICK i \in DOMAIN v : v[i].ref = q
    BY <1>8 DEF Joined
  <2>2. TiOf(v, v[i].ref) = v[i].ti
    BY <1>1, <1>5, ConnIs
  <2>3. CASE i = 1
    BY <1>2, <2>1, <2>2, <2>3
  <2>4. CASE i # 1
    <3>1. i - 1 \in DOMAIN conns /\ v[i] = conns[i - 1] /\ v[i].ref # c.ref
      BY <1>3, <1>4, <2>4
    <3>2. TiOf(conns, conns[i - 1].ref) = conns[i - 1].ti
      BY <3>1, ConnIs
    <3> QED
      BY <2>1, <2>2, <3>1, <3>2
  <2> QED
    BY <2>3, <2>4
<1>9. ASSUME OneWaits(conns), c.state # "CONN_PEND" PROVE OneWaits(v)
  <2> SUFFICES ASSUME NEW i \in DOMAIN v, NEW j \in DOMAIN v, IsPending(v[i]), IsPending(v[j])
               PROVE  i = j
    BY DEF OneWaits
  <2>1. i # 1 /\ j # 1
    BY <1>2, <1>9 DEF IsPending
  <2>2. /\ i - 1 \in DOMAIN conns /\ IsPending(conns[i - 1])
        /\ j - 1 \in DOMAIN conns /\ IsPending(conns[j - 1])
    BY <1>3, <2>1
  <2>3. i - 1 = j - 1
    BY <1>9, <2>2 DEF OneWaits
  <2> QED
    BY <1>1, <2>3
<1>10. ASSUME \A q : ~Pend(conns, q) PROVE OneWaits(v)
  <2>1. \A i \in DOMAIN conns : ~IsPending(conns[i])
    BY <1>10 DEF Pend, IsPending
  <2> QED
    BY <1>3, <2>1 DEF OneWaits
<1>11. v # <<>>
  BY <1>1
<1>12. ConnRows(v, conns, c.ref, c.ti, c.state)
  BY <1>6, <1>7, <1>8 DEF ConnRows
<1> QED
  BY <1>1, <1>5, <1>9, <1>10, <1>11, <1>12

(* A connection taken out of the list; the others keep theirs. *)
LEMMA ConnRemoved ==
  ASSUME NEW conns \in Seq(Conn), Distinct(conns), NEW i \in DOMAIN conns,
         NEW v, v = RemoveAt(conns, i)
  PROVE  /\ v \in Seq(Conn) /\ Distinct(v)
         /\ \A q : Joined(v, q) <=> q # conns[i].ref /\ Joined(conns, q)
         /\ \A q : Pend(v, q) <=> q # conns[i].ref /\ Pend(conns, q)
         /\ \A q : Joined(v, q) => TiOf(v, q) = TiOf(conns, q)
         /\ OneWaits(conns) => OneWaits(v)
<1> DEFINE n == Len(conns)
           old(j) == IF j < i THEN j ELSE j + 1
<1>1. /\ v \in Seq(Conn) /\ n \in Nat /\ i \in 1..n /\ DOMAIN conns = 1..n
      /\ DOMAIN v = 1..n - 1
      /\ \A j \in 1..n - 1 : v[j] = IF j < i THEN conns[j] ELSE conns[j + 1]
  BY Removed
<1> HIDE DEF n
<1>2. \A j \in 1..n - 1 : old(j) \in 1..n /\ old(j) # i /\ v[j] = conns[old(j)]
  BY <1>1
<1>3. \A k \in 1..n : k = i \/ \E j \in 1..n - 1 : old(j) = k
  <2> TAKE k \in 1..n
  <2>1. CASE k < i
    <3>1. k \in 1..n - 1 /\ old(k) = k
      BY <1>1, <2>1
    <3> QED
      BY <3>1
  <2>2. CASE k > i
    <3>1. k - 1 \in 1..n - 1 /\ old(k - 1) = k
      BY <1>1, <2>2
    <3> QED
      BY <3>1
  <2> QED
    BY <1>1, <2>1, <2>2
<1>4. \A j, k \in 1..n - 1 : old(j) = old(k) => j = k
  BY <1>1
<1> HIDE DEF old
<1>5. /\ \A j \in DOMAIN v :
           old(j) \in DOMAIN conns /\ v[j] = conns[old(j)] /\ conns[old(j)].ref # conns[i].ref
      /\ \A k \in DOMAIN conns : k = i \/ \E j \in DOMAIN v : v[j] = conns[k]
  <2>1. \A k \in DOMAIN conns : k # i => conns[k].ref # conns[i].ref
    BY DEF Distinct
  <2>2. ASSUME NEW j \in DOMAIN v
        PROVE  old(j) \in DOMAIN conns /\ v[j] = conns[old(j)] /\ old(j) # i
    BY <1>1, <1>2
  <2>3. ASSUME NEW k \in DOMAIN conns, k # i
        PROVE  \E j \in DOMAIN v : v[j] = conns[k]
    <3>1. PICK j \in 1..n - 1 : old(j) = k
      BY <1>1, <1>3, <2>3
    <3> QED
      BY <1>1, <1>2, <3>1
  <2> QED
    BY <2>1, <2>2, <2>3
<1>6. Distinct(v)
  BY <1>1, <1>2, <1>4 DEF Distinct
<1>7. OneWaits(conns) => OneWaits(v)
  BY <1>1, <1>2, <1>4 DEF OneWaits
<1>8. \A q : Joined(v, q) <=> q # conns[i].ref /\ Joined(conns, q)
  BY <1>5 DEF Joined
<1>9. \A q : Pend(v, q) <=> q # conns[i].ref /\ Pend(conns, q)
  BY <1>5 DEF Pend
<1>10. ASSUME NEW q, Joined(v, q) PROVE TiOf(v, q) = TiOf(conns, q)
  <2>1. PICK j \in DOMAIN v : v[j].ref = q
    BY <1>10 DEF Joined
  <2>2. TiOf(v, v[j].ref) = v[j].ti
    BY <1>1, <1>6, ConnIs
  <2>3. old(j) \in DOMAIN conns /\ v[j] = conns[old(j)]
    BY <1>5
  <2>4. TiOf(conns, conns[old(j)].ref) = conns[old(j)].ti
    BY <2>3, ConnIs
  <2> QED
    BY <2>1, <2>2, <2>3, <2>4
<1> QED
  BY <1>1, <1>6, <1>7, <1>8, <1>9, <1>10

(* Opaque, as Grown is *)
Opens(v, conns, i) == v = [conns EXCEPT ![i].state = "DEDICATED"]

(* The connection that waited is opened; none waits any more. *)
LEMMA ConnOpened ==
  ASSUME NEW conns \in Seq(Conn), Distinct(conns), OneWaits(conns), NEW i \in DOMAIN conns,
         IsPending(conns[i]),
         NEW v, Opens(v, conns, i)
  PROVE  /\ v \in Seq(Conn) /\ Distinct(v) /\ OneWaits(v) /\ v # <<>>
         /\ \A q : Joined(v, q) <=> Joined(conns, q)
         /\ \A q : ~Pend(v, q)
         /\ \A q : Joined(v, q) => TiOf(v, q) = TiOf(conns, q)
<1> DEFINE n == Len(conns)
<1>1. n \in Nat /\ DOMAIN conns = 1..n /\ i \in 1..n /\ \A j \in 1..n : conns[j] \in Conn
  OBVIOUS
<1>2. DOMAIN v = 1..n
  BY <1>1 DEF Opens
<1> HIDE DEF n
<1>3. ASSUME NEW j \in 1..n
      PROVE  /\ v[j] \in Conn /\ v[j].ref = conns[j].ref /\ v[j].ti = conns[j].ti
             /\ v[j].state # "CONN_PEND"
  <2>1. v[j] = IF j = i THEN [conns[j] EXCEPT !.state = "DEDICATED"] ELSE conns[j]
    BY <1>1 DEF Opens
  <2>2. conns[j] \in Conn
    BY <1>1
  <2>3. j # i => conns[j].state # "CONN_PEND"
    BY <1>1 DEF OneWaits, IsPending
  <2> QED
    BY <2>1, <2>2, <2>3 DEF Conn
<1>4. v \in Seq(Conn)
  <2>1. v = [j \in 1..n |-> v[j]]
    BY <1>1 DEF Opens
  <2>2. v \in [1..n -> Conn]
    BY <1>3, <2>1
  <2> QED
    BY <1>1, <2>2
<1>5. Distinct(v) /\ OneWaits(v)
  BY <1>1, <1>2, <1>3 DEF Distinct, OneWaits, IsPending
<1>6. \A q : (Joined(v, q) <=> Joined(conns, q)) /\ ~Pend(v, q)
  BY <1>1, <1>2, <1>3 DEF Joined, Pend
<1>7. ASSUME NEW q, Joined(v, q) PROVE TiOf(v, q) = TiOf(conns, q)
  <2>1. PICK j \in 1..n : v[j].ref = q
    BY <1>2, <1>7 DEF Joined
  <2>2. TiOf(v, v[j].ref) = v[j].ti
    BY <1>2, <1>4, <1>5, ConnIs
  <2>3. TiOf(conns, conns[j].ref) = conns[j].ti
    BY <1>1, ConnIs
  <2> QED
    BY <1>3, <2>1, <2>2, <2>3
<1>8. v # <<>>
  BY <1>1, <1>2
<1> QED
  BY <1>4, <1>5, <1>6, <1>7, <1>8

(* gsm48_mm_release_mm_conn: all connections are told of. *)
AllUp(v, mmxx, p, conns) == v = mmxx \o [i \in DOMAIN conns |-> UpMsg(p, conns[i])]

(* MM tells the same of every connection (gsm48_mm_release_mm_conn,
   SYNC_IND). *)
LEMMA UpsAll ==
  ASSUME NEW conns \in Seq(Conn), Distinct(conns), NEW mmxx \in Seq(MmxxMsg), NEW p \in MmxxPrims,
         NEW v, AllUp(v, mmxx, p, conns)
  PROVE  /\ v \in Seq(MmxxMsg)
         /\ \A q : Ups(v, q) = IF Joined(conns, q)
                               THEN Ups(mmxx, q) \cup {Note(p, q, TiOf(conns, q))}
                               ELSE Ups(mmxx, q)
         /\ ToldOnce(mmxx) /\ p \in Gone => ToldOnce(v)
         /\ (\A q \in Refs : \A m \in Ups(mmxx, q) : m.prim \in Gone) => ToldOnce(v)
<1> DEFINE n == Len(mmxx)
           k == Len(conns)
           w == [i \in DOMAIN conns |-> UpMsg(p, conns[i])]
<1>1. k \in Nat /\ DOMAIN conns = 1..k
  OBVIOUS
<1>2. ASSUME NEW i \in 1..k
      PROVE  /\ w[i] \in MmxxMsg /\ w[i].prim = p /\ w[i].ref = conns[i].ref
             /\ w[i].ti = conns[i].ti
             /\ w[i] = Note(p, conns[i].ref, conns[i].ti)
  <2>1. w[i] = Note(p, conns[i].ref, conns[i].ti)
    BY <1>1 DEF UpMsg, Note
  <2>2. conns[i].ref \in Refs /\ conns[i].ti \in Tis \cup {NoTi}
    <3>1. conns[i] \in Conn
      BY <1>1
    <3> QED
      BY <3>1 DEF Conn
  <2> QED
    BY <2>1, <2>2, NoteFields
<1>3. w \in Seq(MmxxMsg) /\ Len(w) = k
  <2>1. w = [i \in 1..k |-> w[i]]
    BY <1>1
  <2>2. w \in [1..k -> MmxxMsg]
    BY <1>2, <2>1
  <2> QED
    BY <1>1, <2>2
<1>4. v = mmxx \o w
  BY DEF AllUp
<1> HIDE DEF n, k, w
<1>5. /\ v \in Seq(MmxxMsg) /\ n \in Nat /\ DOMAIN mmxx = 1..n
      /\ DOMAIN v = 1..n + k
      /\ \A i \in 1..n : v[i] = mmxx[i]
      /\ \A i \in 1..k : v[n + i] = w[i]
  <2>1. w \in Seq(MmxxMsg)
    BY <1>3
  <2>2. /\ mmxx \o w \in Seq(MmxxMsg) /\ Len(mmxx) \in Nat /\ DOMAIN mmxx = 1..Len(mmxx)
        /\ DOMAIN (mmxx \o w) = 1..Len(mmxx) + Len(w)
        /\ \A i \in 1..Len(mmxx) : (mmxx \o w)[i] = mmxx[i]
        /\ \A i \in 1..Len(w) : (mmxx \o w)[Len(mmxx) + i] = w[i]
    BY <2>1, Concatenated
  <2> QED
    BY <1>3, <1>4, <2>2 DEF n
<1>6. \A i \in DOMAIN v : \/ i \in DOMAIN mmxx /\ v[i] = mmxx[i]
                          \/ i - n \in DOMAIN conns /\ v[i] = w[i - n]
  <2> TAKE i \in DOMAIN v
  <2>1. i \in 1..n \/ (i - n \in 1..k /\ n + (i - n) = i)
    <3>1. i \in 1..n + k /\ n \in Nat /\ k \in Nat
      BY <1>1, <1>5
    <3> QED
      BY <3>1
  <2>2. CASE i \in 1..n
    BY <1>5, <2>2
  <2>3. CASE i - n \in 1..k /\ n + (i - n) = i
    <3>1. v[n + (i - n)] = w[i - n]
      BY <1>5, <2>3
    <3> QED
      BY <1>1, <2>3, <3>1
  <2> QED
    BY <2>1, <2>2, <2>3
<1>7. /\ \A i \in DOMAIN mmxx : i \in DOMAIN v /\ v[i] = mmxx[i]
      /\ \A i \in DOMAIN conns : n + i \in DOMAIN v /\ v[n + i] = w[i]
  <2>1. \A i \in 1..n : i \in 1..n + k
    BY <1>1, <1>5
  <2>2. \A i \in 1..k : n + i \in 1..n + k
    BY <1>1, <1>5
  <2> QED
    BY <1>1, <1>5, <2>1, <2>2
<1>8. ASSUME NEW i \in DOMAIN conns
      PROVE  w[i] = Note(p, conns[i].ref, TiOf(conns, conns[i].ref))
  BY <1>1, <1>2, ConnIs
<1>9. ASSUME NEW q
      PROVE  Ups(v, q) = IF Joined(conns, q)
                         THEN Ups(mmxx, q) \cup {Note(p, q, TiOf(conns, q))}
                         ELSE Ups(mmxx, q)
  <2>1. ASSUME NEW x
        PROVE  x \in Ups(v, q) <=> \/ x \in Ups(mmxx, q)
                                   \/ Joined(conns, q) /\ x = Note(p, q, TiOf(conns, q))
    <3>1. x \in Ups(v, q) <=> \E i \in DOMAIN v : v[i].ref = q /\ x = v[i]
      BY DEF Ups
    <3>2. x \in Ups(mmxx, q) <=> \E i \in DOMAIN mmxx : mmxx[i].ref = q /\ x = mmxx[i]
      BY DEF Ups
    <3>3. ASSUME NEW i \in DOMAIN conns, conns[i].ref = q
          PROVE  w[i] = Note(p, q, TiOf(conns, q)) /\ w[i].ref = q
      BY <1>1, <1>2, <1>8, <3>3
    <3>4. Joined(conns, q) <=> \E i \in DOMAIN conns : conns[i].ref = q
      BY DEF Joined
    <3>5. \A i \in DOMAIN conns : w[i].ref = conns[i].ref
      BY <1>1, <1>2
    <3>6. ASSUME x \in Ups(v, q)
          PROVE  x \in Ups(mmxx, q) \/ (Joined(conns, q) /\ x = Note(p, q, TiOf(conns, q)))
      <4>1. PICK i \in DOMAIN v : v[i].ref = q /\ x = v[i]
        BY <3>1, <3>6
      <4>2. CASE i \in DOMAIN mmxx /\ v[i] = mmxx[i]
        BY <3>2, <4>1, <4>2
      <4>3. CASE i - n \in DOMAIN conns /\ v[i] = w[i - n]
        <5>1. conns[i - n].ref = q
          BY <3>5, <4>1, <4>3
        <5> QED
          BY <3>3, <3>4, <4>1, <4>3, <5>1
      <4> QED
        BY <1>6, <4>2, <4>3
    <3>7. x \in Ups(mmxx, q) => x \in Ups(v, q)
      BY <1>7, <3>1, <3>2
    <3>8. ASSUME Joined(conns, q), x = Note(p, q, TiOf(conns, q))
          PROVE  x \in Ups(v, q)
      <4>1. PICK i \in DOMAIN conns : conns[i].ref = q
        BY <3>4, <3>8
      <4>2. n + i \in DOMAIN v /\ v[n + i] = x /\ v[n + i].ref = q
        BY <1>7, <3>3, <3>8, <4>1
      <4> QED
        BY <3>1, <4>2
    <3> QED
      BY <3>6, <3>7, <3>8
  <2> QED
    BY <2>1
<1>10. \A i \in DOMAIN conns : w[i].prim = p /\ w[i].ref = conns[i].ref
  BY <1>1, <1>2
<1>11. ASSUME ToldOnce(mmxx), p \in Gone PROVE ToldOnce(v)
  <2>1. \A i \in DOMAIN v : v[i].prim \notin Gone => i \in DOMAIN mmxx /\ v[i] = mmxx[i]
    BY <1>6, <1>10, <1>11
  <2> SUFFICES ASSUME NEW i \in DOMAIN v, NEW j \in DOMAIN v,
                      v[i].prim \notin Gone, v[j].prim \notin Gone, v[i].ref = v[j].ref
               PROVE  i = j
    BY DEF ToldOnce
  <2>2. /\ i \in DOMAIN mmxx /\ v[i] = mmxx[i]
        /\ j \in DOMAIN mmxx /\ v[j] = mmxx[j]
    BY <2>1
  <2> QED
    BY <1>11, <2>2 DEF ToldOnce
<1>12. ASSUME \A q \in Refs : \A m \in Ups(mmxx, q) : m.prim \in Gone
       PROVE  ToldOnce(v)
  <2>1. ASSUME NEW i \in DOMAIN mmxx PROVE mmxx[i].prim \in Gone
    <3>1. mmxx[i] \in Ups(mmxx, mmxx[i].ref) /\ mmxx[i].ref \in Refs
      <4>1. mmxx[i] \in MmxxMsg
        OBVIOUS
      <4>2. mmxx[i].ref \in Refs
        BY <4>1 DEF MmxxMsg
      <4> QED
        BY <4>2 DEF Ups
    <3> QED
      BY <1>12, <3>1
  <2> SUFFICES ASSUME NEW i \in DOMAIN v, NEW j \in DOMAIN v,
                      v[i].prim \notin Gone, v[j].prim \notin Gone, v[i].ref = v[j].ref
               PROVE  i = j
    BY DEF ToldOnce
  <2>2. /\ i - n \in DOMAIN conns /\ v[i] = w[i - n]
        /\ j - n \in DOMAIN conns /\ v[j] = w[j - n]
    BY <1>6, <2>1
  <2>3. i - n = j - n
    BY <1>10, <2>2 DEF Distinct
  <2> QED
    BY <1>1, <1>5, <2>3
<1> QED
  BY <1>5, <1>9, <1>11, <1>12

-----------------------------------------------------------------------------
(* The calls of the user *)

(* A call appended to the list of the user, by references. *)
LEMMA CallAdded ==
  ASSUME NEW calls \in Seq(Call), Distinct(calls), NEW c \in Call, ~Listed(calls, c.ref),
         NEW v, v = Append(calls, c)
  PROVE  /\ v \in Seq(Call) /\ Distinct(v)
         /\ \A q : Listed(v, q) <=> Listed(calls, q) \/ q = c.ref
         /\ \A q : Young(v, q) <=> Young(calls, q) \/ (q = c.ref /\ c.init)
         /\ \A q : Rings(v, q) <=> Rings(calls, q) \/ (q = c.ref /\ c.ring)
<1> DEFINE n == Len(calls)
<1>1. /\ v \in Seq(Call) /\ n \in Nat /\ DOMAIN calls = 1..n
      /\ DOMAIN v = 1..n + 1 /\ v[n + 1] = c
      /\ \A i \in 1..n : v[i] = calls[i]
  BY Appended
<1> HIDE DEF n
<1>2. /\ n + 1 \in DOMAIN v
      /\ \A i \in DOMAIN v : i = n + 1 \/ (i \in DOMAIN calls /\ v[i] = calls[i])
      /\ \A i \in DOMAIN calls : i \in DOMAIN v /\ v[i] = calls[i] /\ calls[i].ref # c.ref
  BY <1>1 DEF Listed
<1>3. Distinct(v)
  BY <1>1, <1>2 DEF Distinct
<1>4. \A q : Listed(v, q) <=> Listed(calls, q) \/ q = c.ref
  BY <1>1, <1>2 DEF Listed
<1>5. \A q : Young(v, q) <=> Young(calls, q) \/ (q = c.ref /\ c.init)
  BY <1>1, <1>2 DEF Young
<1>6. \A q : Rings(v, q) <=> Rings(calls, q) \/ (q = c.ref /\ c.ring)
  BY <1>1, <1>2 DEF Rings
<1> QED
  BY <1>1, <1>3, <1>4, <1>5, <1>6

(* A call taken out of the list of the user, by references. *)
LEMMA CallRemoved ==
  ASSUME NEW calls \in Seq(Call), Distinct(calls), NEW i \in DOMAIN calls,
         NEW v, v = RemoveAt(calls, i)
  PROVE  /\ v \in Seq(Call) /\ Distinct(v)
         /\ \A q : Listed(v, q) <=> q # calls[i].ref /\ Listed(calls, q)
         /\ \A q : Young(v, q) <=> q # calls[i].ref /\ Young(calls, q)
         /\ \A q : Rings(v, q) <=> q # calls[i].ref /\ Rings(calls, q)
<1> DEFINE n == Len(calls)
           old(j) == IF j < i THEN j ELSE j + 1
<1>1. /\ v \in Seq(Call) /\ n \in Nat /\ i \in 1..n /\ DOMAIN calls = 1..n
      /\ DOMAIN v = 1..n - 1
      /\ \A j \in 1..n - 1 : v[j] = IF j < i THEN calls[j] ELSE calls[j + 1]
  BY Removed
<1> HIDE DEF n
<1>2. \A j \in 1..n - 1 : old(j) \in 1..n /\ old(j) # i /\ v[j] = calls[old(j)]
  BY <1>1
<1>3. \A k \in 1..n : k = i \/ \E j \in 1..n - 1 : old(j) = k
  <2> TAKE k \in 1..n
  <2>1. CASE k < i
    <3>1. k \in 1..n - 1 /\ old(k) = k
      BY <1>1, <2>1
    <3> QED
      BY <3>1
  <2>2. CASE k > i
    <3>1. k - 1 \in 1..n - 1 /\ old(k - 1) = k
      BY <1>1, <2>2
    <3> QED
      BY <3>1
  <2> QED
    BY <1>1, <2>1, <2>2
<1>4. \A j, k \in 1..n - 1 : old(j) = old(k) => j = k
  BY <1>1
<1> HIDE DEF old
<1>5. /\ \A j \in DOMAIN v :
           old(j) \in DOMAIN calls /\ v[j] = calls[old(j)] /\ calls[old(j)].ref # calls[i].ref
      /\ \A k \in DOMAIN calls : k = i \/ \E j \in DOMAIN v : v[j] = calls[k]
  <2>1. \A k \in DOMAIN calls : k # i => calls[k].ref # calls[i].ref
    BY DEF Distinct
  <2>2. ASSUME NEW j \in DOMAIN v
        PROVE  old(j) \in DOMAIN calls /\ v[j] = calls[old(j)] /\ old(j) # i
    BY <1>1, <1>2
  <2>3. ASSUME NEW k \in DOMAIN calls, k # i
        PROVE  \E j \in DOMAIN v : v[j] = calls[k]
    <3>1. PICK j \in 1..n - 1 : old(j) = k
      BY <1>1, <1>3, <2>3
    <3> QED
      BY <1>1, <1>2, <3>1
  <2> QED
    BY <2>1, <2>2, <2>3
<1>6. Distinct(v)
  BY <1>1, <1>2, <1>4 DEF Distinct
<1>7. \A q : Listed(v, q) <=> q # calls[i].ref /\ Listed(calls, q)
  BY <1>5 DEF Listed
<1>8. \A q : Young(v, q) <=> q # calls[i].ref /\ Young(calls, q)
  BY <1>5 DEF Young
<1>9. \A q : Rings(v, q) <=> q # calls[i].ref /\ Rings(calls, q)
  BY <1>5 DEF Rings
<1> QED
  BY <1>1, <1>6, <1>7, <1>8, <1>9

(* Opaque, as Grown is *)
Marked(v, calls, r, field, way) ==
  v = [i \in DOMAIN calls |->
         IF calls[i].ref = r THEN [calls[i] EXCEPT ![field] = way = "on"] ELSE calls[i]]

(* What a marked list says of each call *)
MarkedRows(v, calls, r, field, way) ==
  /\ \A q : Listed(v, q) <=> Listed(calls, q)
  /\ \A q : Young(v, q) <=> IF q = r /\ field = "init" THEN Listed(calls, q) /\ way = "on"
                            ELSE Young(calls, q)
  /\ \A q : Rings(v, q) <=> IF q = r /\ field = "ring" THEN Listed(calls, q) /\ way = "on"
                            ELSE Rings(calls, q)

(* A flag of one call set or reset, by references. *)
LEMMA CallMarked ==
  ASSUME NEW calls \in Seq(Call), Distinct(calls), NEW r, NEW way \in {"on", "off"},
         NEW field \in {"init", "hold", "ring"}, NEW v, Marked(v, calls, r, field, way)
  PROVE  /\ v \in Seq(Call) /\ Distinct(v)
         /\ MarkedRows(v, calls, r, field, way)
         /\ v = <<>> <=> calls = <<>>
<1> DEFINE n == Len(calls)
<1>1. n \in Nat /\ DOMAIN calls = 1..n /\ \A i \in 1..n : calls[i] \in Call
  OBVIOUS
<1>2. DOMAIN v = 1..n
  BY <1>1 DEF Marked
<1> HIDE DEF n
<1>3. ASSUME NEW i \in 1..n
      PROVE  /\ v[i] \in Call /\ v[i].ref = calls[i].ref
             /\ v[i].init = IF calls[i].ref = r /\ field = "init" THEN way = "on" ELSE calls[i].init
             /\ v[i].ring = IF calls[i].ref = r /\ field = "ring" THEN way = "on" ELSE calls[i].ring
  <2>1. v[i] = IF calls[i].ref = r THEN [calls[i] EXCEPT ![field] = way = "on"] ELSE calls[i]
    BY <1>1 DEF Marked
  <2>2. calls[i] \in Call
    BY <1>1
  <2>3. CASE field = "init"
    <3>1. v[i] = IF calls[i].ref = r THEN [calls[i] EXCEPT !.init = way = "on"] ELSE calls[i]
      BY <2>1, <2>3
    <3> QED
      BY <2>2, <2>3, <3>1 DEF Call
  <2>4. CASE field = "hold"
    <3>1. v[i] = IF calls[i].ref = r THEN [calls[i] EXCEPT !.hold = way = "on"] ELSE calls[i]
      BY <2>1, <2>4
    <3> QED
      BY <2>2, <2>4, <3>1 DEF Call
  <2>5. CASE field = "ring"
    <3>1. v[i] = IF calls[i].ref = r THEN [calls[i] EXCEPT !.ring = way = "on"] ELSE calls[i]
      BY <2>1, <2>5
    <3> QED
      BY <2>2, <2>5, <3>1 DEF Call
  <2> QED
    BY <2>3, <2>4, <2>5
<1>4. v \in Seq(Call)
  <2>1. v = [i \in 1..n |-> v[i]]
    BY <1>1 DEF Marked
  <2>2. v \in [1..n -> Call]
    BY <1>3, <2>1
  <2> QED
    BY <1>1, <2>2
<1>5. Distinct(v)
  BY <1>1, <1>2, <1>3 DEF Distinct
<1>6. \A q : Listed(v, q) <=> Listed(calls, q)
  BY <1>1, <1>2, <1>3 DEF Listed
<1>7. \A q : Young(v, q) <=> IF q = r /\ field = "init" THEN Listed(calls, q) /\ way = "on"
                             ELSE Young(calls, q)
  BY <1>1, <1>2, <1>3 DEF Listed, Young
<1>8. \A q : Rings(v, q) <=> IF q = r /\ field = "ring" THEN Listed(calls, q) /\ way = "on"
                             ELSE Rings(calls, q)
  BY <1>1, <1>2, <1>3 DEF Listed, Rings
<1>9. v = <<>> <=> calls = <<>>
  BY <1>1, <1>2
<1> QED
  BY <1>4, <1>5, <1>6, <1>7, <1>8, <1>9 DEF MarkedRows

(* What is known of a call implies that it is in the list. *)
LEMMA CallParts ==
  ASSUME NEW calls \in Seq(Call), NEW r
  PROVE  /\ Young(calls, r) \/ Rings(calls, r) => Listed(calls, r)
         /\ Listed(calls, r) => r \in Refs
<1>1. \A i \in DOMAIN calls : calls[i].ref \in Refs
  <2> TAKE i \in DOMAIN calls
  <2>1. calls[i] \in Call
    OBVIOUS
  <2> QED
    BY <2>1 DEF Call
<1> QED
  BY <1>1 DEF Young, Rings, Listed

-----------------------------------------------------------------------------
(* Types. *)

RslTypes == RrMsgs \cup CcMsgs
            \cup {"CM_SERV_ACC", "CM_SERV_REJ", "CM_SERV_REJ_ANY", "MM_ABORT", "MM_ABORT_ILLEGAL"}
UpTypes == Loss \cup CcMsgs \cup {"EST_CNF", "EST_IND", "SYNC_IND"}
           \cup {"CM_SERV_ACC", "CM_SERV_REJ", "CM_SERV_REJ_ANY", "MM_ABORT", "MM_ABORT_ILLEGAL"}
RslMsg == [type : RslTypes, ti : Tis \cup {NoTi}]
UpRrMsg == [type : UpTypes, ti : Tis \cup {NoTi}]
TransMaps == UNION {[D -> Trans] : D \in SUBSET Refs}

Phones ==
  [mm : MmStates, conns : Seq(Conn), t3230 : BOOLEAN, t3240 : BOOLEAN, updated : BOOLEAN,
   rr : RrStates, rrEstReq : BOOLEAN, relWait : BOOLEAN, camped : BOOLEAN, barred : BOOLEAN,
   rsl : Seq(RslMsg), rrUp : Seq(UpRrMsg), mmxx : Seq(MmxxMsg), events : Seq({"CELL_SELECTED"}),
   mncc : Seq(MnccMsg), mtRef : Nat, trans : TransMaps, calls : Seq(Call), moRef : Nat,
   set : Settings]

(* The transactions of a phone: a function from some references. *)
LEMMA TransMapsAre ==
  ASSUME NEW u
  PROVE  u \in TransMaps <=> /\ DOMAIN u \subseteq Refs /\ u = [r \in DOMAIN u |-> u[r]]
                             /\ \A r \in DOMAIN u : u[r] \in Trans
  BY DEF TransMaps

(* Of the bounds: no identifier is the one that says none, and the two
   kinds of references differ. *)
LEMMA Identifiers ==
  /\ NoTi \notin Tis /\ TiCount \in Nat \ {0} /\ MtRefs \cap MoRefs = {}
  /\ MaxMo \in Nat /\ MaxMt \in Nat
  BY MmAssumption DEF NoTi, Tis, OwnTis, NetTis, MtRefs, MoRefs, MtBase

(* The types of the parts of a phone. *)
LEMMA PhoneTypes ==
  ASSUME NEW s \in Phones
  PROVE  /\ s.conns \in Seq(Conn) /\ s.mmxx \in Seq(MmxxMsg) /\ s.mncc \in Seq(MnccMsg)
         /\ s.calls \in Seq(Call) /\ s.rsl \in Seq(RslMsg) /\ s.rrUp \in Seq(UpRrMsg)
         /\ s.events \in Seq({"CELL_SELECTED"})
         /\ s.trans \in TransMaps /\ DOMAIN s.trans \subseteq Refs
         /\ \A r \in DOMAIN s.trans : s.trans[r] \in Trans
  BY TransMapsAre DEF Phones

-----------------------------------------------------------------------------
(* What an operation on the transaction r does: it keeps the fields of the
   other layers; the transaction is in state st; layer 4 has been told told;
   and if r has lost its connection, MM may have said so. *)

SameRr(s, t) ==
  /\ t.rr = s.rr /\ t.rrEstReq = s.rrEstReq /\ t.relWait = s.relWait /\ t.camped = s.camped
  /\ t.rsl = s.rsl /\ t.rrUp = s.rrUp /\ t.events = s.events
SameApp(s, t) == t.calls = s.calls /\ t.moRef = s.moRef /\ t.set = s.set

Turned(u, v, r, st, ti) ==
  /\ DOMAIN v = DOMAIN u \cup {r} /\ v[r].state = st /\ v[r].ti = ti
  /\ \A q \in DOMAIN u : q # r => v[q] = u[q]
Without(u, v, r) ==
  /\ DOMAIN v = DOMAIN u \ {r}
  /\ \A q \in DOMAIN v : v[q] = u[q]

ToldMore(u, v, r, told) ==
  /\ \A q : Told(v, q) = IF q = r THEN Told(u, q) \cup told ELSE Told(u, q)
  /\ told = {} => v = u
  /\ OneSetup(u) /\ ("SETUP_IND" \notin told \/ \A q \in Refs : "SETUP_IND" \notin Told(u, q))
     => OneSetup(v)

LostUp(u, v, r, conns) ==
  /\ \A q : q # r => Ups(v, q) = Ups(u, q)
  /\ Ups(u, r) \subseteq Ups(v, r)
  /\ \A m \in Ups(v, r) : m \in Ups(u, r) \/ (m.prim = "REL_IND" /\ ~Joined(conns, r))
  /\ ToldOnce(u) => ToldOnce(v)

Moved(s, t, r, st, told) ==
  /\ t \in Phones /\ SameRr(s, t) /\ SameApp(s, t)
  /\ t.mm = s.mm /\ t.conns = s.conns /\ t.mtRef = s.mtRef
  /\ Turned(s.trans, t.trans, r, st, s.trans[r].ti)
  /\ ToldMore(s.mncc, t.mncc, r, told)
  /\ LostUp(s.mmxx, t.mmxx, r, s.conns)

(* A transaction written changes nothing but that transaction. *)
LEMMA PutFields ==
  ASSUME NEW s \in Phones, NEW r \in Refs, NEW w \in Trans, NEW x, x = Put(s, r, w)
  PROVE  /\ x \in Phones /\ SameRr(s, x) /\ SameApp(s, x)
         /\ x.conns = s.conns /\ x.mm = s.mm /\ x.mtRef = s.mtRef
         /\ x.mncc = s.mncc /\ x.mmxx = s.mmxx
         /\ Turned(s.trans, x.trans, r, w.state, w.ti) /\ x.trans[r] = w
<1> DEFINE v == [q \in DOMAIN s.trans \cup {r} |-> IF q = r THEN w ELSE s.trans[q]]
<1>1. s.trans \in TransMaps
  BY DEF Phones
<1>2. DOMAIN v = DOMAIN s.trans \cup {r} /\ \A q \in DOMAIN v : v[q] = IF q = r THEN w ELSE s.trans[q]
  OBVIOUS
<1>3. v \in TransMaps
  BY <1>1, TransMapsAre
<1>4. x = [s EXCEPT !.trans = v]
  BY DEF Put, Phones
<1> HIDE DEF v
<1>5. /\ x \in Phones /\ x.trans = v /\ x.conns = s.conns /\ x.mm = s.mm /\ x.mtRef = s.mtRef
      /\ x.mncc = s.mncc /\ x.mmxx = s.mmxx /\ SameRr(s, x) /\ SameApp(s, x)
  BY <1>3, <1>4, ZenonT(60) DEF Phones, SameRr, SameApp
<1> QED
  BY <1>2, <1>5 DEF Turned

(* A freed connection, or one that stays because MM does not know of it *)
Parted(s, t, r) ==
  /\ Distinct(t.conns) /\ (OneWaits(s.conns) => OneWaits(t.conns))
  /\ \A q : q # r => (Joined(t.conns, q) <=> Joined(s.conns, q))
  /\ \A q : q # r => (Pend(t.conns, q) <=> Pend(s.conns, q))
  /\ \A q : Joined(t.conns, q) => TiOf(t.conns, q) = TiOf(s.conns, q)
  /\ Joined(t.conns, r) => t.conns = s.conns /\ t.mm = s.mm /\ s.mm \in {"MM_IDLE", "WAIT_NETWORK_CMD"}
MmMoved(s, t) ==
  \/ t.mm = s.mm
  \/ s.mm \notin {"MM_IDLE", "WAIT_RR_CONN_MM_CON"} /\ t.mm = "MM_CONN_ACTIVE"
  \/ s.mm \notin {"MM_IDLE", "WAIT_RR_CONN_MM_CON"} /\ t.mm = "WAIT_NETWORK_CMD" /\ t.conns = <<>>

Ended(s, t, r, told) ==
  /\ t \in Phones /\ SameRr(s, t) /\ SameApp(s, t) /\ t.mtRef = s.mtRef
  /\ Parted(s, t, r) /\ MmMoved(s, t)
  /\ Without(s.trans, t.trans, r)
  /\ ToldMore(s.mncc, t.mncc, r, told)
  /\ LostUp(s.mmxx, t.mmxx, r, s.conns)

(* The transaction and the connection r agree on the transaction identifier. *)
Agrees(s, r) ==
  /\ s \in Phones /\ r \in DOMAIN s.trans /\ Distinct(s.conns)
  /\ Joined(s.conns, r) => TiOf(s.conns, r) = s.trans[r].ti

(* A transaction that was not touched. *)
LEMMA MovedNot ==
  ASSUME NEW s, NEW r, Agrees(s, r)
  PROVE  Moved(s, s, r, s.trans[r].state, {})
  BY DEF Agrees, Moved, SameRr, SameApp, Turned, ToldMore, LostUp

(* A transaction that moved still agrees with its connection. *)
LEMMA MovedAgrees ==
  ASSUME NEW s, NEW t, NEW r, NEW st, NEW told, Agrees(s, r), Moved(s, t, r, st, told)
  PROVE  Agrees(t, r) /\ t.trans[r].state = st /\ t.trans[r].ti = s.trans[r].ti /\ r \in Refs
<1>1. r \in Refs
  BY PhoneTypes DEF Agrees
<1> QED
  BY <1>1 DEF Agrees, Moved, Turned

(* A transaction that moved is written with another state. *)
LEMMA MovedPut ==
  ASSUME NEW s, NEW t, NEW r, NEW st, NEW told, Agrees(s, r), Moved(s, t, r, st, told),
         NEW w \in Trans, w.ti = s.trans[r].ti
  PROVE  Moved(s, Put(t, r, w), r, w.state, told)
<1>1. t \in Phones /\ r \in Refs
  BY MovedAgrees DEF Moved
<1> DEFINE x == Put(t, r, w)
<1>2. /\ x \in Phones /\ SameRr(t, x) /\ SameApp(t, x)
      /\ x.conns = t.conns /\ x.mm = t.mm /\ x.mtRef = t.mtRef
      /\ x.mncc = t.mncc /\ x.mmxx = t.mmxx
      /\ Turned(t.trans, x.trans, r, w.state, w.ti)
  BY <1>1, PutFields
<1> HIDE DEF x
<1>3. Turned(s.trans, x.trans, r, w.state, s.trans[r].ti)
  BY <1>2 DEF Turned, Moved
<1> QED
  BY <1>2, <1>3 DEF x, Moved, SameRr, SameApp

(* A transaction that moved tells layer 4. *)
LEMMA MovedTold ==
  ASSUME NEW s, NEW t, NEW r, NEW st, NEW told, Agrees(s, r), Moved(s, t, r, st, told),
         NEW p \in MnccPrims, p # "SETUP_IND" \/ told = {}
  PROVE  Moved(s, ToL4(t, p, r), r, st, told \cup {p})
<1>1. t \in Phones /\ r \in Refs /\ t.mncc \in Seq(MnccMsg) /\ s.mncc \in Seq(MnccMsg)
  BY MovedAgrees, PhoneTypes DEF Moved, Agrees
<1> DEFINE e == [prim |-> p, ref |-> r]
           v == Append(t.mncc, e)
           x == [t EXCEPT !.mncc = v]
<1>a. e \in MnccMsg /\ e.prim = p /\ e.ref = r
  BY <1>1 DEF MnccMsg
<1>b. Grown(v, t.mncc, e) /\ x = [t EXCEPT !.mncc = v]
  BY DEF Grown
<1>c. ToL4(t, p, r) = x
  BY <1>1 DEF e, ToL4, Phones
<1> HIDE DEF e, v
<1>2. /\ v \in Seq(MnccMsg)
      /\ \A q : Told(v, q) = IF q = e.ref THEN Told(t.mncc, q) \cup {e.prim} ELSE Told(t.mncc, q)
      /\ OneSetup(t.mncc) /\ e.prim # "SETUP_IND" => OneSetup(v)
      /\ (\A q \in Refs : "SETUP_IND" \notin Told(t.mncc, q)) => OneSetup(v)
  BY <1>1, <1>a, <1>b, ToldAppend
<1>4. /\ x \in Phones /\ x.trans = t.trans /\ x.conns = t.conns /\ x.mm = t.mm /\ x.mtRef = t.mtRef
      /\ x.mncc = v /\ x.mmxx = t.mmxx /\ SameRr(t, x) /\ SameApp(t, x)
  BY <1>1, <1>2 DEF Phones, SameRr, SameApp
<1> HIDE DEF x
<1>5. ToldMore(s.mncc, t.mncc, r, told)
  BY DEF Moved
<1>6. ToldMore(s.mncc, v, r, told \cup {p})
  BY <1>2, <1>a, <1>5 DEF ToldMore
<1> QED
  BY <1>c, <1>4, <1>6 DEF Moved, SameRr, SameApp

(* The identifier of a connection set: of that connection only. *)
LEMMA SetTiFields ==
  ASSUME NEW s \in Phones, Distinct(s.conns), NEW r, NEW ti \in Tis \cup {NoTi},
         NEW x, x = SetTi(s, r, ti)
  PROVE  /\ x \in Phones /\ SameRr(s, x) /\ SameApp(s, x)
         /\ x.mm = s.mm /\ x.mtRef = s.mtRef /\ x.trans = s.trans
         /\ x.mncc = s.mncc /\ x.mmxx = s.mmxx /\ Distinct(x.conns)
         /\ \A q : Joined(x.conns, q) <=> Joined(s.conns, q)
         /\ \A q : Pend(x.conns, q) <=> Pend(s.conns, q)
         /\ \A q : Joined(x.conns, q) => TiOf(x.conns, q) = IF q = r THEN ti ELSE TiOf(s.conns, q)
         /\ OneWaits(s.conns) => OneWaits(x.conns)
         /\ (Joined(s.conns, r) => TiOf(s.conns, r) = ti) => x = s
<1> DEFINE conns == s.conns
           v == [i \in DOMAIN conns |->
                   IF conns[i].ref = r THEN [conns[i] EXCEPT !.ti = ti] ELSE conns[i]]
           n == Len(conns)
<1>0. conns \in Seq(Conn)
  BY PhoneTypes
<1>a. x = [s EXCEPT !.conns = v]
  BY DEF SetTi
<1> HIDE DEF conns
<1>1. n \in Nat /\ DOMAIN conns = 1..n /\ \A i \in 1..n : conns[i] \in Conn
  BY <1>0
<1>b. Distinct(conns)
  BY DEF conns
<1>2. DOMAIN v = 1..n
  BY <1>1
<1> HIDE DEF n
<1>3. ASSUME NEW i \in 1..n
      PROVE  /\ v[i] \in Conn /\ v[i].ref = conns[i].ref /\ v[i].state = conns[i].state
             /\ v[i].ti = IF conns[i].ref = r THEN ti ELSE conns[i].ti
             /\ (conns[i].ref = r => conns[i].ti = ti) => v[i] = conns[i]
  <2>1. v[i] = IF conns[i].ref = r THEN [conns[i] EXCEPT !.ti = ti] ELSE conns[i]
    BY <1>1
  <2>2. conns[i] \in Conn
    BY <1>1
  <2> QED
    BY <2>1, <2>2 DEF Conn
<1>4. v \in Seq(Conn)
  <2>1. v = [i \in 1..n |-> v[i]]
    BY <1>1
  <2>2. v \in [1..n -> Conn]
    BY <1>3, <2>1
  <2> QED
    BY <1>1, <2>2
<1> HIDE DEF v
<1>5. Distinct(v) /\ (OneWaits(conns) => OneWaits(v))
  BY <1>b, <1>1, <1>2, <1>3 DEF Distinct, OneWaits, IsPending
<1>6. \A q : (Joined(v, q) <=> Joined(conns, q)) /\ (Pend(v, q) <=> Pend(conns, q))
  BY <1>1, <1>2, <1>3 DEF Joined, Pend
<1>7. ASSUME NEW q, Joined(v, q)
      PROVE  TiOf(v, q) = IF q = r THEN ti ELSE TiOf(conns, q)
  <2>1. PICK i \in 1..n : v[i].ref = q
    BY <1>2, <1>7 DEF Joined
  <2>2. TiOf(v, v[i].ref) = v[i].ti
    <3>1. i \in DOMAIN v
      BY <1>2
    <3> QED
      BY ONLY <1>4, <1>5, <3>1, ConnIs
  <2>3. TiOf(conns, conns[i].ref) = conns[i].ti
    BY <1>0, <1>1, <1>b, ConnIs
  <2> QED
    BY <1>3, <2>1, <2>2, <2>3
<1>8. ASSUME Joined(conns, r) => TiOf(conns, r) = ti PROVE v = conns
  <2>1. ASSUME NEW i \in 1..n PROVE v[i] = conns[i]
    <3>1. conns[i].ref = r => conns[i].ti = ti
      BY <1>0, <1>1, <1>8, <1>b, ConnIs
    <3> QED
      BY <1>3, <3>1
  <2> QED
    BY <1>0, <1>1, <1>2, <1>4, <2>1, SeqEqual
<1>9. /\ x \in Phones /\ x.conns = v /\ x.trans = s.trans /\ x.mm = s.mm /\ x.mtRef = s.mtRef
      /\ x.mncc = s.mncc /\ x.mmxx = s.mmxx /\ SameRr(s, x) /\ SameApp(s, x)
  BY <1>4, <1>a, ZenonT(60) DEF Phones, SameRr, SameApp
<1>10. v = conns => x = s
  BY <1>a DEF conns, Phones
<1> QED
  BY <1>5, <1>6, <1>7, <1>8, <1>9, <1>10 DEF conns

(* A connection that is gone is told of to a transaction that moved. *)
LEMMA MovedUp ==
  ASSUME NEW s, NEW t, NEW r, NEW st, NEW told, Agrees(s, r), Moved(s, t, r, st, told),
         NEW ti \in Tis \cup {NoTi}, ~Joined(t.conns, r)
  PROVE  Moved(s, Up(t, "REL_IND", r, ti), r, st, told)
<1>1. t \in Phones /\ r \in Refs /\ t.mmxx \in Seq(MmxxMsg)
  BY MovedAgrees, PhoneTypes DEF Moved, Agrees
<1> DEFINE e == Note("REL_IND", r, ti)
           v == Append(t.mmxx, e)
           x == [t EXCEPT !.mmxx = v]
<1>a. e \in MmxxMsg /\ e.prim = "REL_IND" /\ e.ref = r /\ e.prim \in Gone
  BY <1>1, NoteFields DEF Gone, MmxxPrims
<1>b. Grown(v, t.mmxx, e) /\ x = [t EXCEPT !.mmxx = v]
  BY DEF Grown
<1>c. Up(t, "REL_IND", r, ti) = x
  BY <1>1 DEF e, Up, Note, Phones
<1> HIDE DEF e, v
<1>2. /\ v \in Seq(MmxxMsg)
      /\ \A q : Ups(v, q) = IF q = e.ref THEN Ups(t.mmxx, q) \cup {e} ELSE Ups(t.mmxx, q)
      /\ ToldOnce(t.mmxx) /\ e.prim \in Gone => ToldOnce(v)
  BY <1>1, <1>a, <1>b, UpsAppend
<1>5. /\ x \in Phones /\ x.trans = t.trans /\ x.conns = t.conns /\ x.mm = t.mm /\ x.mtRef = t.mtRef
      /\ x.mncc = t.mncc /\ x.mmxx = v /\ SameRr(t, x) /\ SameApp(t, x)
  BY <1>1, <1>2 DEF Phones, SameRr, SameApp
<1> HIDE DEF x
<1>6. LostUp(s.mmxx, t.mmxx, r, s.conns) /\ t.conns = s.conns
  BY DEF Moved
<1>7. LostUp(s.mmxx, v, r, s.conns)
  BY <1>2, <1>a, <1>6 DEF LostUp
<1> QED
  BY <1>c, <1>5, <1>6, <1>7 DEF Moved, SameRr, SameApp

(* A transaction that moved sends a message: MM keeps its connection or
   tells that it is gone. *)
LEMMA MovedData ==
  ASSUME NEW s, NEW t, NEW r, NEW st, NEW told, Agrees(s, r), Moved(s, t, r, st, told)
  PROVE  Moved(s, Data(t, r), r, st, told)
<1>1. t \in Phones /\ Distinct(t.conns) /\ t.trans[r].ti = s.trans[r].ti
  BY MovedAgrees DEF Agrees
<1>2. t.trans[r].ti \in Tis \cup {NoTi}
  <2>1. t.trans[r] \in Trans
    BY <1>1, PhoneTypes, MovedAgrees DEF Agrees
  <2> QED
    BY <2>1 DEF Trans
<1>3. Joined(t.conns, r) => TiOf(t.conns, r) = t.trans[r].ti
  BY MovedAgrees DEF Agrees
<1>4. HasConn(t, r) <=> Joined(t.conns, r)
  BY DEF HasConn, Joined
<1>5. SetTi(t, r, t.trans[r].ti) = t
  BY <1>1, <1>2, <1>3, SetTiFields
<1>6. Data(t, r) = t \/ (~Joined(t.conns, r) /\ Data(t, r) = Up(t, "REL_IND", r, t.trans[r].ti))
  BY <1>4, <1>5 DEF Data, DataReq
<1> QED
  BY <1>2, <1>6, MovedUp

(* A connection freed: the others stay as they were. *)
LEMMA FreeConnFields ==
  ASSUME NEW s \in Phones, Distinct(s.conns), NEW r, NEW x, x = FreeConn(s, r)
  PROVE  /\ x \in Phones /\ SameRr(s, x) /\ SameApp(s, x)
         /\ x.mm = s.mm /\ x.mtRef = s.mtRef /\ x.trans = s.trans
         /\ x.mncc = s.mncc /\ x.mmxx = s.mmxx /\ Distinct(x.conns)
         /\ \A q : Joined(x.conns, q) <=> q # r /\ Joined(s.conns, q)
         /\ \A q : Pend(x.conns, q) <=> q # r /\ Pend(s.conns, q)
         /\ \A q : Joined(x.conns, q) => TiOf(x.conns, q) = TiOf(s.conns, q)
         /\ OneWaits(s.conns) => OneWaits(x.conns)
<1>1. s.conns \in Seq(Conn)
  BY PhoneTypes
<1>2. CASE ~HasConn(s, r)
  <2>1. x = s /\ ~Joined(s.conns, r)
    BY <1>2 DEF FreeConn, HasConn, Joined
  <2>2. \A q : Pend(s.conns, q) => Joined(s.conns, q)
    BY PendJoined
  <2> QED
    BY <2>1, <2>2 DEF SameRr, SameApp
<1>3. CASE HasConn(s, r)
  <2> DEFINE i == ConnAt(s, r)
             v == RemoveAt(s.conns, i)
  <2>1. i \in DOMAIN s.conns /\ s.conns[i].ref = r
    BY <1>3 DEF HasConn, ConnAt
  <2>2. x = [s EXCEPT !.conns = v]
    BY <1>3 DEF FreeConn, Phones
  <2> HIDE DEF i
  <2>3. /\ v \in Seq(Conn) /\ Distinct(v)
        /\ \A q : Joined(v, q) <=> q # r /\ Joined(s.conns, q)
        /\ \A q : Pend(v, q) <=> q # r /\ Pend(s.conns, q)
        /\ \A q : Joined(v, q) => TiOf(v, q) = TiOf(s.conns, q)
        /\ OneWaits(s.conns) => OneWaits(v)
    BY <1>1, <2>1, ConnRemoved
  <2> HIDE DEF v
  <2>4. /\ x \in Phones /\ x.conns = v /\ SameRr(s, x) /\ SameApp(s, x)
        /\ x.mm = s.mm /\ x.mtRef = s.mtRef /\ x.trans = s.trans
        /\ x.mncc = s.mncc /\ x.mmxx = s.mmxx
    BY <2>2, <2>3, ZenonT(60) DEF Phones, SameRr, SameApp
  <2> QED
    BY <2>3, <2>4
<1> QED
  BY <1>2, <1>3

(* MM waits for the network to release the channel: nothing else changes. *)
LEMMA AwaitReleaseFields ==
  ASSUME NEW s \in Phones, NEW x, x = AwaitRelease(s)
  PROVE  /\ x \in Phones /\ SameRr(s, x) /\ SameApp(s, x)
         /\ x.mm = "WAIT_NETWORK_CMD" /\ x.mtRef = s.mtRef /\ x.trans = s.trans
         /\ x.mncc = s.mncc /\ x.mmxx = s.mmxx /\ x.conns = s.conns
  BY DEF AwaitRelease, Phones, SameRr, SameApp, MmStates

(* MM waits for the network once no connection is left, and nothing else
   changes. *)
LEMMA ByConnsFields ==
  ASSUME NEW s \in Phones, NEW x, x = ByConns(s)
  PROVE  /\ x \in Phones /\ SameRr(s, x) /\ SameApp(s, x)
         /\ x.mm = (IF s.conns = <<>> THEN "WAIT_NETWORK_CMD" ELSE "MM_CONN_ACTIVE")
         /\ x.mtRef = s.mtRef /\ x.trans = s.trans
         /\ x.mncc = s.mncc /\ x.mmxx = s.mmxx /\ x.conns = s.conns
<1>1. CASE s.conns = <<>>
  BY <1>1, AwaitReleaseFields DEF ByConns
<1>2. CASE s.conns # <<>>
  BY <1>2 DEF ByConns, Phones, SameRr, SameApp, MmStates
<1> QED
  BY <1>1, <1>2

(* MMCC_REL_REQ: call control has its connection released. *)
LEMMA RelReqFields ==
  ASSUME NEW s, NEW r, Agrees(s, r), NEW x, x = RelReq(s, r, s.trans[r].ti)
  PROVE  /\ x \in Phones /\ SameRr(s, x) /\ SameApp(s, x)
         /\ x.mtRef = s.mtRef /\ x.trans = s.trans
         /\ x.mncc = s.mncc /\ x.mmxx = s.mmxx
         /\ Parted(s, x, r) /\ MmMoved(s, x)
<1> DEFINE freed == FreeConn(s, r)
           ti == s.trans[r].ti
<1>0. s \in Phones /\ Distinct(s.conns) /\ s.mm \in MmStates
  BY DEF Agrees, Phones
<1>1. /\ freed \in Phones /\ SameRr(s, freed) /\ SameApp(s, freed)
      /\ freed.mm = s.mm /\ freed.mtRef = s.mtRef /\ freed.trans = s.trans
      /\ freed.mncc = s.mncc /\ freed.mmxx = s.mmxx /\ Distinct(freed.conns)
      /\ \A q : Joined(freed.conns, q) <=> q # r /\ Joined(s.conns, q)
      /\ \A q : Pend(freed.conns, q) <=> q # r /\ Pend(s.conns, q)
      /\ \A q : Joined(freed.conns, q) => TiOf(freed.conns, q) = TiOf(s.conns, q)
      /\ OneWaits(s.conns) => OneWaits(freed.conns)
  BY <1>0, FreeConnFields
<1>2. SetTi(s, r, ti) = s
  <2>1. ti \in Tis \cup {NoTi}
    BY PhoneTypes DEF Agrees, Trans
  <2> QED
    BY <1>0, <2>1, SetTiFields DEF Agrees
<1> HIDE DEF freed
<1>3. CASE x = freed /\ s.mm \notin {"MM_IDLE"}
  BY <1>1, <1>3 DEF Parted, MmMoved
<1>4. CASE s.mm = "MM_CONN_ACTIVE" /\ x = ByConns(freed)
  <2>1. /\ x \in Phones /\ SameRr(freed, x) /\ SameApp(freed, x)
        /\ x.mm = (IF freed.conns = <<>> THEN "WAIT_NETWORK_CMD" ELSE "MM_CONN_ACTIVE")
        /\ x.mtRef = freed.mtRef /\ x.trans = freed.trans
        /\ x.mncc = freed.mncc /\ x.mmxx = freed.mmxx /\ x.conns = freed.conns
    BY <1>1, <1>4, ByConnsFields
  <2> QED
    BY <1>1, <1>4, <2>1 DEF Parted, MmMoved, SameRr, SameApp
<1>5. CASE s.mm = "WAIT_OUT_MM_CONN" /\ freed.conns = <<>> /\ x = AwaitRelease(freed)
  <2>1. /\ x \in Phones /\ SameRr(freed, x) /\ SameApp(freed, x)
        /\ x.mm = "WAIT_NETWORK_CMD" /\ x.mtRef = freed.mtRef /\ x.trans = freed.trans
        /\ x.mncc = freed.mncc /\ x.mmxx = freed.mmxx /\ x.conns = freed.conns
    BY <1>1, <1>5, AwaitReleaseFields
  <2> QED
    BY <1>1, <1>5, <2>1 DEF Parted, MmMoved, SameRr, SameApp
<1>6. CASE s.mm \in {"MM_IDLE", "WAIT_NETWORK_CMD"} /\ x = s
  BY <1>0, <1>6 DEF Parted, MmMoved, SameRr, SameApp
<1>7. \/ x = freed /\ s.mm \notin {"MM_IDLE"}
      \/ s.mm = "MM_CONN_ACTIVE" /\ x = ByConns(freed)
      \/ s.mm = "WAIT_OUT_MM_CONN" /\ freed.conns = <<>> /\ x = AwaitRelease(freed)
      \/ s.mm \in {"MM_IDLE", "WAIT_NETWORK_CMD"} /\ x = s
  BY <1>0, <1>2 DEF RelReq, freed, MmStates
<1> QED
  BY <1>3, <1>4, <1>5, <1>6, <1>7

(* trans_free: one transaction is gone, the others stay. *)
LEMMA FreeFields ==
  ASSUME NEW s \in Phones, NEW r, NEW x, x = Free(s, r)
  PROVE  /\ x \in Phones /\ SameRr(s, x) /\ SameApp(s, x)
         /\ x.conns = s.conns /\ x.mm = s.mm /\ x.mtRef = s.mtRef
         /\ x.mncc = s.mncc /\ x.mmxx = s.mmxx
         /\ Without(s.trans, x.trans, r)
<1> DEFINE v == Restrict(s.trans, DOMAIN s.trans \ {r})
<1>1. s.trans \in TransMaps
  BY DEF Phones
<1>2. DOMAIN v = DOMAIN s.trans \ {r} /\ \A q \in DOMAIN v : v[q] = s.trans[q]
  BY DEF Restrict
<1>3. v \in TransMaps
  BY <1>1, TransMapsAre DEF Restrict
<1>4. x = [s EXCEPT !.trans = v]
  BY DEF Free, Phones
<1> HIDE DEF v
<1>5. /\ x \in Phones /\ x.trans = v /\ x.conns = s.conns /\ x.mm = s.mm /\ x.mtRef = s.mtRef
      /\ x.mncc = s.mncc /\ x.mmxx = s.mmxx /\ SameRr(s, x) /\ SameApp(s, x)
  BY <1>3, <1>4, ZenonT(60) DEF Phones, SameRr, SameApp
<1> QED
  BY <1>2, <1>5 DEF Without

(* A transaction that moved is released: it and its connection are gone. *)
LEMMA MovedEnds ==
  ASSUME NEW s, NEW t, NEW r, NEW st, NEW told, Agrees(s, r), Moved(s, t, r, st, told)
  PROVE  Ended(s, RelNullFree(t, r), r, told)
<1> DEFINE u == RelReq(t, r, t.trans[r].ti)
           x == Free(u, r)
<1>1. Agrees(t, r)
  BY MovedAgrees
<1>2. /\ u \in Phones /\ SameRr(t, u) /\ SameApp(t, u)
      /\ u.mtRef = t.mtRef /\ u.trans = t.trans
      /\ u.mncc = t.mncc /\ u.mmxx = t.mmxx
      /\ Parted(t, u, r) /\ MmMoved(t, u)
  BY <1>1, RelReqFields
<1>3. RelNullFree(t, r) = x
  BY DEF RelNullFree
<1> HIDE DEF u
<1>4. /\ x \in Phones /\ SameRr(u, x) /\ SameApp(u, x)
      /\ x.conns = u.conns /\ x.mm = u.mm /\ x.mtRef = u.mtRef
      /\ x.mncc = u.mncc /\ x.mmxx = u.mmxx
      /\ Without(u.trans, x.trans, r)
  BY <1>2, FreeFields
<1> HIDE DEF x
<1>5. Without(s.trans, x.trans, r)
  BY <1>2, <1>4 DEF Moved, Turned, Without
<1>6. Parted(s, x, r) /\ MmMoved(s, x)
  BY <1>2, <1>4 DEF Moved, Parted, MmMoved
<1>7. SameRr(s, x) /\ SameApp(s, x) /\ x.mtRef = s.mtRef
  BY <1>2, <1>4 DEF Moved, SameRr, SameApp
<1> QED
  BY <1>2, <1>3, <1>4, <1>5, <1>6, <1>7 DEF Moved, Ended


-----------------------------------------------------------------------------
(* The inductive invariant, for the phone s while the queue a is emptied. *)

News(q) == \E i \in DOMAIN q : q[i].type \notin Loss
Paged(q) == \E i \in DOMAIN q : q[i].type = "EST_IND"
AllGone(s) == \A r \in Refs : \A m \in Ups(s.mmxx, r) : m.prim \in Gone
NoSetup(s) == \A r \in Refs : "SETUP_IND" \notin Told(s.mncc, r)
AllPending(s) == \A r \in Refs : Joined(s.conns, r) => Pend(s.conns, r)

(* The radio resource layer and what it has to tell.  One message at most is
   read in a round, and what it brings is told last. *)
Signals(s, a) ==
  /\ a = 0 => s.rsl = <<>> /\ s.events = <<>> /\ ~News(s.rrUp) /\ (s.camped => s.rrUp = <<>>)
  /\ a >= 2 => s.rsl = <<>>
  /\ a >= 3 => s.rrUp = <<>>
  /\ a >= 5 => s.events = <<>>
  /\ s.rsl # <<>> => Len(s.rsl) = 1 /\ ~News(s.rrUp)
  /\ \A i \in 1..Len(s.rrUp) - 1 : s.rrUp[i].type \in Loss
  /\ News(s.rrUp) => s.rr = "DEDICATED" /\ (Len(s.rrUp) = 1 \/ Paged(s.rrUp))
  /\ s.rr = "DEDICATED" /\ s.rrUp # <<>> => News(s.rrUp)
  /\ s.camped => s.rr = "IDLE" /\ ~s.relWait
  /\ s.relWait => s.rr \in {"REL_PEND", "IDLE"}
  /\ s.rr = "IDLE" => ~s.rrEstReq
  /\ s.rr = "CONN_PEND" /\ s.rrEstReq => s.rrUp = <<>>
  /\ \A i \in DOMAIN s.rsl : s.rsl[i].type = "CELL" => s.rr = "IDLE" /\ ~s.relWait

(* What it has to tell is told before MM and call control have told anything
   but losses. *)
Quiet(s, a) ==
  /\ a >= 4 => AllGone(s)
  /\ a <= 1 \/ s.rrUp # <<>> => AllGone(s) /\ NoSetup(s)
  /\ AllGone(s) \/ NoSetup(s)

(* MM, its connections and the channel they are on *)
Link(s, a) ==
  /\ s.rr = "CONN_PEND" /\ s.rrEstReq => s.mm = "WAIT_RR_CONN_MM_CON"
  /\ s.rr = "DEDICATED" /\ s.mm = "MM_IDLE" => Paged(s.rrUp)
  /\ /\ s.rr \in {"IDLE", "CONN_PEND"} \/ s.relWait
     /\ a = 0 \/ s.rsl # <<>> \/ s.rrUp = <<>>
     => AllPending(s)
  /\ Paged(s.rrUp) => AllPending(s)
  /\ s.mm \in {"MM_IDLE", "WAIT_NETWORK_CMD"} => AllPending(s)

(* A reference nobody has used yet *)
Unused(s, r) ==
  /\ r \notin DOMAIN s.trans /\ ~Joined(s.conns, r) /\ ~Listed(s.calls, r)
  /\ Ups(s.mmxx, r) = {} /\ Told(s.mncc, r) = {}
Later(s, r) == IF r \in MoRefs THEN r >= s.moRef ELSE r >= s.mtRef
(* A message of call control finds its connection, or a reference for one. *)
Placed(s, m) ==
  m.type \in CcMsgs =>
    /\ m.ti \in Tis
    /\ s.mtRef \in MtRefs \/ \E r \in Refs : Joined(s.conns, r) /\ TiOf(s.conns, r) = m.ti
Account(s) ==
  /\ s.moRef \in 1..MaxMo + 1 /\ s.mtRef \in MtBase + 1..MtBase + MaxMt + 1
  /\ \A r \in Refs : Later(s, r) => Unused(s, r)
  /\ \A i \in DOMAIN s.rsl : Placed(s, s.rsl[i])
  /\ \A i \in DOMAIN s.rrUp : Placed(s, s.rrUp[i])

(* Before the first loss of the round is told, every transaction that has its
   identifier has its connection. *)
Tied(s) == \A r \in DOMAIN s.trans : Joined(s.conns, r) \/ s.trans[r].ti = NoTi

Inv(s, a) ==
  /\ s \in Phones /\ a \in 0..5
  /\ Signals(s, a) /\ Quiet(s, a) /\ Link(s, a) /\ Account(s)
  /\ Ties(s) /\ (a <= 1 \/ News(s.rrUp) => Tied(s))
  /\ Books(s)
(* end of definitions *)

(* All of it but the books, which some operations put right in two steps *)
Core(s, a) ==
  /\ s \in Phones /\ a \in 0..5
  /\ Signals(s, a) /\ Quiet(s, a) /\ Link(s, a) /\ Account(s)
  /\ Ties(s) /\ (a <= 1 \/ News(s.rrUp) => Tied(s))
BooksBut(s, r) ==
  /\ Distinct(s.calls) /\ OneSetup(s.mncc)
  /\ \A q \in Refs \ {r} : Book(s.trans, s.calls, s.mncc, q)

(* The invariant is what holds in every layer, with the book of every call. *)
LEMMA InvIs ==
  ASSUME NEW s, NEW a
  PROVE  Inv(s, a) <=> Core(s, a) /\ Books(s)
  BY DEF Inv, Core

(* The books of all calls are those of the others, with that of r. *)
LEMMA BooksAre ==
  ASSUME NEW s, NEW r
  PROVE  /\ Books(s) => BooksBut(s, r) /\ (r \in Refs => Book(s.trans, s.calls, s.mncc, r))
         /\ BooksBut(s, r) /\ Book(s.trans, s.calls, s.mncc, r) => Books(s)
  BY DEF Books, BooksBut

(* What is the same of a reference q in s and t *)
TransRow(s, t, q) ==
  /\ q \in DOMAIN t.trans <=> q \in DOMAIN s.trans
  /\ q \in DOMAIN s.trans => t.trans[q] = s.trans[q]
ConnRow(s, t, q) ==
  /\ Joined(t.conns, q) <=> Joined(s.conns, q)
  /\ Pend(t.conns, q) <=> Pend(s.conns, q)
  /\ Joined(s.conns, q) => TiOf(t.conns, q) = TiOf(s.conns, q)
CallRow(s, t, q) ==
  /\ Listed(t.calls, q) <=> Listed(s.calls, q)
  /\ Young(t.calls, q) <=> Young(s.calls, q)
  /\ Rings(t.calls, q) <=> Rings(s.calls, q)

(* A reference of which nothing changed stays tied to its connection. *)
LEMMA TieRow ==
  ASSUME NEW s, NEW t, NEW q, TransRow(s, t, q), ConnRow(s, t, q),
         Ups(t.mmxx, q) = Ups(s.mmxx, q), Tie(s.trans, s.conns, s.mmxx, q)
  PROVE  Tie(t.trans, t.conns, t.mmxx, q)
<1>1. Pend(s.conns, q) => Joined(s.conns, q)
  BY PendJoined
<1> QED
  BY <1>1 DEF TransRow, ConnRow, Tie

(* A reference of which nothing changed keeps its book. *)
LEMMA BookRow ==
  ASSUME NEW s, NEW t, NEW q, TransRow(s, t, q), CallRow(s, t, q),
         Told(t.mncc, q) = Told(s.mncc, q), Book(s.trans, s.calls, s.mncc, q)
  PROVE  Book(t.trans, t.calls, t.mncc, q)
  BY DEF TransRow, CallRow, Book

(* A reference not given out yet, of which nothing changed, is still not
   given out. *)
LEMMA UnusedRow ==
  ASSUME NEW s, NEW t, NEW q, TransRow(s, t, q), ConnRow(s, t, q), CallRow(s, t, q),
         Ups(t.mmxx, q) = Ups(s.mmxx, q), Told(t.mncc, q) = Told(s.mncc, q), Unused(s, q)
  PROVE  Unused(t, q)
  BY DEF TransRow, ConnRow, CallRow, Unused

(* With nothing of layer 2 and no news of radio resources queued, every
   message finds its place. *)
LEMMA NewsPlaced ==
  ASSUME NEW s, NEW t, s.rsl = <<>>, ~News(s.rrUp), t.rsl = s.rsl, t.rrUp = s.rrUp
  PROVE  /\ \A i \in DOMAIN t.rsl : Placed(t, t.rsl[i])
         /\ \A i \in DOMAIN t.rrUp : Placed(t, t.rrUp[i])
<1>1. \A i \in DOMAIN t.rrUp : t.rrUp[i].type \notin CcMsgs
  BY DEF News, Loss, CcMsgs
<1> QED
  BY <1>1 DEF Placed

(* The radio resource layer untouched *)
LEMMA SignalsSame ==
  ASSUME NEW s, NEW t, NEW a, SameRr(s, t), Signals(s, a)
  PROVE  Signals(t, a)
  BY DEF SameRr, Signals

(* More is queued, but not of a new call. *)
LEMMA QuietMore ==
  ASSUME NEW s, NEW t, NEW a, SameRr(s, t), Quiet(s, a),
         AllGone(s) => AllGone(t), NoSetup(s) => NoSetup(t)
  PROVE  Quiet(t, a)
  BY DEF SameRr, Quiet

(* What MM tells of a connection lost is an end. *)
LEMMA LostGone ==
  ASSUME NEW s, NEW t, NEW r, NEW conns, LostUp(s.mmxx, t.mmxx, r, conns)
  PROVE  AllGone(s) => AllGone(t)
  BY DEF LostUp, AllGone, Gone

(* What is told to layer 4, when it is no SETUP_IND, brings no new call. *)
LEMMA ToldSetup ==
  ASSUME NEW s, NEW t, NEW r, NEW told, ToldMore(s.mncc, t.mncc, r, told), "SETUP_IND" \notin told
  PROVE  NoSetup(s) => NoSetup(t)
  BY DEF ToldMore, NoSetup

(* When a transaction moves, those of the others stay. *)
LEMMA MovedRows ==
  ASSUME NEW s, NEW t, NEW r, NEW st, NEW told, r \in DOMAIN s.trans, Moved(s, t, r, st, told)
  PROVE  /\ \A q : q # r => TransRow(s, t, q)
         /\ \A q : ConnRow(s, t, q) /\ CallRow(s, t, q)
         /\ \A q : q # r => Ups(t.mmxx, q) = Ups(s.mmxx, q) /\ Told(t.mncc, q) = Told(s.mncc, q)
  BY DEF Moved, TransRow, ConnRow, CallRow, Turned, SameApp, LostUp, ToldMore

(* When a transaction moves, every transaction stays tied to its
   connection. *)
LEMMA MovedTies ==
  ASSUME NEW s \in Phones, NEW t, NEW r \in Refs, NEW st, NEW told, r \in DOMAIN s.trans,
         Moved(s, t, r, st, told), Ties(s),
         IF s.trans[r].ti = NoTi THEN st \in {"NULL", "MM_CONNECTION_PEND"}
         ELSE st # "MM_CONNECTION_PEND"
  PROVE  Ties(t)
<1>1. \A q \in Refs : q # r => Tie(t.trans, t.conns, t.mmxx, q)
  BY MovedRows, TieRow DEF Ties
<1>2. Tie(s.trans, s.conns, s.mmxx, r)
  BY DEF Ties
<1>3. /\ r \in DOMAIN t.trans /\ t.trans[r].state = st /\ t.trans[r].ti = s.trans[r].ti
      /\ t.conns = s.conns
  BY DEF Moved, Turned
<1>4. /\ Ups(s.mmxx, r) \subseteq Ups(t.mmxx, r)
      /\ \A m \in Ups(t.mmxx, r) : m \in Ups(s.mmxx, r) \/ (m.prim = "REL_IND" /\ ~Joined(s.conns, r))
  BY DEF Moved, LostUp
<1>5. Tie(t.trans, t.conns, t.mmxx, r)
  BY <1>2, <1>3, <1>4 DEF Tie, Gone
<1>6. OwnIdentifiers(t.trans)
  BY DEF Ties, OwnIdentifiers, Moved, Turned
<1>7. Distinct(t.conns) /\ OneWaits(t.conns) /\ ToldOnce(t.mmxx)
  BY DEF Ties, Moved, LostUp
<1> QED
  BY <1>1, <1>5, <1>6, <1>7 DEF Ties

(* When a transaction moves, the invariant but the books holds on. *)
LEMMA MovedCore ==
  ASSUME NEW s, NEW t, NEW r, NEW st, NEW told, NEW a, Core(s, a), r \in DOMAIN s.trans,
         Moved(s, t, r, st, told),
         IF s.trans[r].ti = NoTi THEN st \in {"NULL", "MM_CONNECTION_PEND"}
         ELSE st # "MM_CONNECTION_PEND",
         "SETUP_IND" \in told => AllGone(s) /\ a \in {2, 3} /\ s.rrUp = <<>>
  PROVE  Core(t, a)
<1>0. s \in Phones /\ t \in Phones /\ r \in Refs /\ SameRr(s, t) /\ a \in 0..5
  BY PhoneTypes DEF Core, Moved
<1>1. Signals(t, a)
  BY <1>0, SignalsSame DEF Core
<1>2. Quiet(t, a)
  <2>1. AllGone(s) => AllGone(t)
    BY LostGone DEF Moved
  <2>2. CASE "SETUP_IND" \in told
    BY <1>0, <2>1, <2>2 DEF Quiet, Core, SameRr
  <2>3. CASE "SETUP_IND" \notin told
    <3>1. NoSetup(s) => NoSetup(t)
      BY <2>3, ToldSetup DEF Moved
    <3> QED
      BY <1>0, <2>1, <3>1, QuietMore DEF Core
  <2> QED
    BY <2>2, <2>3
<1>3. Link(t, a)
  BY <1>0 DEF Core, Link, AllPending, Moved, SameRr
<1>4. Account(t)
  <2>1. ~Later(s, r)
    BY <1>0 DEF Core, Account, Unused
  <2>2. t.moRef = s.moRef /\ t.mtRef = s.mtRef /\ t.rsl = s.rsl /\ t.rrUp = s.rrUp /\ t.conns = s.conns
    BY DEF Moved, SameApp, SameRr
  <2>3. \A q \in Refs : Later(t, q) => Unused(t, q)
    <3> SUFFICES ASSUME NEW q \in Refs, Later(t, q) PROVE Unused(t, q)
      OBVIOUS
    <3>1. Later(s, q) /\ q # r
      BY <2>1, <2>2 DEF Later
    <3>2. Unused(s, q)
      BY <3>1 DEF Core, Account
    <3>3. /\ TransRow(s, t, q) /\ ConnRow(s, t, q) /\ CallRow(s, t, q)
          /\ Ups(t.mmxx, q) = Ups(s.mmxx, q) /\ Told(t.mncc, q) = Told(s.mncc, q)
      BY <3>1, MovedRows
    <3> QED
      BY <3>2, <3>3, UnusedRow
  <2> QED
    BY <2>2, <2>3 DEF Core, Account, Placed
<1>5. Ties(t)
  BY <1>0, MovedTies DEF Core
<1>6. Tied(s) => Tied(t)
  BY DEF Tied, Moved, Turned
<1> QED
  BY <1>0, <1>1, <1>2, <1>3, <1>4, <1>5, <1>6 DEF Core, SameRr

(* The book of a transaction that goes on *)
LEMMA MovedBook ==
  ASSUME NEW s, NEW t, NEW r, NEW st, NEW told, r \in DOMAIN s.trans, Moved(s, t, r, st, told),
         s.trans[r].ti # NoTi, st \notin {"NULL", "MM_CONNECTION_PEND"},
         (Told(s.mncc, r) \cup told) \cap Over = {},
         Rings(s.calls, r) => st \in RingStates,
         Listed(s.calls, r) \/ st = "RELEASE_REQ" \/ Told(s.mncc, r) \cup told # {},
         st = "CALL_PRESENT" => Told(s.mncc, r) \cup told = {"SETUP_IND"},
         "SETUP_IND" \in Told(s.mncc, r) \cup told => st = "CALL_PRESENT"
  PROVE  Book(t.trans, t.calls, t.mncc, r)
<1>1. /\ r \in DOMAIN t.trans /\ t.trans[r].state = st /\ t.trans[r].ti = s.trans[r].ti
      /\ t.calls = s.calls /\ Told(t.mncc, r) = Told(s.mncc, r) \cup told
  BY DEF Moved, Turned, SameApp, ToldMore
<1> QED
  BY <1>1 DEF Book, Over

(* The book of a transaction of which call control changed nothing. *)
LEMMA MovedNotBook ==
  ASSUME NEW s, NEW t, NEW r, NEW st, NEW told, r \in DOMAIN s.trans, Moved(s, t, r, st, told),
         st = s.trans[r].state, told = {}, Book(s.trans, s.calls, s.mncc, r)
  PROVE  Book(t.trans, t.calls, t.mncc, r)
<1>1. /\ r \in DOMAIN t.trans /\ t.trans[r].state = st /\ t.trans[r].ti = s.trans[r].ti
      /\ t.calls = s.calls /\ Told(t.mncc, r) = Told(s.mncc, r)
  BY DEF Moved, Turned, SameApp, ToldMore
<1> QED
  BY <1>1 DEF Book

(* When a transaction moves, the books of the others stay. *)
LEMMA MovedBooksBut ==
  ASSUME NEW s, NEW t, NEW r, NEW st, NEW told, r \in DOMAIN s.trans, Moved(s, t, r, st, told),
         BooksBut(s, r), "SETUP_IND" \in told => NoSetup(s)
  PROVE  BooksBut(t, r)
<1>1. OneSetup(t.mncc) /\ Distinct(t.calls)
  BY DEF BooksBut, Moved, ToldMore, NoSetup, SameApp
<1>2. ASSUME NEW q \in Refs \ {r} PROVE Book(t.trans, t.calls, t.mncc, q)
  <2>1. /\ TransRow(s, t, q) /\ CallRow(s, t, q) /\ Told(t.mncc, q) = Told(s.mncc, q)
    BY MovedRows
  <2> QED
    BY <2>1, BookRow DEF BooksBut
<1> QED
  BY <1>1, <1>2 DEF BooksBut

-----------------------------------------------------------------------------
(* A transaction that ends *)

(* When a transaction ends, those of the others stay. *)
LEMMA EndedRows ==
  ASSUME NEW s, NEW t, NEW r, NEW told, Ended(s, t, r, told)
  PROVE  \A q : q # r =>
           /\ TransRow(s, t, q) /\ ConnRow(s, t, q) /\ CallRow(s, t, q)
           /\ Ups(t.mmxx, q) = Ups(s.mmxx, q) /\ Told(t.mncc, q) = Told(s.mncc, q)
  BY DEF Ended, TransRow, ConnRow, CallRow, Without, Parted, SameApp, LostUp, ToldMore

(* When a transaction ends with its connection, the others stay tied to
   theirs. *)
LEMMA EndedTies ==
  ASSUME NEW s \in Phones, NEW t, NEW r \in Refs, NEW told, r \in DOMAIN s.trans,
         Ended(s, t, r, told), Ties(s), \A m \in Ups(s.mmxx, r) : m.prim \in Gone,
         s.mm \in {"MM_IDLE", "WAIT_NETWORK_CMD"} => AllPending(s)
  PROVE  Ties(t)
<1>1. \A q \in Refs : q # r => Tie(t.trans, t.conns, t.mmxx, q)
  BY EndedRows, TieRow DEF Ties
<1>2. Tie(s.trans, s.conns, s.mmxx, r)
  BY DEF Ties
<1>3. r \notin DOMAIN t.trans /\ Parted(s, t, r)
  BY DEF Ended, Without
<1>4. \A m \in Ups(t.mmxx, r) : m \in Ups(s.mmxx, r) \/ (m.prim = "REL_IND" /\ ~Joined(s.conns, r))
  BY DEF Ended, LostUp
<1>5. CASE ~Joined(t.conns, r)
  <2>1. ~Pend(t.conns, r)
    BY <1>5, PendJoined
  <2>2. Tie(t.trans, t.conns, t.mmxx, r)
    BY <1>3, <1>4, <1>5, <2>1 DEF Tie, Gone
  <2> QED
    BY <1>1, <2>2 DEF Ties, Ended, Parted, LostUp, OwnIdentifiers, Without
<1>6. CASE Joined(t.conns, r)
  <2>1. t.conns = s.conns /\ Pend(s.conns, r) /\ Joined(s.conns, r)
    BY <1>3, <1>6 DEF Parted, AllPending
  <2>2. Ups(s.mmxx, r) = {}
    BY <1>2, <2>1 DEF Tie
  <2>3. Ups(t.mmxx, r) = {}
    BY <1>4, <2>1, <2>2
  <2>4. Tie(t.trans, t.conns, t.mmxx, r)
    BY <1>2, <1>3, <2>1, <2>3 DEF Tie
  <2> QED
    BY <1>1, <2>4 DEF Ties, Ended, Parted, LostUp, OwnIdentifiers, Without
<1> QED
  BY <1>5, <1>6

(* When a transaction ends, the invariant but the books holds on. *)
LEMMA EndedCore ==
  ASSUME NEW s, NEW t, NEW r, NEW told, NEW a, Core(s, a), r \in DOMAIN s.trans,
         Ended(s, t, r, told), "SETUP_IND" \notin told,
         \A m \in Ups(s.mmxx, r) : m.prim \in Gone,
         s.trans[r].ti = NoTi \/ (s.rsl = <<>> /\ ~News(s.rrUp))
  PROVE  Core(t, a)
<1>0. s \in Phones /\ t \in Phones /\ r \in Refs /\ SameRr(s, t) /\ a \in 0..5
  BY PhoneTypes DEF Core, Ended
<1>1. Signals(t, a)
  BY <1>0, SignalsSame DEF Core
<1>2. Quiet(t, a)
  <2>1. AllGone(s) => AllGone(t)
    BY LostGone DEF Ended
  <2>2. NoSetup(s) => NoSetup(t)
    BY ToldSetup DEF Ended
  <2> QED
    BY <1>0, <2>1, <2>2, QuietMore DEF Core
<1>3. Link(t, a)
  <2>1. /\ s.rr = t.rr /\ s.rrEstReq = t.rrEstReq /\ s.rsl = t.rsl /\ s.rrUp = t.rrUp
        /\ s.relWait = t.relWait
    BY <1>0 DEF SameRr
  <2>2. AllPending(s) => AllPending(t)
    <3> SUFFICES ASSUME AllPending(s), NEW q \in Refs, Joined(t.conns, q) PROVE Pend(t.conns, q)
      BY DEF AllPending
    <3>1. CASE q = r
      <4>1. t.conns = s.conns
        BY <3>1 DEF Ended, Parted
      <4> QED
        BY <4>1 DEF AllPending
    <3>2. CASE q # r
      BY <3>2 DEF AllPending, Ended, Parted
    <3> QED
      BY <3>1, <3>2
  <2>3. t.conns = <<>> => AllPending(t)
    BY <1>0, NoneJoined, PhoneTypes DEF AllPending
  <2>4. MmMoved(s, t) /\ Link(s, a)
    BY DEF Ended, Core
  <2>5. t.mm = s.mm \/ (s.mm # "MM_IDLE" /\ s.mm # "WAIT_RR_CONN_MM_CON" /\ t.mm = "MM_CONN_ACTIVE")
        \/ (s.mm # "MM_IDLE" /\ s.mm # "WAIT_RR_CONN_MM_CON" /\ t.mm = "WAIT_NETWORK_CMD" /\ AllPending(t))
    BY <2>3, <2>4 DEF MmMoved
  <2> QED
    BY <2>1, <2>2, <2>4, <2>5 DEF Link
<1>4. Account(t)
  <2>1. ~Later(s, r)
    BY <1>0 DEF Core, Account, Unused
  <2>2. t.moRef = s.moRef /\ t.mtRef = s.mtRef /\ t.rsl = s.rsl /\ t.rrUp = s.rrUp
    BY DEF Ended, SameApp, SameRr
  <2>3. ASSUME NEW q \in Refs, Later(t, q) PROVE Unused(t, q)
    <3>1. Later(s, q) /\ q # r
      BY <2>1, <2>2, <2>3 DEF Later
    <3>2. Unused(s, q)
      BY <3>1 DEF Core, Account
    <3>3. /\ TransRow(s, t, q) /\ ConnRow(s, t, q) /\ CallRow(s, t, q)
          /\ Ups(t.mmxx, q) = Ups(s.mmxx, q) /\ Told(t.mncc, q) = Told(s.mncc, q)
      BY <3>1, EndedRows
    <3> QED
      BY <3>2, <3>3, UnusedRow
  <2>4. CASE s.rsl = <<>> /\ ~News(s.rrUp)
    BY <2>2, <2>3, <2>4, NewsPlaced DEF Core, Account
  <2>5. CASE s.trans[r].ti = NoTi
    <3>1. ASSUME NEW m, Placed(s, m) PROVE Placed(t, m)
      <4> SUFFICES ASSUME m.type \in CcMsgs, s.mtRef \notin MtRefs
                   PROVE  \E q \in Refs : Joined(t.conns, q) /\ TiOf(t.conns, q) = m.ti
        BY <2>2, <3>1 DEF Placed
      <4>1. PICK q \in Refs : Joined(s.conns, q) /\ TiOf(s.conns, q) = m.ti
        BY <3>1 DEF Placed
      <4>2. m.ti # NoTi
        BY <3>1, Identifiers DEF Placed
      <4>3. q # r
        BY <1>0, <2>5, <4>1, <4>2 DEF Core, Ties, Tie
      <4> QED
        BY <4>1, <4>3, EndedRows DEF ConnRow
    <3> QED
      BY <2>2, <2>3, <3>1 DEF Core, Account
  <2> QED
    BY <2>4, <2>5
<1>5. Ties(t)
  BY <1>0, EndedTies DEF Core, Link
<1>6. Tied(s) => Tied(t)
  <2> SUFFICES ASSUME Tied(s), NEW q \in DOMAIN t.trans
               PROVE  Joined(t.conns, q) \/ t.trans[q].ti = NoTi
    BY DEF Tied
  <2>1. q # r /\ q \in DOMAIN s.trans /\ t.trans[q] = s.trans[q]
    BY DEF Ended, Without
  <2> QED
    BY <2>1, EndedRows DEF Tied, ConnRow
<1> QED
  BY <1>0, <1>1, <1>2, <1>3, <1>4, <1>5, <1>6 DEF Core, SameRr

(* The book of a call whose transaction ended: the user is told, or still
   dials. *)
LEMMA EndedBook ==
  ASSUME NEW s, NEW t, NEW r \in Refs, NEW told, Ended(s, t, r, told),
         Listed(s.calls, r) => \/ (Told(s.mncc, r) \cup told) \cap Over # {}
                               \/ Young(s.calls, r) /\ ~Rings(s.calls, r)
                                  /\ Told(s.mncc, r) \cup told = {}
  PROVE  Book(t.trans, t.calls, t.mncc, r)
<1>1. /\ r \notin DOMAIN t.trans /\ t.calls = s.calls
      /\ Told(t.mncc, r) = Told(s.mncc, r) \cup told
  BY DEF Ended, Without, SameApp, ToldMore
<1>2. s.calls \in Seq(Call)
  BY <1>1, PhoneTypes DEF Ended
<1>3. Rings(s.calls, r) => Listed(s.calls, r)
  BY <1>2, CallParts
<1> QED
  BY <1>1, <1>3 DEF Book

(* When a transaction ends, the books of the others stay. *)
LEMMA EndedBooksBut ==
  ASSUME NEW s, NEW t, NEW r, NEW told, Ended(s, t, r, told), BooksBut(s, r), "SETUP_IND" \notin told
  PROVE  BooksBut(t, r)
<1>1. OneSetup(t.mncc) /\ Distinct(t.calls)
  BY DEF BooksBut, Ended, ToldMore, SameApp
<1>2. ASSUME NEW q \in Refs \ {r} PROVE Book(t.trans, t.calls, t.mncc, q)
  <2>1. /\ TransRow(s, t, q) /\ CallRow(s, t, q) /\ Told(t.mncc, q) = Told(s.mncc, q)
    BY EndedRows
  <2> QED
    BY <2>1, BookRow DEF BooksBut
<1> QED
  BY <1>1, <1>2 DEF BooksBut

-----------------------------------------------------------------------------
(* What a request of layer 4, a message of the network and a timer do to a
   transaction *)

(* A transaction of call control agrees with its connection. *)
LEMMA CoreAgrees ==
  ASSUME NEW s, NEW a, NEW r, Core(s, a), r \in DOMAIN s.trans
  PROVE  /\ Agrees(s, r) /\ r \in Refs /\ s.trans[r] \in Trans
         /\ s.trans[r].state \in CcStates /\ s.trans[r].ti \in Tis \cup {NoTi}
         /\ s.trans[r].timer \in CcTimers
<1>1. s \in Phones /\ r \in Refs /\ s.trans[r] \in Trans
  BY PhoneTypes DEF Core
<1>2. Agrees(s, r)
  BY <1>1 DEF Agrees, Core, Ties, Tie
<1> QED
  BY <1>1, <1>2 DEF Trans

(* The state and the identifier of a transaction that moved. *)
LEMMA MovedTrans ==
  ASSUME NEW s, NEW t, NEW r, NEW st, NEW told, Agrees(s, r), Moved(s, t, r, st, told)
  PROVE  t.trans[r] \in Trans /\ t.trans[r].state = st /\ t.trans[r].ti = s.trans[r].ti
  BY MovedAgrees, PhoneTypes DEF Agrees

(* A transaction that moved enters a state, with its timer. *)
LEMMA MovedEnter ==
  ASSUME NEW s, NEW t, NEW r, NEW st, NEW told, Agrees(s, r), Moved(s, t, r, st, told),
         NEW state \in CcStates, NEW timer \in CcTimers
  PROVE  Moved(s, Enter(t, r, state, timer), r, state, told)
<1> DEFINE w == [t.trans[r] EXCEPT !.state = state, !.timer = timer]
<1>1. w \in Trans /\ w.state = state /\ w.ti = s.trans[r].ti
  <2>1. t.trans[r] \in Trans /\ t.trans[r].state = st /\ t.trans[r].ti = s.trans[r].ti
    BY MovedTrans
  <2> QED
    BY <2>1 DEF Trans
<1>2. Enter(t, r, state, timer) = Put(t, r, w)
  BY DEF Enter
<1> HIDE DEF w
<1> QED
  BY <1>1, <1>2, MovedPut

(* A transaction that moved enters a state and keeps its timer. *)
LEMMA MovedKeep ==
  ASSUME NEW s, NEW t, NEW r, NEW st, NEW told, Agrees(s, r), Moved(s, t, r, st, told),
         NEW state \in CcStates
  PROVE  Moved(s, Keep(t, r, state), r, state, told)
<1> DEFINE w == [t.trans[r] EXCEPT !.state = state]
<1>1. w \in Trans /\ w.state = state /\ w.ti = s.trans[r].ti
  <2>1. t.trans[r] \in Trans /\ t.trans[r].state = st /\ t.trans[r].ti = s.trans[r].ti
    BY MovedTrans
  <2> QED
    BY <2>1 DEF Trans
<1>2. Keep(t, r, state) = Put(t, r, w)
  BY DEF Keep
<1> HIDE DEF w
<1> QED
  BY <1>1, <1>2, MovedPut

(* A transaction that moved has its timer stopped. *)
LEMMA MovedStop ==
  ASSUME NEW s, NEW t, NEW r, NEW st, NEW told, Agrees(s, r), Moved(s, t, r, st, told)
  PROVE  Moved(s, Stop(t, r), r, st, told)
<1> DEFINE w == [t.trans[r] EXCEPT !.timer = "none"]
<1>1. w \in Trans /\ w.state = st /\ w.ti = s.trans[r].ti
  <2>1. t.trans[r] \in Trans /\ t.trans[r].state = st /\ t.trans[r].ti = s.trans[r].ti
    BY MovedTrans
  <2> QED
    BY <2>1 DEF Trans, CcTimers
<1>2. Stop(t, r) = Put(t, r, w)
  BY DEF Stop
<1> HIDE DEF w
<1> QED
  BY <1>1, <1>2, MovedPut

(* The identifier it has is written again. *)
LEMMA MovedWithTi ==
  ASSUME NEW s, NEW r, Agrees(s, r)
  PROVE  Moved(s, WithTi(s, r, s.trans[r].ti), r, s.trans[r].state, {})
<1> DEFINE st == s.trans[r].state
           w == [s.trans[r] EXCEPT !.ti = s.trans[r].ti]
<1>1. Moved(s, s, r, st, {})
  BY MovedNot
<1>2. s.trans[r] \in Trans
  BY <1>1, MovedTrans
<1>3. w \in Trans /\ w.state = st /\ w.ti = s.trans[r].ti
  BY <1>2 DEF Trans
<1>4. WithTi(s, r, s.trans[r].ti) = Put(s, r, w)
  BY DEF WithTi
<1> HIDE DEF w
<1> QED
  BY <1>1, <1>3, <1>4, MovedPut

(* A transaction that moved enters a state, with its timer, and sends a
   message. *)
LEMMA MovedEnterData ==
  ASSUME NEW s, NEW t, NEW r, NEW st, NEW told, Agrees(s, r), Moved(s, t, r, st, told),
         NEW state \in CcStates, NEW timer \in CcTimers
  PROVE  Moved(s, Data(Enter(t, r, state, timer), r), r, state, told)
  BY MovedEnter, MovedData

(* A transaction that moved enters a state and sends a message. *)
LEMMA MovedKeepData ==
  ASSUME NEW s, NEW t, NEW r, NEW st, NEW told, Agrees(s, r), Moved(s, t, r, st, told),
         NEW state \in CcStates
  PROVE  Moved(s, Data(Keep(t, r, state), r), r, state, told)
  BY MovedKeep, MovedData

(* mncc_tx_to_cc *)
L4Prims == {"CALL_CONF_REQ", "ALERT_REQ", "SETUP_RSP", "HOLD_REQ", "RETRIEVE_REQ", "DISC_REQ", "REL_REQ"}
Next4(state, prim) ==
  CASE prim = "CALL_CONF_REQ" -> "MO_TERM_CALL_CONF"
    [] prim = "ALERT_REQ" -> "CALL_RECEIVED"
    [] prim = "SETUP_RSP" -> "CONNECT_REQUEST"
    [] prim \in {"HOLD_REQ", "RETRIEVE_REQ"} -> state
    [] prim = "DISC_REQ" -> "DISCONNECT"
    [] prim = "REL_REQ" -> "RELEASE_REQ"

(* mncc_tx_to_cc: a request is ignored, or ends the transaction, or moves
   it on. *)
LEMMA FromL4Does ==
  ASSUME NEW s, NEW r, Agrees(s, r), NEW prim \in L4Prims
  PROVE  \/ ~Accepts(s.trans[r].state, prim) /\ FromL4(s, prim, r) = s
         \/ /\ prim = "REL_REQ" /\ s.trans[r].state = "MM_CONNECTION_PEND"
            /\ Ended(s, FromL4(s, prim, r), r, {})
         \/ /\ Accepts(s.trans[r].state, prim)
            /\ prim # "REL_REQ" \/ s.trans[r].state # "MM_CONNECTION_PEND"
            /\ Moved(s, FromL4(s, prim, r), r, Next4(s.trans[r].state, prim), {})
<1> DEFINE u == s.trans[r].state
<1>1. Has(s, r)
  BY DEF Agrees, Has
<1>2. Moved(s, s, r, u, {})
  BY MovedNot
<1>3. CASE ~Accepts(u, prim)
  BY <1>1, <1>3 DEF FromL4
<1>4. CASE Accepts(u, prim) /\ prim = "REL_REQ" /\ u = "MM_CONNECTION_PEND"
  <2>1. FromL4(s, prim, r) = RelNullFree(s, r)
    BY <1>1, <1>4 DEF FromL4
  <2> QED
    BY <1>2, <1>4, <2>1, MovedEnds
<1>5. CASE Accepts(u, prim) /\ (prim # "REL_REQ" \/ u # "MM_CONNECTION_PEND")
  <2>1. Moved(s, TxCallConf(s, r), r, "MO_TERM_CALL_CONF", {})
    BY <1>2, MovedKeepData DEF TxCallConf, CcStates
  <2>2. Moved(s, TxAlerting(s, r), r, "CALL_RECEIVED", {})
    BY <1>2, MovedKeepData DEF TxAlerting, CcStates
  <2>3. Moved(s, TxConnect(s, r), r, "CONNECT_REQUEST", {})
    BY <1>2, MovedEnterData DEF TxConnect, CcStates, CcTimers
  <2>4. Moved(s, TxDisconnect(s, r), r, "DISCONNECT", {})
    BY <1>2, MovedEnterData DEF TxDisconnect, CcStates, CcTimers
  <2>5. Moved(s, TxRelease(s, r), r, "RELEASE_REQ", {})
    BY <1>2, MovedEnterData DEF TxRelease, CcStates, CcTimers
  <2>6. Moved(s, Data(s, r), r, u, {})
    BY <1>2, MovedData
  <2>7. FromL4(s, prim, r) = CASE prim = "CALL_CONF_REQ" -> TxCallConf(s, r)
         [] prim = "ALERT_REQ" -> TxAlerting(s, r)
         [] prim = "SETUP_RSP" -> TxConnect(s, r)
         [] prim \in {"HOLD_REQ", "RETRIEVE_REQ"} -> Data(s, r)
         [] prim = "DISC_REQ" -> TxDisconnect(s, r)
         [] OTHER -> TxRelease(s, r)
    BY <1>1, <1>5 DEF FromL4, L4Prims
  <2>8. Moved(s, FromL4(s, prim, r), r, Next4(u, prim), {})
    BY <2>1, <2>2, <2>3, <2>4, <2>5, <2>6, <2>7 DEF Next4, L4Prims
  <2> QED
    BY <1>5, <2>8
<1> QED
  BY <1>3, <1>4, <1>5

(* gsm48_cc_timeout *)
LEMMA ExpiredDoes ==
  ASSUME NEW s, NEW r, Agrees(s, r)
  PROVE  \/ Ended(s, Expired(s, r), r, {"REL_IND"})
         \/ Ended(s, Expired(s, r), r, {"REL_IND", "DISC_IND"})
<1> DEFINE u == s.trans[r].state
           timer == s.trans[r].timer
           off == Stop(s, r)
           after == IF timer = "T308" THEN TxRelease(off, r) ELSE off
           told == ToL4(after, "REL_IND", r)
           both == ToL4(told, "DISC_IND", r)
<1>1. Moved(s, off, r, u, {})
  <2>1. Moved(s, s, r, u, {})
    BY MovedNot
  <2> QED
    BY <2>1, MovedStop
<1>2. \E st : Moved(s, after, r, st, {})
  <2>1. Moved(s, TxRelease(off, r), r, "RELEASE_REQ", {})
    BY <1>1, MovedEnterData DEF TxRelease, CcStates, CcTimers
  <2> QED
    BY <1>1, <2>1
<1>3. PICK st : Moved(s, after, r, st, {})
  BY <1>2
<1>4. Moved(s, told, r, st, {"REL_IND"})
  <2>1. Moved(s, told, r, st, {} \cup {"REL_IND"})
    BY <1>3, MovedTold DEF MnccPrims, Over
  <2> QED
    BY <2>1
<1>5. Moved(s, both, r, st, {"REL_IND", "DISC_IND"})
  <2>1. Moved(s, both, r, st, {"REL_IND"} \cup {"DISC_IND"})
    BY <1>4, MovedTold DEF MnccPrims, Over
  <2>2. {"REL_IND"} \cup {"DISC_IND"} = {"REL_IND", "DISC_IND"}
    OBVIOUS
  <2> QED
    BY <2>1, <2>2
<1>6. Moved(s, TxDisconnect(both, r), r, "DISCONNECT", {"REL_IND", "DISC_IND"})
  BY <1>5, MovedEnterData DEF TxDisconnect, CcStates, CcTimers
<1>7. Moved(s, TxRelease(told, r), r, "RELEASE_REQ", {"REL_IND"})
  BY <1>4, MovedEnterData DEF TxRelease, CcStates, CcTimers
<1>8. Expired(s, r) \in {RelNullFree(TxDisconnect(both, r), r), RelNullFree(TxRelease(told, r), r),
                         RelNullFree(told, r)}
  BY DEF Expired
<1> HIDE DEF told, both
<1> QED
  BY <1>4, <1>6, <1>7, <1>8, MovedEnds

(* gsm48_cc_data_ind *)
NetNext(state, type) ==
  IF ~Handles(state, type) THEN state
  ELSE CASE type \in {"CALL_PROC", "PROC_T310"} -> "MO_CALL_PROC"
         [] type = "ALERTING" -> "CALL_DELIVERED"
         [] type \in {"CONNECT", "CONNECT_ACK"} -> "ACTIVE"
         [] type = "SETUP" -> "CALL_PRESENT"
         [] type = "MODIFY" -> "MO_ORIG_MODIFY"
         [] type \in {"DISCONNECT", "DISCONNECT_8"} -> "DISCONNECT"
         [] OTHER -> state
NetTold(state, type) ==
  IF ~Handles(state, type) THEN {}
  ELSE CASE type \in {"CALL_PROC", "PROC_T310"} -> {"CALL_PROC_IND"}
         [] type = "ALERTING" -> {"ALERT_IND"}
         [] type = "CONNECT" -> {"SETUP_CNF"}
         [] type = "CONNECT_ACK" -> {"SETUP_COMPL_IND"}
         [] type = "SETUP" -> {"SETUP_IND"}
         [] type = "MODIFY" -> {"MODIFY_IND"}
         [] type = "DISCONNECT" -> {"DISC_IND"}
         [] type = "DISCONNECT_8" -> {"DISC_IND_8"}
         [] type = "HOLD_ACK" -> {"HOLD_CNF"}
         [] type = "RETR_ACK" -> {"RETRIEVE_CNF"}
         [] type \in {"PROGRESS", "HOLD_REJ"} -> {"OTHER_IND"}
         [] OTHER -> {}
NetOver(state, type) ==
  CASE state = "RELEASE_REQ" -> {"REL_CNF"}
    [] state = "NULL" /\ type = "RELEASE" -> {}
    [] state = "CALL_PRESENT" /\ type = "RELEASE_COMPL" -> {"REJ_IND"}
    [] OTHER -> {"REL_IND"}

(* A transaction that moved without a word tells layer 4 one thing. *)
LEMMA ToldFirst ==
  ASSUME NEW s, NEW t, NEW r, NEW st, Agrees(s, r), Moved(s, t, r, st, {}), NEW p \in MnccPrims
  PROVE  Moved(s, ToL4(t, p, r), r, st, {p})
<1>1. Moved(s, ToL4(t, p, r), r, st, {} \cup {p})
  BY MovedTold
<1> QED
  BY <1>1

(* gsm48_cc_rx_release and gsm48_cc_rx_release_compl: the transaction is
   over, and layer 4 told of it. *)
LEMMA ReleasedDoes ==
  ASSUME NEW s, NEW t, NEW r, NEW st, Agrees(s, r), Moved(s, t, r, st, {}),
         NEW type \in {"RELEASE", "RELEASE_COMPL"}
  PROVE  Ended(s, RxRelease(t, r, type), r, NetOver(st, type))
<1> DEFINE off == Stop(t, r)
<1>1. Moved(s, off, r, st, {})
  BY MovedStop
<1>2. off.trans[r].state = st
  BY <1>1, MovedTrans
<1> HIDE DEF off
<1>3. /\ Moved(s, ToL4(off, "REL_CNF", r), r, st, {"REL_CNF"})
      /\ Moved(s, ToL4(off, "REJ_IND", r), r, st, {"REJ_IND"})
      /\ Moved(s, ToL4(off, "REL_IND", r), r, st, {"REL_IND"})
  BY <1>1, ToldFirst DEF MnccPrims, Over
<1>4. Moved(s, ToL4(Data(off, r), "REL_IND", r), r, st, {"REL_IND"})
  <2>1. Moved(s, Data(off, r), r, st, {})
    BY <1>1, MovedData
  <2> QED
    BY <2>1, ToldFirst DEF MnccPrims, Over
<1>5. Moved(s, Released(off, r, type), r, st, NetOver(st, type))
  BY <1>1, <1>2, <1>3, <1>4 DEF Released, NetOver
<1>6. RxRelease(t, r, type) = RelNullFree(Released(off, r, type), r)
  BY DEF RxRelease, off
<1> QED
  BY <1>5, <1>6, MovedEnds

(* gsm48_cc_data_ind: a message of the network ends the transaction or
   moves it on. *)
LEMMA DataIndDoes ==
  ASSUME NEW s, NEW r, NEW m, Agrees(s, r), m.type \in CcMsgs, m.ti = s.trans[r].ti
  PROVE  IF m.type \in {"RELEASE", "RELEASE_COMPL"}
         THEN Ended(s, DataInd(s, r, m), r, NetOver(s.trans[r].state, m.type))
         ELSE Moved(s, DataInd(s, r, m), r, NetNext(s.trans[r].state, m.type),
                    NetTold(s.trans[r].state, m.type))
<1> DEFINE u == s.trans[r].state
           t == WithTi(s, r, m.ti)
           x == DataInd(s, r, m)
<1>1. Moved(s, t, r, u, {})
  BY MovedWithTi
<1> HIDE DEF t
<1>2. CASE ~Handles(u, m.type)
  <2>1. x = Data(t, r)
    BY <1>2 DEF DataInd, t
  <2>2. m.type \notin {"RELEASE", "RELEASE_COMPL"}
    BY <1>2 DEF Handles
  <2> QED
    BY <1>1, <1>2, <2>1, <2>2, MovedData DEF NetNext, NetTold
<1>3. CASE Handles(u, m.type)
  <2>0. x = CASE m.type = "CALL_PROC" -> RxCallProceeding(t, r, "none")
         [] m.type = "PROC_T310" -> RxCallProceeding(t, r, "T310")
         [] m.type = "ALERTING" -> RxAlerting(t, r)
         [] m.type = "CONNECT" -> RxConnect(t, r)
         [] m.type = "SETUP" -> RxSetup(t, r)
         [] m.type = "CONNECT_ACK" -> RxConnectAck(t, r)
         [] m.type = "MODIFY" -> RxModify(t, r)
         [] m.type = "DISCONNECT" -> RxDisconnect(t, r, "DISC_IND")
         [] m.type = "DISCONNECT_8" -> RxDisconnect(t, r, "DISC_IND_8")
         [] m.type \in {"RELEASE", "RELEASE_COMPL"} -> RxRelease(t, r, m.type)
         [] m.type = "HOLD_ACK" -> ToL4(t, "HOLD_CNF", r)
         [] m.type = "RETR_ACK" -> ToL4(t, "RETRIEVE_CNF", r)
         [] m.type \in {"PROGRESS", "HOLD_REJ"} -> ToL4(t, "OTHER_IND", r)
         [] OTHER -> t
    BY <1>3 DEF DataInd, t
  <2>1. CASE m.type \in {"CALL_PROC", "PROC_T310"}
    <3>1. ASSUME NEW timer \in CcTimers
          PROVE  Moved(s, RxCallProceeding(t, r, timer), r, "MO_CALL_PROC", {"CALL_PROC_IND"})
      <4>1. Moved(s, Enter(t, r, "MO_CALL_PROC", timer), r, "MO_CALL_PROC", {})
        BY <1>1, MovedEnter DEF CcStates
      <4> QED
        BY <4>1, ToldFirst DEF RxCallProceeding, MnccPrims
    <3>2. "none" \in CcTimers /\ "T310" \in CcTimers
      BY DEF CcTimers
    <3>3. x = RxCallProceeding(t, r, "none") \/ x = RxCallProceeding(t, r, "T310")
      BY <2>0, <2>1
    <3> QED
      BY <1>3, <2>1, <3>1, <3>2, <3>3 DEF NetNext, NetTold
  <2>2. CASE m.type = "ALERTING"
    <3>1. Moved(s, Enter(t, r, "CALL_DELIVERED", "none"), r, "CALL_DELIVERED", {})
      BY <1>1, MovedEnter DEF CcStates, CcTimers
    <3>2. Moved(s, RxAlerting(t, r), r, "CALL_DELIVERED", {"ALERT_IND"})
      BY <3>1, ToldFirst DEF RxAlerting, MnccPrims
    <3> QED
      BY <1>3, <2>0, <2>2, <3>2 DEF NetNext, NetTold
  <2>3. CASE m.type = "CONNECT"
    <3>1. Moved(s, Data(Enter(t, r, "ACTIVE", "none"), r), r, "ACTIVE", {})
      BY <1>1, MovedEnterData DEF CcStates, CcTimers
    <3>2. Moved(s, RxConnect(t, r), r, "ACTIVE", {"SETUP_CNF"})
      BY <3>1, ToldFirst DEF RxConnect, MnccPrims
    <3> QED
      BY <1>3, <2>0, <2>3, <3>2 DEF NetNext, NetTold
  <2>4. CASE m.type = "SETUP"
    <3>1. Moved(s, Keep(t, r, "CALL_PRESENT"), r, "CALL_PRESENT", {})
      BY <1>1, MovedKeep DEF CcStates
    <3>2. Moved(s, RxSetup(t, r), r, "CALL_PRESENT", {"SETUP_IND"})
      BY <3>1, ToldFirst DEF RxSetup, MnccPrims
    <3> QED
      BY <1>3, <2>0, <2>4, <3>2 DEF NetNext, NetTold
  <2>5. CASE m.type = "CONNECT_ACK"
    <3>1. Moved(s, Enter(t, r, "ACTIVE", "none"), r, "ACTIVE", {})
      BY <1>1, MovedEnter DEF CcStates, CcTimers
    <3>2. Moved(s, RxConnectAck(t, r), r, "ACTIVE", {"SETUP_COMPL_IND"})
      BY <3>1, ToldFirst DEF RxConnectAck, MnccPrims
    <3> QED
      BY <1>3, <2>0, <2>5, <3>2 DEF NetNext, NetTold
  <2>6. CASE m.type = "MODIFY"
    <3>1. Moved(s, Keep(t, r, "MO_ORIG_MODIFY"), r, "MO_ORIG_MODIFY", {})
      BY <1>1, MovedKeep DEF CcStates
    <3>2. Moved(s, RxModify(t, r), r, "MO_ORIG_MODIFY", {"MODIFY_IND"})
      BY <3>1, ToldFirst DEF RxModify, MnccPrims
    <3> QED
      BY <1>3, <2>0, <2>6, <3>2 DEF NetNext, NetTold
  <2>7. CASE m.type \in {"DISCONNECT", "DISCONNECT_8"}
    <3>1. Moved(s, Enter(t, r, "DISCONNECT", "none"), r, "DISCONNECT", {})
      BY <1>1, MovedEnter DEF CcStates, CcTimers
    <3>2. /\ Moved(s, RxDisconnect(t, r, "DISC_IND"), r, "DISCONNECT", {"DISC_IND"})
          /\ Moved(s, RxDisconnect(t, r, "DISC_IND_8"), r, "DISCONNECT", {"DISC_IND_8"})
      BY <3>1, ToldFirst DEF RxDisconnect, MnccPrims
    <3> QED
      BY <1>3, <2>0, <2>7, <3>2 DEF NetNext, NetTold
  <2>8. CASE m.type \in {"RELEASE", "RELEASE_COMPL"}
    BY <1>1, <2>0, <2>8, ReleasedDoes
  <2>9. CASE m.type \in {"HOLD_ACK", "RETR_ACK", "PROGRESS", "HOLD_REJ"}
    <3>1. /\ Moved(s, ToL4(t, "HOLD_CNF", r), r, u, {"HOLD_CNF"})
          /\ Moved(s, ToL4(t, "RETRIEVE_CNF", r), r, u, {"RETRIEVE_CNF"})
          /\ Moved(s, ToL4(t, "OTHER_IND", r), r, u, {"OTHER_IND"})
      BY <1>1, ToldFirst DEF MnccPrims
    <3> QED
      BY <1>3, <2>0, <2>9, <3>1 DEF NetNext, NetTold
  <2>10. CASE m.type = "STATUS"
    BY <1>1, <1>3, <2>0, <2>10 DEF NetNext, NetTold
  <2> QED
    BY <2>1, <2>2, <2>3, <2>4, <2>5, <2>6, <2>7, <2>8, <2>9, <2>10 DEF CcMsgs
<1> QED
  BY <1>2, <1>3

-----------------------------------------------------------------------------
(* What call control tells layer 4 of a reference without a transaction *)

(* mncc_recvmsg: one more thing is told, and nothing else changes. *)
LEMMA ToldFields ==
  ASSUME NEW s \in Phones, NEW r \in Refs, NEW p \in MnccPrims, NEW x, x = ToL4(s, p, r)
  PROVE  /\ x \in Phones /\ SameRr(s, x) /\ SameApp(s, x)
         /\ x.trans = s.trans /\ x.conns = s.conns /\ x.mm = s.mm /\ x.mtRef = s.mtRef
         /\ x.mmxx = s.mmxx /\ x.mncc # <<>> /\ ToldMore(s.mncc, x.mncc, r, {p})
<1>1. s.mncc \in Seq(MnccMsg)
  BY PhoneTypes
<1> DEFINE e == [prim |-> p, ref |-> r]
           v == Append(s.mncc, e)
<1>a. e \in MnccMsg /\ e.prim = p /\ e.ref = r
  BY DEF MnccMsg
<1>b. Grown(v, s.mncc, e)
  BY DEF Grown
<1>c. x = [s EXCEPT !.mncc = v]
  BY DEF ToL4, Phones
<1> HIDE DEF e, v
<1>2. /\ v \in Seq(MnccMsg) /\ v # <<>>
      /\ \A q : Told(v, q) = IF q = e.ref THEN Told(s.mncc, q) \cup {e.prim} ELSE Told(s.mncc, q)
      /\ OneSetup(s.mncc) /\ e.prim # "SETUP_IND" => OneSetup(v)
      /\ (\A q \in Refs : "SETUP_IND" \notin Told(s.mncc, q)) => OneSetup(v)
  BY <1>1, <1>a, <1>b, ToldAppend
<1>3. /\ x \in Phones /\ x.trans = s.trans /\ x.conns = s.conns /\ x.mm = s.mm /\ x.mtRef = s.mtRef
      /\ x.mncc = v /\ x.mmxx = s.mmxx /\ SameRr(s, x) /\ SameApp(s, x)
  BY <1>2, <1>c, ZenonT(60) DEF Phones, SameRr, SameApp
<1>4. ToldMore(s.mncc, v, r, {p})
  BY <1>2, <1>a DEF ToldMore
<1> QED
  BY <1>2, <1>3, <1>4

(* A request for a call without a transaction is answered by an end. *)
LEMMA ToldCore ==
  ASSUME NEW s, NEW a, NEW r \in Refs, Core(s, a), ~Later(s, r), r \notin DOMAIN s.trans,
         NEW x, x = ToL4(s, "REL_IND", r)
  PROVE  /\ Core(x, a) /\ x.trans = s.trans /\ x.mm = s.mm
         /\ \A q : Later(x, q) <=> Later(s, q)
         /\ BooksBut(s, r) => Books(x)
         /\ x.calls = s.calls /\ x.set = s.set
<1>1. /\ x \in Phones /\ SameRr(s, x) /\ SameApp(s, x)
      /\ x.trans = s.trans /\ x.conns = s.conns /\ x.mm = s.mm /\ x.mtRef = s.mtRef
      /\ x.mmxx = s.mmxx /\ ToldMore(s.mncc, x.mncc, r, {"REL_IND"})
  <2>1. s \in Phones /\ "REL_IND" \in MnccPrims
    BY DEF Core, MnccPrims, Over
  <2> QED
    BY <2>1, ToldFields
<1>2. Signals(x, a)
  BY <1>1, SignalsSame DEF Core
<1>3. Quiet(x, a)
  <2>1. AllGone(s) => AllGone(x)
    BY <1>1 DEF AllGone
  <2>2. NoSetup(s) => NoSetup(x)
    BY <1>1, ToldSetup
  <2> QED
    BY <1>1, <2>1, <2>2, QuietMore DEF Core
<1>4. Link(x, a)
  BY <1>1 DEF Core, Link, AllPending, SameRr
<1>5. \A q : Later(x, q) <=> Later(s, q)
  BY <1>1 DEF Later, SameApp
<1>6. Account(x)
  <2>1. ASSUME NEW q \in Refs, Later(x, q) PROVE Unused(x, q)
    <3>1. Unused(s, q) /\ q # r
      BY <1>5, <2>1 DEF Core, Account
    <3> QED
      BY <1>1, <3>1 DEF Unused, ToldMore, SameApp
  <2>2. /\ x.moRef = s.moRef /\ x.mtRef = s.mtRef /\ x.rsl = s.rsl /\ x.rrUp = s.rrUp
        /\ x.conns = s.conns
    BY <1>1 DEF SameApp, SameRr
  <2> QED
    BY <2>1, <2>2 DEF Core, Account, Placed
<1>7. Ties(x) /\ (Tied(s) => Tied(x))
  BY <1>1 DEF Core, Ties, Tied
<1>8. BooksBut(s, r) => Books(x)
  <2> SUFFICES ASSUME BooksBut(s, r) PROVE Books(x)
    OBVIOUS
  <2>1. ASSUME NEW q \in Refs \ {r} PROVE Book(x.trans, x.calls, x.mncc, q)
    BY <1>1, ZenonT(60) DEF BooksBut, ToldMore, SameApp, Book
  <2>2. Book(x.trans, x.calls, x.mncc, r)
    <3>1. "REL_IND" \in Told(x.mncc, r) /\ x.calls = s.calls
      BY <1>1 DEF ToldMore, SameApp
    <3> QED
      BY <1>1, <3>1 DEF Book, Over
  <2>3. Distinct(x.calls) /\ OneSetup(x.mncc)
    BY <1>1 DEF BooksBut, ToldMore, SameApp
  <2> QED
    BY <2>1, <2>2, <2>3 DEF Books
<1> QED
  BY <1>1, <1>2, <1>3, <1>4, <1>5, <1>6, <1>7, <1>8 DEF Core, SameRr, SameApp

-----------------------------------------------------------------------------
(* A request of layer 4, and the core *)

(* What a transaction that moved leaves alone: the list of the user, the
   settings, the references to come. *)
LEMMA AfterMoved ==
  ASSUME NEW s, NEW t, NEW r, NEW st, NEW told, Moved(s, t, r, st, told)
  PROVE  /\ t.calls = s.calls /\ t.set = s.set /\ \A q : Later(t, q) <=> Later(s, q)
  BY DEF Moved, SameApp, Later

(* What a transaction that ended leaves alone: the same. *)
LEMMA AfterEnded ==
  ASSUME NEW s, NEW t, NEW r, NEW told, Ended(s, t, r, told)
  PROVE  /\ t.calls = s.calls /\ t.set = s.set /\ \A q : Later(t, q) <=> Later(s, q)
  BY DEF Ended, SameApp, Later

(* A request of layer 4: the invariant but the book of that call holds on. *)
LEMMA FromL4Core ==
  ASSUME NEW s, NEW a, NEW r \in Refs, Core(s, a), ~Later(s, r), AllGone(s),
         NEW prim \in L4Prims,
         prim = "DISC_REQ" /\ r \in DOMAIN s.trans => s.trans[r].state # "MM_CONNECTION_PEND",
         NEW t, t = FromL4(s, prim, r)
  PROVE  /\ Core(t, a) /\ t.calls = s.calls /\ t.set = s.set /\ \A q : Later(t, q) <=> Later(s, q)
         /\ BooksBut(s, r) => BooksBut(t, r)
<1>1. CASE r \notin DOMAIN s.trans
  <2>1. t = ToL4(s, "REL_IND", r)
    BY <1>1 DEF FromL4, Has
  <2> QED
    BY <1>1, <2>1, ToldCore, BooksAre
<1>2. CASE r \in DOMAIN s.trans
  <2> DEFINE u == s.trans[r].state
  <2>0. /\ Agrees(s, r) /\ u \in CcStates
        /\ IF s.trans[r].ti = NoTi THEN u \in {"NULL", "MM_CONNECTION_PEND"}
           ELSE u # "MM_CONNECTION_PEND"
    BY <1>2, CoreAgrees DEF Core, Ties, Tie
  <2>1. CASE t = s
    BY <2>1
  <2>2. CASE u = "MM_CONNECTION_PEND" /\ Ended(s, t, r, {})
    <3>1. s.trans[r].ti = NoTi /\ \A m \in Ups(s.mmxx, r) : m.prim \in Gone
      BY <1>2, <2>0, <2>2 DEF AllGone
    <3>2. Core(t, a)
      BY <1>2, <2>2, <3>1, EndedCore
    <3>3. BooksBut(s, r) => BooksBut(t, r)
      BY <2>2, EndedBooksBut
    <3> QED
      BY <2>2, <3>2, <3>3, AfterEnded
  <2>3. CASE /\ Accepts(u, prim)
             /\ prim # "REL_REQ" \/ u # "MM_CONNECTION_PEND"
             /\ Moved(s, t, r, Next4(u, prim), {})
    <3>1. u # "NULL" /\ u # "MM_CONNECTION_PEND"
      BY <1>2, <2>3 DEF Accepts, L4Prims
    <3>2. Next4(u, prim) # "MM_CONNECTION_PEND" /\ s.trans[r].ti # NoTi
      BY <2>0, <3>1 DEF Next4, L4Prims
    <3>3. Core(t, a)
      BY <1>2, <2>3, <3>2, MovedCore
    <3>4. BooksBut(s, r) => BooksBut(t, r)
      BY <1>2, <2>3, MovedBooksBut
    <3> QED
      BY <2>3, <3>3, <3>4, AfterMoved
  <2> QED
    BY <2>0, <2>1, <2>2, <2>3, FromL4Does
<1> QED
  BY <1>1, <1>2

-----------------------------------------------------------------------------
(* The commands on a call of the user *)

(* A call is what its reference says of it, as references are distinct. *)
LEMMA CallIs ==
  ASSUME NEW calls \in Seq(Call), Distinct(calls), NEW i \in DOMAIN calls
  PROVE  /\ calls[i] \in Call /\ calls[i].ref \in Refs /\ Listed(calls, calls[i].ref)
         /\ Young(calls, calls[i].ref) <=> calls[i].init
         /\ Rings(calls, calls[i].ref) <=> calls[i].ring
         /\ (CHOOSE j \in DOMAIN calls : calls[j].ref = calls[i].ref) = i
<1>1. calls[i] \in Call
  OBVIOUS
<1>2. \A j \in DOMAIN calls : calls[j].ref = calls[i].ref => j = i
  BY DEF Distinct
<1> QED
  BY <1>1, <1>2 DEF Call, Listed, Young, Rings

(* A call of the user has a reference that was given out. *)
LEMMA ListedKnown ==
  ASSUME NEW s, NEW a, Core(s, a), NEW r \in Refs, Listed(s.calls, r)
  PROVE  ~Later(s, r)
  BY DEF Core, Account, Unused

(* The user asks something of a call: the invariant holds on. *)
LEMMA Asked ==
  ASSUME NEW s, NEW a, Inv(s, a), AllGone(s), NEW r \in Refs, Listed(s.calls, r),
         NEW prim \in {"HOLD_REQ", "RETRIEVE_REQ", "DISC_REQ", "REL_REQ", "SETUP_RSP"},
         prim \in {"DISC_REQ", "REL_REQ"} => NoSetup(s),
         prim = "DISC_REQ" => ~Young(s.calls, r),
         prim = "SETUP_RSP" => ~Rings(s.calls, r),
         NEW t, t = FromL4(s, prim, r)
  PROVE  Inv(t, a)
<1>0. /\ Core(s, a) /\ BooksBut(s, r) /\ Book(s.trans, s.calls, s.mncc, r) /\ ~Later(s, r)
      /\ prim \in L4Prims
  BY InvIs, BooksAre, ListedKnown DEF L4Prims
<1>1. CASE r \notin DOMAIN s.trans
  <2>1. t = ToL4(s, "REL_IND", r)
    BY <1>1 DEF FromL4, Has
  <2> QED
    BY <1>0, <1>1, <2>1, ToldCore, InvIs
<1>2. CASE r \in DOMAIN s.trans
  <2> DEFINE u == s.trans[r].state
             o == s.trans[r].ti
             told == Told(s.mncc, r)
  <2>0. /\ Agrees(s, r) /\ u \in CcStates
        /\ IF o = NoTi THEN u \in {"NULL", "MM_CONNECTION_PEND"} ELSE u # "MM_CONNECTION_PEND"
    BY <1>0, <1>2, CoreAgrees DEF Core, Ties, Tie
  <2>1. /\ u = "MM_CONNECTION_PEND" => Young(s.calls, r) /\ ~Rings(s.calls, r) /\ told = {}
        /\ u # "NULL" => told \cap Over = {}
        /\ u = "CALL_PRESENT" <=> "SETUP_IND" \in told
        /\ Rings(s.calls, r) /\ u # "NULL" => u \in RingStates
    BY <1>0, <1>2 DEF Book, RingStates
  <2>2. Core(t, a) /\ (BooksBut(s, r) => BooksBut(t, r))
    BY <1>0, <2>1, FromL4Core
  <2>3. Book(t.trans, t.calls, t.mncc, r)
    <3>1. CASE t = s
      BY <1>0, <3>1
    <3>2. CASE prim = "REL_REQ" /\ u = "MM_CONNECTION_PEND" /\ Ended(s, t, r, {})
      BY <2>1, <3>2, EndedBook
    <3>3. CASE /\ Accepts(u, prim)
               /\ prim # "REL_REQ" \/ u # "MM_CONNECTION_PEND"
               /\ Moved(s, t, r, Next4(u, prim), {})
      <4>1. CASE prim \in {"HOLD_REQ", "RETRIEVE_REQ"}
        <5>1. Next4(u, prim) = u
          BY <4>1 DEF Next4
        <5> QED
          BY <1>0, <1>2, <3>3, <5>1, MovedNotBook
      <4>2. CASE prim \in {"DISC_REQ", "REL_REQ", "SETUP_RSP"}
        <5>1. u # "NULL" /\ u # "MM_CONNECTION_PEND"
          BY <2>1, <3>3, <4>2 DEF Accepts
        <5>2. u # "CALL_PRESENT"
          BY <2>1, <3>3, <4>2 DEF Accepts, NoSetup
        <5>3. Next4(u, prim) \in {"DISCONNECT", "RELEASE_REQ", "CONNECT_REQUEST"}
          BY <4>2 DEF Next4
        <5>4. Rings(s.calls, r) => Next4(u, prim) \in RingStates
          BY <4>2 DEF Next4, RingStates
        <5>5. /\ (told \cup {}) \cap Over = {} /\ "SETUP_IND" \notin told \cup {}
              /\ o # NoTi
          BY <2>0, <2>1, <5>1, <5>2
        <5> QED
          BY <1>2, <3>3, <5>3, <5>4, <5>5, MovedBook
      <4> QED
        BY <4>1, <4>2
    <3> QED
      BY <1>0, <2>0, <3>1, <3>2, <3>3, FromL4Does
  <2> QED
    BY <1>0, <2>2, <2>3, BooksAre, InvIs
<1> QED
  BY <1>1, <1>2

-----------------------------------------------------------------------------
(* Changes of the list of calls *)

SameCc(s, t) == t.trans = s.trans /\ t.mncc = s.mncc /\ t.mmxx = s.mmxx
SameMm(s, t) == t.mm = s.mm /\ t.conns = s.conns /\ t.mtRef = s.mtRef
SameBut(s, t) == SameRr(s, t) /\ SameCc(s, t) /\ SameMm(s, t) /\ t.moRef = s.moRef /\ t.set = s.set

(* Another list of calls of references given out: the invariant but the
   books holds on. *)
LEMMA CallsCore ==
  ASSUME NEW s, NEW t \in Phones, NEW a, Core(s, a), SameBut(s, t),
         \A q \in Refs : Listed(t.calls, q) => ~Later(s, q)
  PROVE  Core(t, a) /\ \A q : Later(t, q) <=> Later(s, q)
<1>1. SameRr(s, t)
  BY DEF SameBut
<1>2. Signals(t, a)
  BY <1>1, SignalsSame DEF Core
<1>3. Quiet(t, a) /\ Link(t, a)
  BY DEF Core, Quiet, AllGone, NoSetup, Link, AllPending, SameBut, SameRr, SameCc, SameMm
<1>4. \A q : Later(t, q) <=> Later(s, q)
  BY DEF Later, SameBut, SameMm
<1>5. Account(t)
  BY <1>4 DEF Core, Account, Unused, Placed, SameBut, SameRr, SameCc, SameMm
<1>6. Ties(t) /\ (Tied(s) => Tied(t))
  BY DEF Core, Ties, Tied, SameBut, SameCc, SameMm
<1> QED
  BY <1>1, <1>2, <1>3, <1>4, <1>5, <1>6 DEF Core, SameRr

(* A list of calls put in the place of another. *)
LEMMA CallsSet ==
  ASSUME NEW s \in Phones, NEW v \in Seq(Call), NEW t, t = [s EXCEPT !.calls = v]
  PROVE  t \in Phones /\ t.calls = v /\ SameBut(s, t)
  BY DEF Phones, SameBut, SameRr, SameCc, SameMm

(* Opaque, as Grown is *)
Made(s, t, r, field, way) == t = Mark(s, r, field, way = "on")

(* The two ways to mark a call. *)
LEMMA Makes ==
  ASSUME NEW s, NEW r, NEW field
  PROVE  /\ Made(s, Mark(s, r, field, TRUE), r, field, "on")
         /\ Made(s, Mark(s, r, field, FALSE), r, field, "off")
<1>1. ("on" = "on") = TRUE /\ ("off" = "on") = FALSE
  OBVIOUS
<1> QED
  BY <1>1 DEF Made

(* A call marked: nothing changes but the list of the user. *)
LEMMA MarkFields ==
  ASSUME NEW s \in Phones, Distinct(s.calls), NEW r, NEW field \in {"init", "hold", "ring"},
         NEW way \in {"on", "off"}, NEW t, Made(s, t, r, field, way)
  PROVE  /\ t \in Phones /\ SameBut(s, t) /\ Distinct(t.calls)
         /\ MarkedRows(t.calls, s.calls, r, field, way)
<1> DEFINE v == [i \in DOMAIN s.calls |->
                   IF s.calls[i].ref = r THEN [s.calls[i] EXCEPT ![field] = way = "on"]
                   ELSE s.calls[i]]
<1>1. s.calls \in Seq(Call)
  BY PhoneTypes
<1>2. Marked(v, s.calls, r, field, way)
  BY DEF Marked
<1>4. t = [s EXCEPT !.calls = v]
  BY DEF Mark, Made
<1> HIDE DEF v
<1>5. v \in Seq(Call) /\ Distinct(v) /\ MarkedRows(v, s.calls, r, field, way)
  BY <1>1, <1>2, CallMarked
<1>6. t \in Phones /\ t.calls = v /\ SameBut(s, t)
  BY <1>4, <1>5, CallsSet
<1> QED
  BY <1>5, <1>6

(* A call marked: the invariant but its book holds on. *)
LEMMA MarkCore ==
  ASSUME NEW s, NEW a, Core(s, a), Distinct(s.calls), NEW r, NEW field \in {"init", "hold", "ring"},
         NEW way \in {"on", "off"}, NEW t, Made(s, t, r, field, way)
  PROVE  /\ Core(t, a) /\ \A q : Later(t, q) <=> Later(s, q)
         /\ BooksBut(s, r) => BooksBut(t, r)
<1>1. s \in Phones
  BY DEF Core
<1>2. /\ t \in Phones /\ SameBut(s, t) /\ Distinct(t.calls)
      /\ \A q : Listed(t.calls, q) <=> Listed(s.calls, q)
      /\ \A q : q # r => CallRow(s, t, q)
  <2>1. /\ t \in Phones /\ SameBut(s, t) /\ Distinct(t.calls)
        /\ MarkedRows(t.calls, s.calls, r, field, way)
    BY <1>1, MarkFields
  <2> QED
    BY <2>1 DEF CallRow, MarkedRows
<1>3. Core(t, a) /\ \A q : Later(t, q) <=> Later(s, q)
  BY <1>2, CallsCore, ListedKnown
<1>4. ASSUME BooksBut(s, r), NEW q \in Refs \ {r}
      PROVE  Book(t.trans, t.calls, t.mncc, q)
  <2>1. TransRow(s, t, q) /\ CallRow(s, t, q) /\ Told(t.mncc, q) = Told(s.mncc, q)
    BY <1>2 DEF SameBut, SameCc, TransRow
  <2> QED
    BY <1>4, <2>1, BookRow DEF BooksBut
<1>5. BooksBut(s, r) => BooksBut(t, r)
  BY <1>2, <1>4 DEF BooksBut, SameBut, SameCc
<1> QED
  BY <1>3, <1>5

(* mncc_answer *)
LEMMA HighestRings ==
  ASSUME NEW s, s.calls \in Seq(Call), Ringing(s) # {}
  PROVE  LastRinging(s) \in DOMAIN s.calls /\ s.calls[LastRinging(s)].ring
<1> DEFINE n == Len(s.calls)
           low == {n - i : i \in Ringing(s)}
<1>1. n \in Nat /\ DOMAIN s.calls = 1..n /\ Ringing(s) \subseteq 1..n
  BY DEF Ringing
<1>2. low \subseteq Nat /\ low # {}
  BY <1>1
<1>3. PICK k \in low : \A j \in low : ~(j < k)
  <2>1. PICK k \in low : \A j \in low : <<j, k>> \notin OpToRel(<, Nat)
    BY <1>2, NatLessThanWellFounded, WFMin, Zenon
  <2> QED
    BY <1>2, <2>1, Zenon DEF OpToRel
<1>4. PICK i \in Ringing(s) : k = n - i
  OBVIOUS
<1>5. \A j \in Ringing(s) : j <= i
  <2> TAKE j \in Ringing(s)
  <2>1. n - j \in low
    OBVIOUS
  <2>2. ~(n - j < n - i) /\ i \in Nat /\ j \in Nat
    BY <1>1, <1>3, <1>4, <2>1
  <2> QED
    BY <1>1, <2>2
<1>6. LastRinging(s) \in Ringing(s)
  BY <1>4, <1>5 DEF LastRinging
<1> QED
  BY <1>6 DEF Ringing

(* A call marked: the invariant holds on, when its book allows the mark. *)
LEMMA MarkedInv ==
  ASSUME NEW s, NEW a, Inv(s, a), NEW r \in Refs, NEW field \in {"init", "hold", "ring"},
         NEW way \in {"on", "off"}, NEW t, Made(s, t, r, field, way),
         field = "init" => /\ way = "off"
                           /\ IF r \in DOMAIN s.trans THEN s.trans[r].state # "MM_CONNECTION_PEND"
                              ELSE Told(s.mncc, r) \cap Over # {},
         field = "ring" => way = "off"
  PROVE  /\ Inv(t, a) /\ SameBut(s, t) /\ MarkedRows(t.calls, s.calls, r, field, way)
         /\ t \in Phones /\ Distinct(t.calls)
<1>1. Core(s, a) /\ Distinct(s.calls) /\ BooksBut(s, r) /\ s \in Phones
      /\ Book(s.trans, s.calls, s.mncc, r)
  BY InvIs, BooksAre DEF BooksBut, Core
<1>2. /\ t \in Phones /\ SameBut(s, t) /\ Distinct(t.calls)
      /\ MarkedRows(t.calls, s.calls, r, field, way)
  BY <1>1, MarkFields
<1>3. Core(t, a) /\ (BooksBut(s, r) => BooksBut(t, r))
  BY <1>1, MarkCore
<1>4. /\ Listed(t.calls, r) <=> Listed(s.calls, r)
      /\ Rings(t.calls, r) => Rings(s.calls, r)
      /\ field # "init" => (Young(t.calls, r) <=> Young(s.calls, r))
  BY <1>2 DEF MarkedRows
<1>5. t.trans = s.trans /\ t.mncc = s.mncc
  BY <1>2 DEF SameBut, SameCc
<1>6. Book(t.trans, t.calls, t.mncc, r)
  <2>1. CASE field # "init"
    BY <1>1, <1>4, <1>5, <2>1 DEF Book
  <2>2. CASE field = "init"
    <3>1. CASE r \in DOMAIN s.trans
      BY <1>1, <1>4, <1>5, <2>2, <3>1 DEF Book
    <3>2. CASE r \notin DOMAIN s.trans
      BY <1>1, <1>4, <1>5, <2>2, <3>2 DEF Book
    <3> QED
      BY <3>1, <3>2
  <2> QED
    BY <2>1, <2>2
<1> QED
  BY <1>1, <1>2, <1>3, <1>6, BooksAre, InvIs

(* mncc_answer: the invariant holds on. *)
LEMMA Answered ==
  ASSUME NEW s, NEW a, Inv(s, a), AllGone(s)
  PROVE  Inv(Answer(s), a)
<1> DEFINE i == LastRinging(s)
           r == s.calls[i].ref
           off == Mark(s, r, "ring", FALSE)
           up == Mark(off, r, "hold", FALSE)
<1>1. CASE ~MayAnswer(s)
  BY <1>1 DEF Answer
<1>2. CASE MayAnswer(s)
  <2>1. s.calls \in Seq(Call) /\ Distinct(s.calls) /\ Ringing(s) # {}
    BY <1>2, PhoneTypes DEF Inv, Books, MayAnswer
  <2>2. i \in DOMAIN s.calls
    BY <2>1, HighestRings
  <2>3. r \in Refs /\ Listed(s.calls, r)
    BY <2>1, <2>2, CallIs
  <2>4. Answer(s) = FromL4(up, "SETUP_RSP", r)
    BY <1>2 DEF Answer
  <2> HIDE DEF i, r
  <2>5. Made(s, off, r, "ring", "off") /\ Made(off, up, r, "hold", "off")
    BY Makes
  <2> HIDE DEF off, up
  <2>6. /\ Inv(off, a) /\ SameBut(s, off) /\ MarkedRows(off.calls, s.calls, r, "ring", "off")
    BY <2>3, <2>5, MarkedInv
  <2>7. /\ Inv(up, a) /\ SameBut(off, up) /\ MarkedRows(up.calls, off.calls, r, "hold", "off")
    BY <2>3, <2>5, <2>6, MarkedInv
  <2>8. Listed(up.calls, r) /\ ~Rings(up.calls, r)
    BY <2>3, <2>6, <2>7 DEF MarkedRows
  <2>9. AllGone(up)
    BY <2>6, <2>7 DEF AllGone, SameBut, SameCc
  <2>10. Inv(FromL4(up, "SETUP_RSP", r), a)
    BY <2>3, <2>7, <2>8, <2>9, Asked
  <2> QED
    BY <2>4, <2>10
<1> QED
  BY <1>1, <1>2

(* The call of a transaction freed, and a new one *)
LEMMA FreeCallCore ==
  ASSUME NEW s, NEW a, Core(s, a), NEW r, BooksBut(s, r), NEW t, t = FreeCall(s, r)
  PROVE  /\ Core(t, a) /\ BooksBut(t, r) /\ SameBut(s, t) /\ \A q : Later(t, q) <=> Later(s, q)
         /\ ~Listed(t.calls, r)
<1>1. s \in Phones /\ s.calls \in Seq(Call) /\ Distinct(s.calls)
  BY PhoneTypes DEF Core, BooksBut
<1>2. CASE ~HasCall(s, r)
  <2>1. t = s /\ ~Listed(s.calls, r)
    BY <1>2 DEF FreeCall, HasCall, Listed
  <2> QED
    BY <2>1 DEF SameBut, SameRr, SameCc, SameMm
<1>3. CASE HasCall(s, r)
  <2> DEFINE i == CallAt(s, r)
             v == RemoveAt(s.calls, i)
  <2>1. i \in DOMAIN s.calls /\ s.calls[i].ref = r
    BY <1>3 DEF HasCall, CallAt
  <2>2. t = [s EXCEPT !.calls = v]
    BY <1>3 DEF FreeCall, Phones
  <2> HIDE DEF i
  <2>3. /\ v \in Seq(Call) /\ Distinct(v)
        /\ \A q : Listed(v, q) <=> q # r /\ Listed(s.calls, q)
        /\ \A q : Young(v, q) <=> q # r /\ Young(s.calls, q)
        /\ \A q : Rings(v, q) <=> q # r /\ Rings(s.calls, q)
    BY <1>1, <2>1, CallRemoved
  <2> HIDE DEF v
  <2>4. t \in Phones /\ t.calls = v /\ SameBut(s, t)
    BY <1>1, <2>2, <2>3, CallsSet
  <2>5. \A q \in Refs : Listed(t.calls, q) => ~Later(s, q)
    BY <2>3, <2>4, ListedKnown
  <2>6. Core(t, a) /\ \A q : Later(t, q) <=> Later(s, q)
    BY <2>4, <2>5, CallsCore
  <2>7. ASSUME NEW q \in Refs \ {r} PROVE Book(t.trans, t.calls, t.mncc, q)
    <3>1. TransRow(s, t, q) /\ CallRow(s, t, q) /\ Told(t.mncc, q) = Told(s.mncc, q)
      BY <2>3, <2>4 DEF SameBut, SameCc, TransRow, CallRow
    <3> QED
      BY <3>1, BookRow DEF BooksBut
  <2> QED
    BY <2>3, <2>4, <2>6, <2>7 DEF BooksBut, SameBut, SameCc
<1> QED
  BY <1>2, <1>3

(* Opaque, as Grown is *)
Adds(s, t, c) == t = [s EXCEPT !.calls = Append(@, c)]

(* A call entered into the list of the user: the invariant but its book
   holds on. *)
LEMMA AddCallCore ==
  ASSUME NEW s, NEW a, Core(s, a), NEW r \in Refs, BooksBut(s, r), ~Later(s, r),
         ~Listed(s.calls, r), NEW t, NEW c \in Call, c.ref = r, ~c.ring,
         Adds(s, t, c)
  PROVE  /\ Core(t, a) /\ BooksBut(t, r) /\ SameBut(s, t) /\ \A q : Later(t, q) <=> Later(s, q)
         /\ Listed(t.calls, r) /\ ~Rings(t.calls, r) /\ (Young(t.calls, r) <=> c.init)
         /\ Distinct(t.calls)
<1>1. s \in Phones /\ s.calls \in Seq(Call) /\ Distinct(s.calls)
  BY PhoneTypes DEF Core, BooksBut
<1> DEFINE v == Append(s.calls, c)
<1>2. t = [s EXCEPT !.calls = v]
  BY <1>1 DEF Phones, Adds
<1>3. /\ v \in Seq(Call) /\ Distinct(v)
      /\ \A q : Listed(v, q) <=> Listed(s.calls, q) \/ q = c.ref
      /\ \A q : Young(v, q) <=> Young(s.calls, q) \/ (q = c.ref /\ c.init)
      /\ \A q : Rings(v, q) <=> Rings(s.calls, q) \/ (q = c.ref /\ c.ring)
  BY <1>1, CallAdded
<1> HIDE DEF v
<1>4. t \in Phones /\ t.calls = v /\ SameBut(s, t)
  BY <1>1, <1>2, <1>3, CallsSet
<1>5. \A q \in Refs : Listed(t.calls, q) => ~Later(s, q)
  BY <1>3, <1>4, ListedKnown
<1>6. Core(t, a) /\ \A q : Later(t, q) <=> Later(s, q)
  BY <1>4, <1>5, CallsCore
<1>7. ASSUME NEW q \in Refs \ {r} PROVE Book(t.trans, t.calls, t.mncc, q)
  <2>1. TransRow(s, t, q) /\ CallRow(s, t, q) /\ Told(t.mncc, q) = Told(s.mncc, q)
    BY <1>3, <1>4 DEF SameBut, SameCc, TransRow, CallRow
  <2> QED
    BY <2>1, BookRow DEF BooksBut
<1>8. ~Young(s.calls, r) /\ ~Rings(s.calls, r)
  BY <1>1, CallParts
<1> QED
  BY <1>3, <1>4, <1>6, <1>7, <1>8 DEF BooksBut, SameBut, SameCc

-----------------------------------------------------------------------------
(* The call application takes a message of call control. *)

(* All but a queue to an upper layer is the same. *)
SameButMncc(s, t) == SameRr(s, t) /\ SameApp(s, t) /\ SameMm(s, t) /\ t.trans = s.trans /\ t.mmxx = s.mmxx

(* A message for layer 4 is taken: the invariant holds on but for the book
   of its call. *)
LEMMA MnccTaken ==
  ASSUME NEW s, NEW a, Inv(s, a), s.mncc # <<>>, NEW m, m = Head(s.mncc),
         NEW t, t = [s EXCEPT !.mncc = Tail(@)]
  PROVE  /\ Core(t, a) /\ BooksBut(t, m.ref) /\ ~Later(t, m.ref) /\ m.ref \in Refs
         /\ m.prim \in MnccPrims /\ SameButMncc(s, t)
         /\ Told(s.mncc, m.ref) = Told(t.mncc, m.ref) \cup {m.prim}
         /\ Book(s.trans, s.calls, s.mncc, m.ref)
         /\ m.prim = "SETUP_IND" => NoSetup(t)
<1>0. s \in Phones /\ Core(s, a) /\ Books(s) /\ s.mncc \in Seq(MnccMsg)
  BY InvIs, PhoneTypes DEF Core
<1> DEFINE v == Tail(s.mncc)
<1>1. /\ m \in MnccMsg /\ v \in Seq(MnccMsg)
      /\ \A q : Told(s.mncc, q) = IF q = m.ref THEN Told(v, q) \cup {m.prim} ELSE Told(v, q)
      /\ OneSetup(s.mncc) =>
           /\ OneSetup(v)
           /\ m.prim = "SETUP_IND" => \A q : "SETUP_IND" \notin Told(v, q)
  BY <1>0, ToldTail, ZenonT(60)
<1>2. t = [s EXCEPT !.mncc = v]
  BY <1>0 DEF Phones
<1> HIDE DEF v
<1>3. t \in Phones /\ t.mncc = v /\ SameButMncc(s, t)
  BY <1>0, <1>1, <1>2, ZenonT(60) DEF Phones, SameButMncc, SameRr, SameApp, SameMm
<1>4. m.ref \in Refs /\ m.prim \in MnccPrims
  BY <1>1 DEF MnccMsg
<1>5. \A q : Later(t, q) <=> Later(s, q)
  BY <1>3 DEF Later, SameButMncc, SameMm, SameApp
<1>6. ~Later(t, m.ref)
  <2>1. m.prim \in Told(s.mncc, m.ref)
    BY <1>1
  <2> QED
    BY <1>0, <1>4, <1>5, <2>1 DEF Core, Account, Unused
<1>7. SameRr(s, t)
  BY <1>3 DEF SameButMncc
<1>8. Signals(t, a)
  BY <1>0, <1>7, SignalsSame DEF Core
<1>9. Quiet(t, a)
  <2>1. AllGone(s) => AllGone(t)
    BY <1>3 DEF AllGone, SameButMncc
  <2>2. NoSetup(s) => NoSetup(t)
    BY <1>1, <1>3 DEF NoSetup
  <2> QED
    BY <1>0, <1>7, <2>1, <2>2, QuietMore DEF Core
<1>10. Link(t, a)
  BY <1>0, <1>3 DEF Core, Link, AllPending, SameButMncc, SameRr, SameMm
<1>11. Account(t)
  <2>1. ASSUME NEW q \in Refs, Later(t, q) PROVE Unused(t, q)
    <3>1. Unused(s, q)
      BY <1>0, <1>5, <2>1 DEF Core, Account
    <3>2. Told(t.mncc, q) = {}
      BY <1>1, <1>3, <3>1 DEF Unused
    <3> QED
      BY <1>3, <3>1, <3>2 DEF Unused, SameButMncc, SameMm, SameApp
  <2> QED
    BY <1>0, <1>3, <2>1, ZenonT(60) DEF Core, Account, Placed, SameButMncc, SameMm, SameApp, SameRr
<1>12. Ties(t) /\ (Tied(s) => Tied(t))
  BY <1>0, <1>3 DEF Core, Ties, Tied, SameButMncc, SameMm
<1>13. Core(t, a)
  BY <1>0, <1>3, <1>7, <1>8, <1>9, <1>10, <1>11, <1>12 DEF Core, SameRr
<1>14. ASSUME NEW q \in Refs \ {m.ref} PROVE Book(t.trans, t.calls, t.mncc, q)
  <2>1. TransRow(s, t, q) /\ CallRow(s, t, q) /\ Told(t.mncc, q) = Told(s.mncc, q)
    BY <1>1, <1>3 DEF SameButMncc, SameApp, TransRow, CallRow
  <2> QED
    BY <1>0, <2>1, BookRow DEF Books
<1>15. BooksBut(t, m.ref)
  BY <1>0, <1>1, <1>3, <1>14 DEF BooksBut, Books, SameButMncc, SameApp
<1>16. Told(s.mncc, m.ref) = Told(t.mncc, m.ref) \cup {m.prim}
  BY <1>1, <1>3
<1>17. m.prim = "SETUP_IND" => NoSetup(t)
  BY <1>0, <1>1, <1>3 DEF NoSetup, Books
<1>18. Book(s.trans, s.calls, s.mncc, m.ref)
  BY <1>0, <1>4 DEF Books
<1> QED
  BY <1>3, <1>4, <1>6, <1>13, <1>15, <1>16, <1>17, <1>18

(* What is known of the phone s when it is given a message prim about r *)
Given(s, a, prim, r) ==
  /\ Core(s, a) /\ BooksBut(s, r) /\ ~Later(s, r) /\ r \in Refs /\ AllGone(s)
  /\ \E u : Book(s.trans, s.calls, u, r) /\ Told(u, r) = Told(s.mncc, r) \cup {prim}
  /\ prim = "SETUP_IND" => NoSetup(s)

(* MNCC_REL_IND and MNCC_REL_CNF: the call is freed. *)
LEMMA GivenOver ==
  ASSUME NEW s, NEW a, NEW prim \in Over, NEW r, Given(s, a, prim, r)
  PROVE  Inv(FreeCall(s, r), a)
<1> DEFINE t == FreeCall(s, r)
<1>1. /\ Core(t, a) /\ BooksBut(t, r) /\ SameBut(s, t) /\ ~Listed(t.calls, r)
  BY FreeCallCore DEF Given
<1> HIDE DEF t
<1>2. ~Rings(t.calls, r)
  BY <1>1, CallParts, PhoneTypes DEF Core
<1>3. PICK u : Book(s.trans, s.calls, u, r) /\ Told(u, r) = Told(s.mncc, r) \cup {prim}
  BY DEF Given
<1>4. t.trans = s.trans /\ t.mncc = s.mncc
  BY <1>1 DEF SameBut, SameCc
<1>5. CASE r \in DOMAIN s.trans
  <2>1. s.trans[r].state = "NULL" /\ s.trans[r].ti = NoTi
    BY <1>3, <1>5 DEF Book
  <2>2. "SETUP_IND" \notin Told(s.mncc, r)
    BY <1>3, <1>5, <2>1 DEF Book
  <2>3. Book(t.trans, t.calls, t.mncc, r)
    BY <1>1, <1>2, <1>4, <1>5, <2>1, <2>2 DEF Book
  <2> QED
    BY <1>1, <2>3, BooksAre, InvIs DEF t
<1>6. CASE r \notin DOMAIN s.trans
  <2>1. Book(t.trans, t.calls, t.mncc, r)
    BY <1>1, <1>2, <1>4, <1>6 DEF Book
  <2> QED
    BY <1>1, <2>1, BooksAre, InvIs DEF t
<1> QED
  BY <1>5, <1>6

(* A message the call does not go on with: it is freed and released. *)
LEMMA GivenEnd ==
  ASSUME NEW s, NEW a, NEW prim \in MnccPrims, prim \notin Over, prim # "SETUP_IND",
         NEW r, Given(s, a, prim, r)
  PROVE  Inv(FromL4(FreeCall(s, r), "REL_REQ", r), a)
<1> DEFINE t == FreeCall(s, r)
           x == FromL4(t, "REL_REQ", r)
<1>1. /\ Core(t, a) /\ BooksBut(t, r) /\ SameBut(s, t) /\ ~Listed(t.calls, r)
      /\ ~Later(t, r) /\ r \in Refs
  BY FreeCallCore DEF Given
<1> HIDE DEF t
<1>2. ~Rings(t.calls, r)
  BY <1>1, CallParts, PhoneTypes DEF Core
<1>3. PICK u : Book(s.trans, s.calls, u, r) /\ Told(u, r) = Told(s.mncc, r) \cup {prim}
  BY DEF Given
<1>4. t.trans = s.trans /\ t.mncc = s.mncc /\ AllGone(t)
  BY <1>1 DEF SameBut, SameCc, Given, AllGone
<1>5. CASE r \notin DOMAIN t.trans
  <2>1. x = ToL4(t, "REL_IND", r)
    BY <1>5 DEF FromL4, Has
  <2> QED
    BY <1>1, <1>5, <2>1, ToldCore, InvIs DEF t
<1>6. CASE r \in DOMAIN t.trans
  <2> DEFINE st == t.trans[r].state
             told == Told(t.mncc, r)
  <2>1. Agrees(t, r) /\ Tie(t.trans, t.conns, t.mmxx, r)
    BY <1>1, <1>6, CoreAgrees DEF Core, Ties
  <2>2. /\ st # "MM_CONNECTION_PEND" /\ st # "CALL_PRESENT" /\ "SETUP_IND" \notin told
        /\ told \cap Over # {} => st = "NULL" /\ t.trans[r].ti = NoTi
        /\ st = "NULL" => t.trans[r].ti = NoTi
    BY <1>3, <1>4, <1>6 DEF Book
  <2>3. Core(x, a) /\ BooksBut(x, r)
    BY <1>1, <1>4, <2>2, FromL4Core DEF L4Prims
  <2>4. CASE x = t /\ ~Accepts(st, "REL_REQ")
    <3>1. st \in {"NULL", "RELEASE_REQ"}
      BY <2>4 DEF Accepts
    <3>2. Book(t.trans, t.calls, t.mncc, r)
      BY <1>1, <1>2, <1>6, <2>2, <3>1 DEF Book
    <3> QED
      BY <2>3, <2>4, <3>2, BooksAre, InvIs DEF t
  <2>5. CASE Accepts(st, "REL_REQ") /\ Moved(t, x, r, Next4(st, "REL_REQ"), {})
    <3>1. st # "NULL" /\ Next4(st, "REL_REQ") = "RELEASE_REQ"
      BY <2>5 DEF Accepts, Next4
    <3>2. t.trans[r].ti # NoTi
      BY <1>6, <2>1, <2>2, <3>1 DEF Tie
    <3>3. (told \cup {}) \cap Over = {} /\ "SETUP_IND" \notin told \cup {}
      BY <2>2, <3>1
    <3>4. Book(x.trans, x.calls, x.mncc, r)
      BY <1>2, <1>6, <2>5, <3>1, <3>2, <3>3, MovedBook
    <3> QED
      BY <2>3, <3>4, BooksAre, InvIs DEF t
  <2> QED
    BY <2>1, <2>2, <2>4, <2>5, FromL4Does DEF L4Prims
<1> QED
  BY <1>5, <1>6

(* A message the call goes on with: nothing is missing from its book. *)
LEMMA GivenKept ==
  ASSUME NEW s, NEW a, NEW prim \in MnccPrims, prim \notin Over, prim # "SETUP_IND",
         prim # "DISC_IND", NEW r, Given(s, a, prim, r), Listed(s.calls, r)
  PROVE  /\ Inv(s, a)
         /\ IF r \in DOMAIN s.trans THEN s.trans[r].state # "MM_CONNECTION_PEND"
            ELSE Told(s.mncc, r) \cap Over # {}
<1>1. PICK u : Book(s.trans, s.calls, u, r) /\ Told(u, r) = Told(s.mncc, r) \cup {prim}
  BY DEF Given
<1>2. CASE r \in DOMAIN s.trans
  <2>1. s.trans[r].state # "MM_CONNECTION_PEND"
    BY <1>1, <1>2 DEF Book
  <2>2. s.trans[r].state # "CALL_PRESENT" /\ "SETUP_IND" \notin Told(s.mncc, r)
    BY <1>1, <1>2 DEF Book
  <2>3. s.trans[r].state = "NULL" => s.trans[r].ti = NoTi
    BY <1>1, <1>2 DEF Book
  <2>4. Rings(s.calls, r) => \/ s.trans[r].state \in RingStates
                             \/ Told(s.mncc, r) \cap Over # {}
    BY <1>1, <1>2 DEF Book
  <2>5. Told(s.mncc, r) \cap Over # {} => s.trans[r].state = "NULL" /\ s.trans[r].ti = NoTi
    BY <1>1, <1>2 DEF Book
  <2>6. Book(s.trans, s.calls, s.mncc, r)
    BY <1>2, <2>1, <2>2, <2>3, <2>4, <2>5 DEF Book
  <2> QED
    BY <1>2, <2>1, <2>6, BooksAre, InvIs DEF Given
<1>3. CASE r \notin DOMAIN s.trans
  <2>1. Told(s.mncc, r) \cap Over # {}
    BY <1>1, <1>3 DEF Book
  <2>2. Book(s.trans, s.calls, s.mncc, r)
    BY <1>3, <2>1 DEF Book
  <2> QED
    BY <1>3, <2>1, <2>2, BooksAre, InvIs DEF Given
<1> QED
  BY <1>2, <1>3

(* A new call is being taken: its transaction is in state st, or is over. *)
Taken(s, a, r, st) ==
  /\ Core(s, a) /\ BooksBut(s, r) /\ r \in Refs /\ ~Later(s, r) /\ AllGone(s) /\ NoSetup(s)
  /\ Listed(s.calls, r) /\ Distinct(s.calls)
  /\ r \in DOMAIN s.trans => s.trans[r].state = st /\ Told(s.mncc, r) = {}

(* A call that comes in is marked while it is set up. *)
LEMMA TakenMark ==
  ASSUME NEW s, NEW a, NEW r, NEW st, Taken(s, a, r, st), NEW field \in {"init", "hold", "ring"},
         NEW way \in {"on", "off"}, NEW t, Made(s, t, r, field, way)
  PROVE  /\ Taken(t, a, r, st) /\ SameBut(s, t)
<1>1. Core(s, a) /\ Distinct(s.calls) /\ s \in Phones
  BY DEF Taken, Core
<1>2. /\ t \in Phones /\ SameBut(s, t) /\ Distinct(t.calls)
      /\ MarkedRows(t.calls, s.calls, r, field, way)
  BY <1>1, MarkFields
<1>3. /\ Core(t, a) /\ \A q : Later(t, q) <=> Later(s, q)
      /\ BooksBut(s, r) => BooksBut(t, r)
  BY <1>1, MarkCore
<1>4. t.trans = s.trans /\ t.mncc = s.mncc /\ t.mmxx = s.mmxx
  BY <1>2 DEF SameBut, SameCc
<1>5. Listed(t.calls, r)
  BY <1>2 DEF MarkedRows, Taken
<1> QED
  BY <1>2, <1>3, <1>4, <1>5 DEF Taken, AllGone, NoSetup

(* A call that comes in, whose transaction is gone: a request changes
   nothing. *)
LEMMA TakenBooks ==
  ASSUME NEW s, NEW a, NEW r, NEW st, Taken(s, a, r, st), r \notin DOMAIN s.trans,
         NEW prim
  PROVE  /\ Taken(FromL4(s, prim, r), a, r, st) /\ Inv(FromL4(s, prim, r), a)
<1> DEFINE x == ToL4(s, "REL_IND", r)
<1>1. FromL4(s, prim, r) = x
  BY DEF FromL4, Has
<1>2. /\ Core(x, a) /\ x.trans = s.trans /\ Books(x) /\ x.calls = s.calls
      /\ \A q : Later(x, q) <=> Later(s, q)
  BY ToldCore DEF Taken
<1>3. /\ x.mmxx = s.mmxx /\ ToldMore(s.mncc, x.mncc, r, {"REL_IND"})
  <2> DEFINE p == "REL_IND"
  <2>1. s \in Phones /\ p \in MnccPrims /\ r \in Refs
    BY DEF Core, MnccPrims, Over, Taken
  <2>2. x = ToL4(s, p, r)
    OBVIOUS
  <2> HIDE DEF p, x
  <2>3. x.mmxx = s.mmxx /\ ToldMore(s.mncc, x.mncc, r, {p})
    BY <2>1, <2>2, ToldFields
  <2> QED
    BY <2>3 DEF p
<1> HIDE DEF x
<1>4. AllGone(x) /\ NoSetup(x)
  <2>1. NoSetup(s) => NoSetup(x)
    BY <1>3, ToldSetup
  <2> QED
    BY <1>3, <2>1 DEF Taken, AllGone
<1> QED
  BY <1>1, <1>2, <1>4, BooksAre, InvIs DEF Taken

(* A call that comes in is answered, step by step. *)
LEMMA TakenAsked ==
  ASSUME NEW s, NEW a, NEW r, NEW st, Taken(s, a, r, st), r \in DOMAIN s.trans,
         NEW prim \in {"CALL_CONF_REQ", "ALERT_REQ", "REL_REQ"}, Accepts(st, prim),
         st \in CcStates \ {"NULL", "MM_CONNECTION_PEND"}
  PROVE  LET x == FromL4(s, prim, r) IN
         /\ Taken(x, a, r, Next4(st, prim)) /\ Moved(s, x, r, Next4(st, prim), {})
         /\ s.trans[r].ti # NoTi /\ x.set = s.set
<1> DEFINE x == FromL4(s, prim, r)
<1>1. /\ Core(s, a) /\ s.trans[r].state = st /\ Told(s.mncc, r) = {}
      /\ prim \in L4Prims /\ r \in Refs
  BY DEF Taken, L4Prims
<1>2. Agrees(s, r) /\ Tie(s.trans, s.conns, s.mmxx, r)
  BY <1>1, CoreAgrees DEF Core, Ties
<1>3. Moved(s, x, r, Next4(st, prim), {})
  BY <1>1, <1>2, FromL4Does
<1>4. /\ Core(x, a) /\ x.calls = s.calls /\ x.set = s.set /\ \A q : Later(x, q) <=> Later(s, q)
      /\ BooksBut(s, r) => BooksBut(x, r)
  <2>1. ~Later(s, r) /\ AllGone(s)
    BY DEF Taken
  <2> QED
    BY <1>1, <2>1, FromL4Core
<1> HIDE DEF x
<1>5. s.trans[r].ti # NoTi
  BY <1>1, <1>2 DEF Tie
<1>6. AllGone(x) /\ NoSetup(x)
  <2>1. AllGone(s) => AllGone(x)
    BY <1>3, LostGone DEF Moved
  <2>2. NoSetup(s) => NoSetup(x)
    BY <1>3, ToldSetup DEF Moved
  <2> QED
    BY <2>1, <2>2 DEF Taken
<1>7. x.trans[r].state = Next4(st, prim) /\ Told(x.mncc, r) = {}
  BY <1>1, <1>3 DEF Moved, Turned, ToldMore
<1>8. Taken(x, a, r, Next4(st, prim))
  BY <1>4, <1>6, <1>7 DEF Taken
<1> QED
  BY <1>3, <1>4, <1>5, <1>8 DEF x

(* The last answer to a call that comes in restores the invariant. *)
LEMMA TakenEnds ==
  ASSUME NEW s, NEW a, NEW r, NEW st, Taken(s, a, r, st), r \in DOMAIN s.trans,
         NEW prim \in {"ALERT_REQ", "REL_REQ"}, Accepts(st, prim),
         st \in CcStates \ {"NULL", "MM_CONNECTION_PEND"}
  PROVE  /\ Inv(FromL4(s, prim, r), a) /\ AllGone(FromL4(s, prim, r))
<1> DEFINE x == FromL4(s, prim, r)
<1>1. /\ Taken(x, a, r, Next4(st, prim)) /\ Moved(s, x, r, Next4(st, prim), {})
      /\ s.trans[r].ti # NoTi
  BY TakenAsked
<1> HIDE DEF x
<1>2. Told(s.mncc, r) \cup {} = {} /\ Listed(s.calls, r)
  BY DEF Taken
<1>3. Next4(st, prim) \in RingStates
  BY DEF Next4, RingStates
<1>4. Book(x.trans, x.calls, x.mncc, r)
  <2>1. /\ Next4(st, prim) \notin {"NULL", "MM_CONNECTION_PEND"} /\ Next4(st, prim) # "CALL_PRESENT"
        /\ (Told(s.mncc, r) \cup {}) \cap Over = {} /\ "SETUP_IND" \notin Told(s.mncc, r) \cup {}
    BY <1>2, <1>3 DEF RingStates
  <2> QED
    BY <1>1, <1>2, <1>3, <2>1, MovedBook
<1> QED
  BY <1>1, <1>4, BooksAre, InvIs DEF x, Taken

(* The transaction answers the request, or is over. *)
LEMMA TakenOn ==
  ASSUME NEW s, NEW a, NEW r, NEW st, Taken(s, a, r, st),
         NEW prim \in {"CALL_CONF_REQ", "ALERT_REQ", "REL_REQ"}, Accepts(st, prim),
         st \in CcStates \ {"NULL", "MM_CONNECTION_PEND"},
         NEW x, x = FromL4(s, prim, r)
  PROVE  /\ Taken(x, a, r, Next4(st, prim))
         /\ prim \in {"ALERT_REQ", "REL_REQ"} => Inv(x, a) /\ AllGone(x)
<1>1. CASE r \notin DOMAIN s.trans
  <2>1. Taken(x, a, r, st) /\ Inv(x, a)
    BY <1>1, TakenBooks
  <2>2. r \notin DOMAIN x.trans
    <3>1. x = ToL4(s, "REL_IND", r) /\ s \in Phones
      BY <1>1 DEF FromL4, Has, Taken, Core
    <3>2. x.trans = s.trans
      BY <3>1 DEF ToL4, Phones
    <3> QED
      BY <1>1, <3>2
  <2> QED
    BY <2>1, <2>2 DEF Taken
<1>2. CASE r \in DOMAIN s.trans
  <2>1. Taken(x, a, r, Next4(st, prim))
    BY <1>2, TakenAsked
  <2>2. CASE prim \in {"ALERT_REQ", "REL_REQ"}
    BY <1>2, <2>1, <2>2, TakenEnds
  <2> QED
    BY <2>1, <2>2
<1> QED
  BY <1>1, <1>2

(* MNCC_SETUP_IND *)
LEMMA GivenSetup ==
  ASSUME NEW s, NEW a, NEW r, Given(s, a, "SETUP_IND", r)
  PROVE  Inv(Incoming(s, r), a)
<1> DEFINE new == [ref |-> r, init |-> FALSE, hold |-> FALSE, ring |-> FALSE]
           first == s.calls = <<>>
           t == IF HasCall(s, r) THEN Mark(s, r, "init", FALSE)
                ELSE [s EXCEPT !.calls = Append(@, new)]
           confirmed == FromL4(t, "CALL_CONF_REQ", r)
           held == Mark(confirmed, r, "hold", TRUE)
           before == IF first THEN confirmed ELSE held
           rings == Mark(before, r, "ring", TRUE)
           alerts == FromL4(rings, "ALERT_REQ", r)
<1>1. Taken(t, a, r, "CALL_PRESENT")
  <2>1. /\ Core(s, a) /\ BooksBut(s, r) /\ ~Later(s, r) /\ r \in Refs /\ AllGone(s) /\ NoSetup(s)
        /\ Distinct(s.calls)
    BY DEF Given, BooksBut
  <2>2. r \in DOMAIN s.trans => s.trans[r].state = "CALL_PRESENT" /\ Told(s.mncc, r) = {}
    <3>1. PICK u : Book(s.trans, s.calls, u, r) /\ Told(u, r) = Told(s.mncc, r) \cup {"SETUP_IND"}
      BY DEF Given
    <3>2. "SETUP_IND" \notin Told(s.mncc, r)
      BY <2>1 DEF NoSetup
    <3> QED
      BY <3>1, <3>2 DEF Book
  <2>3. CASE HasCall(s, r)
    <3>1. Taken(s, a, r, "CALL_PRESENT")
      BY <2>1, <2>2, <2>3 DEF Taken, HasCall, Listed
    <3>2. Made(s, t, r, "init", "off")
      BY <2>3, Makes
    <3> QED
      BY <3>1, <3>2, TakenMark
  <2>4. CASE ~HasCall(s, r)
    <3>1. ~Listed(s.calls, r) /\ Adds(s, t, new)
      BY <2>4 DEF HasCall, Listed, Adds
    <3>2. new \in Call /\ new.ref = r /\ ~new.ring
      BY <2>1 DEF Call
    <3> HIDE DEF new, t
    <3>3. /\ Core(t, a) /\ BooksBut(t, r) /\ SameBut(s, t) /\ \A q : Later(t, q) <=> Later(s, q)
          /\ Listed(t.calls, r) /\ Distinct(t.calls)
      BY <2>1, <3>1, <3>2, AddCallCore
    <3>4. t.trans = s.trans /\ t.mncc = s.mncc /\ t.mmxx = s.mmxx
      BY <3>3 DEF SameBut, SameCc
    <3> QED
      BY <2>1, <2>2, <3>3, <3>4 DEF Taken, AllGone, NoSetup
  <2> QED
    BY <2>3, <2>4
<1>2. Incoming(s, r) = IF ~first /\ ~s.set.cw THEN FromL4(t, "REL_REQ", r)
                       ELSE IF s.set.autoAnswer THEN Answer(alerts) ELSE alerts
  BY DEF Incoming
<1> HIDE DEF first, t
<1>3. Accepts("CALL_PRESENT", "REL_REQ") /\ Accepts("CALL_PRESENT", "CALL_CONF_REQ")
      /\ Accepts("MO_TERM_CALL_CONF", "ALERT_REQ")
      /\ {"CALL_PRESENT", "MO_TERM_CALL_CONF"} \subseteq CcStates \ {"NULL", "MM_CONNECTION_PEND"}
      /\ Next4("CALL_PRESENT", "CALL_CONF_REQ") = "MO_TERM_CALL_CONF"
  BY DEF Accepts, CcStates, Next4
<1>4. Inv(FromL4(t, "REL_REQ", r), a)
  BY <1>1, <1>3, TakenOn
<1>5. Taken(confirmed, a, r, "MO_TERM_CALL_CONF")
  BY <1>1, <1>3, TakenOn
<1> HIDE DEF confirmed
<1>6. Taken(held, a, r, "MO_TERM_CALL_CONF")
  BY <1>5, Makes, TakenMark
<1> HIDE DEF held
<1>7. Taken(before, a, r, "MO_TERM_CALL_CONF")
  BY <1>5, <1>6
<1> HIDE DEF before
<1>8. Taken(rings, a, r, "MO_TERM_CALL_CONF")
  BY <1>7, Makes, TakenMark
<1> HIDE DEF rings
<1>9. Inv(alerts, a) /\ AllGone(alerts)
  BY <1>3, <1>8, TakenOn
<1> HIDE DEF alerts
<1>10. Inv(Answer(alerts), a)
  BY <1>9, Answered
<1> QED
  BY <1>2, <1>4, <1>9, <1>10

(* A message for layer 4 is handled. *)
LEMMA CcTaken ==
  ASSUME NEW s, Inv(s, 5), s.mncc # <<>>
  PROVE  Inv(Handle(s, "mncc"), 5)
<1> DEFINE m == Head(s.mncc)
           t == [s EXCEPT !.mncc = Tail(@)]
           r == m.ref
           young == Mark(t, r, "init", FALSE)
<1>1. /\ Core(t, 5) /\ BooksBut(t, r) /\ ~Later(t, r) /\ r \in Refs
      /\ m.prim \in MnccPrims
      /\ Told(s.mncc, r) = Told(t.mncc, r) \cup {m.prim}
      /\ Book(s.trans, s.calls, s.mncc, r) /\ SameButMncc(s, t)
      /\ m.prim = "SETUP_IND" => NoSetup(t)
  BY MnccTaken
<1>2. Handle(s, "mncc") = FromCc(t, m)
  BY DEF Handle
<1>3. t.trans = s.trans /\ t.calls = s.calls /\ t.mmxx = s.mmxx
  BY <1>1 DEF SameButMncc, SameApp
<1> HIDE DEF t, m
<1>4. AllGone(t)
  BY <1>1 DEF Core, Quiet
<1>5. Given(t, 5, m.prim, r)
  BY <1>1, <1>3, <1>4 DEF Given
<1>6. HasCall(t, r) <=> Listed(t.calls, r)
  BY DEF HasCall, Listed
<1>7. CASE m.prim = "SETUP_IND"
  BY <1>2, <1>5, <1>7, GivenSetup DEF FromCc
<1>8. CASE m.prim \in {"REL_IND", "REL_CNF"}
  BY <1>2, <1>5, <1>8, GivenOver DEF FromCc, Over
<1>9. CASE m.prim \notin {"SETUP_IND", "REL_IND", "REL_CNF"} /\ (~HasCall(t, r) \/ m.prim = "DISC_IND")
  BY <1>1, <1>2, <1>5, <1>9, GivenEnd DEF FromCc, Over
<1>10. CASE m.prim \notin {"SETUP_IND", "REL_IND", "REL_CNF", "DISC_IND"} /\ HasCall(t, r)
  <2>1. /\ Inv(t, 5)
        /\ IF r \in DOMAIN t.trans THEN t.trans[r].state # "MM_CONNECTION_PEND"
           ELSE Told(t.mncc, r) \cap Over # {}
    BY <1>1, <1>5, <1>6, <1>10, GivenKept DEF Over
  <2>2. FromCc(t, m) \in {young, Mark(young, r, "hold", TRUE), Mark(young, r, "hold", FALSE)}
    BY <1>10 DEF FromCc
  <2>3. Made(t, young, r, "init", "off")
    BY Makes
  <2> HIDE DEF young
  <2>4. Inv(young, 5)
    BY <1>1, <2>1, <2>3, MarkedInv
  <2>5. Inv(Mark(young, r, "hold", TRUE), 5)
    BY <1>1, <2>4, Makes, MarkedInv
  <2>6. Inv(Mark(young, r, "hold", FALSE), 5)
    BY <1>1, <2>4, Makes, MarkedInv
  <2> QED
    BY <1>2, <2>2, <2>4, <2>5, <2>6
<1> QED
  BY <1>7, <1>8, <1>9, <1>10

-----------------------------------------------------------------------------
(* MM takes a message of the radio resource layer. *)

SameCall(s, t) ==
  /\ t.trans = s.trans /\ t.mncc = s.mncc /\ t.calls = s.calls /\ t.moRef = s.moRef
  /\ t.mtRef = s.mtRef /\ t.set = s.set

(* No reference is new in t. *)
Backed(s, t) ==
  /\ \A q : Joined(t.conns, q) => Joined(s.conns, q)
  /\ \A q : Ups(t.mmxx, q) # {} => Joined(s.conns, q) \/ Ups(s.mmxx, q) # {}

AccountBut(s) ==
  /\ s.moRef \in 1..MaxMo + 1 /\ s.mtRef \in MtBase + 1..MtBase + MaxMt + 1
  /\ \A r \in Refs : Later(s, r) => Unused(s, r)

(* Call control still accounts for the connections when MM has told of
   those that are gone. *)
LEMMA BackedAccount ==
  ASSUME NEW s, NEW t, SameCall(s, t), Backed(s, t), AccountBut(s)
  PROVE  AccountBut(t)
<1>1. ASSUME NEW r \in Refs, Later(t, r) PROVE Unused(t, r)
  <2>1. Later(s, r)
    BY <1>1 DEF Later, SameCall
  <2>2. Unused(s, r)
    BY <1>1, <2>1 DEF AccountBut
  <2> QED
    BY <2>2 DEF Unused, SameCall, Backed
<1> QED
  BY <1>1 DEF AccountBut, SameCall

(* The phone when a message m of the radio resource layer has been taken *)
RrGave(s, m) ==
  /\ s \in Phones /\ s.rsl = <<>> /\ Signals(s, 2) /\ AllGone(s) /\ NoSetup(s)
  /\ AccountBut(s) /\ Ties(s) /\ Books(s)
  /\ ~(s.rr = "CONN_PEND" /\ s.rrEstReq)
  /\ s.mm \in {"MM_IDLE", "WAIT_NETWORK_CMD"} => AllPending(s)
  /\ News(s.rrUp) => Tied(s) /\ AllPending(s)
  /\ \A i \in DOMAIN s.rrUp : s.rrUp[i].type \notin CcMsgs
  /\ m.type \in UpTypes
  /\ IF m.type \in Loss
     THEN s.rr = "DEDICATED" /\ s.mm = "MM_IDLE" => Paged(s.rrUp)
     ELSE /\ s.rrUp = <<>> /\ s.rr = "DEDICATED" /\ Tied(s) /\ Placed(s, m)
          /\ s.mm = "MM_IDLE" => m.type = "EST_IND"

(* A page is news of radio resources. *)
LEMMA PagedNews ==
  ASSUME NEW q, Paged(q)
  PROVE  News(q)
  BY DEF Paged, News, Loss

(* A message of radio resources for MM is taken. *)
LEMMA RrTaken ==
  ASSUME NEW s, Inv(s, 2), s.rrUp # <<>>, NEW m, m = Head(s.rrUp),
         NEW t, t = [s EXCEPT !.rrUp = Tail(@)]
  PROVE  RrGave(t, m)
<1> DEFINE q == s.rrUp
           v == Tail(s.rrUp)
           n == Len(s.rrUp)
<1>1. s \in Phones /\ q \in Seq(UpRrMsg) /\ s.rsl = <<>>
  BY PhoneTypes DEF Inv, Signals
<1>2. /\ m \in UpRrMsg /\ m = q[1] /\ v \in Seq(UpRrMsg) /\ n \in Nat /\ n > 0 /\ DOMAIN q = 1..n
      /\ DOMAIN v = 1..n - 1 /\ Len(v) = n - 1
      /\ \A i \in 1..n - 1 : v[i] = q[i + 1]
  BY <1>1, Tailed
<1>3. t = [s EXCEPT !.rrUp = v]
  BY <1>1 DEF Phones
<1>4. /\ \A i \in 1..n - 1 : q[i].type \in Loss
      /\ News(q) => s.rr = "DEDICATED" /\ (n = 1 \/ Paged(q))
      /\ s.rr = "DEDICATED" /\ q # <<>> => News(q)
      /\ News(q) => Tied(s)
      /\ AllGone(s) /\ NoSetup(s)
  BY DEF Inv, Signals, Quiet
<1> HIDE DEF q, v, n
<1>5. /\ t \in Phones /\ t.rrUp = v /\ SameCall(s, t)
      /\ t.conns = s.conns /\ t.mmxx = s.mmxx /\ t.mm = s.mm /\ t.rr = s.rr
      /\ t.rrEstReq = s.rrEstReq /\ t.relWait = s.relWait /\ t.camped = s.camped
      /\ t.rsl = s.rsl /\ t.events = s.events
  BY <1>1, <1>2, <1>3, ZenonT(60) DEF Phones, SameCall
<1>6. m.type \in UpTypes
  BY <1>2 DEF UpRrMsg
<1>7. CASE n = 1
  <2>1. /\ v = <<>> /\ ~News(v) /\ ~Paged(v)
        /\ \A i \in 1..Len(v) - 1 : v[i].type \in Loss
        /\ \A i \in DOMAIN v : v[i].type \notin CcMsgs
    <3>1. v = <<>> /\ 1..Len(v) - 1 = {} /\ DOMAIN v = {}
      BY <1>2, <1>7
    <3> QED
      BY <3>1 DEF News, Paged
  <2>2. News(q) <=> m.type \notin Loss
    BY <1>2, <1>7 DEF News
  <2>3. Paged(q) <=> m.type = "EST_IND"
    BY <1>2, <1>7 DEF Paged
  <2>4. Signals(t, 2)
    BY <1>1, <1>5, <2>1 DEF Inv, Signals
  <2>5. AllGone(t) /\ NoSetup(t) /\ Ties(t) /\ Books(t) /\ AccountBut(t)
    <3>1. Backed(s, t) /\ AccountBut(s)
      BY <1>5 DEF Backed, Inv, Account, AccountBut
    <3>2. AccountBut(t)
      BY <1>5, <3>1, BackedAccount
    <3> QED
      BY <1>4, <1>5, <3>2 DEF AllGone, NoSetup, Ties, Books, SameCall, Inv
  <2>6. ~(t.rr = "CONN_PEND" /\ t.rrEstReq)
    BY <1>5 DEF Inv, Signals
  <2>7. t.mm \in {"MM_IDLE", "WAIT_NETWORK_CMD"} => AllPending(t)
    BY <1>5 DEF Inv, Link, AllPending
  <2>8. t.rr = "DEDICATED" /\ t.mm = "MM_IDLE" => Paged(q)
    BY <1>5 DEF Inv, Link, q
  <2>9. CASE m.type \in Loss
    <3>1. ~Paged(q)
      BY <2>3, <2>9 DEF Loss
    <3>2. ~(t.rr = "DEDICATED" /\ t.mm = "MM_IDLE")
      BY <2>8, <3>1
    <3> QED
      BY <1>1, <1>5, <1>6, <2>1, <2>4, <2>5, <2>6, <2>7, <2>9, <3>2 DEF RrGave
  <2>10. CASE m.type \notin Loss
    <3>1. Placed(t, m)
      <4>1. Placed(s, m)
        BY <1>2 DEF Inv, Account, q
      <4> QED
        BY <1>5, <4>1 DEF Placed, SameCall
    <3>2. Tied(t) /\ t.rr = "DEDICATED"
      BY <1>4, <1>5, <2>2, <2>10 DEF Tied, SameCall
    <3> QED
      BY <1>1, <1>5, <1>6, <2>1, <2>3, <2>4, <2>5, <2>6, <2>7, <2>8, <2>10, <3>1, <3>2 DEF RrGave
  <2> QED
    BY <2>9, <2>10
<1>8. CASE n # 1
  <2>1. m.type \in Loss /\ n - 1 \in Nat /\ n > 1 /\ v # <<>>
    <3>1. 1 \in 1..n - 1 /\ n - 1 \in Nat /\ n > 1
      BY <1>2, <1>8
    <3>2. v # <<>>
      BY <1>2, <3>1
    <3> QED
      BY <1>2, <1>4, <3>1, <3>2
  <2>2. \A i \in 1..n - 1 : i + 1 \in 1..n /\ v[i] = q[i + 1]
    BY <1>2
  <2>3. \A i \in 1..n : i = 1 \/ (i - 1 \in 1..n - 1 /\ v[i - 1] = q[i])
    <3> TAKE i \in 1..n
    <3>1. i = 1 \/ (i - 1 \in 1..n - 1 /\ (i - 1) + 1 = i)
      BY <1>2
    <3> QED
      BY <2>2, <3>1
  <2>4. News(v) <=> News(q)
    BY <1>2, <2>1, <2>2, <2>3, ZenonT(60) DEF News
  <2>5. Paged(v) <=> Paged(q)
    BY <1>2, <2>1, <2>2, <2>3 DEF Paged, Loss
  <2>6. \A i \in 1..Len(v) - 1 : v[i].type \in Loss
    <3> TAKE i \in 1..Len(v) - 1
    <3>1. i + 1 \in 1..n - 1 /\ i \in 1..n - 1
      BY <1>2, <2>1
    <3> QED
      BY <1>4, <2>2, <3>1
  <2>7. Signals(t, 2)
    BY <1>1, <1>4, <1>5, <1>8, <2>1, <2>4, <2>5, <2>6 DEF Inv, Signals, q
  <2>8. AllGone(t) /\ NoSetup(t) /\ Ties(t) /\ Books(t) /\ AccountBut(t)
    <3>1. Backed(s, t) /\ AccountBut(s)
      BY <1>5 DEF Backed, Inv, Account, AccountBut
    <3>2. AccountBut(t)
      BY <1>5, <3>1, BackedAccount
    <3> QED
      BY <1>4, <1>5, <3>2 DEF AllGone, NoSetup, Ties, Books, SameCall, Inv
  <2>9. ~(t.rr = "CONN_PEND" /\ t.rrEstReq)
    BY <1>5 DEF Inv, Signals
  <2>10. t.mm \in {"MM_IDLE", "WAIT_NETWORK_CMD"} => AllPending(t)
    BY <1>5 DEF Inv, Link, AllPending
  <2>11. t.rr = "DEDICATED" /\ t.mm = "MM_IDLE" => Paged(t.rrUp)
    BY <1>5, <2>5 DEF Inv, Link, q
  <2>12. News(t.rrUp) => Tied(t) /\ AllPending(t)
    <3>1. News(q) => Paged(q) /\ Tied(s)
      BY <1>4, <1>8
    <3>2. Paged(q) => AllPending(s)
      BY DEF Inv, Link, q
    <3> QED
      BY <1>5, <2>4, <3>1, <3>2 DEF Tied, AllPending, SameCall
  <2>13. \A i \in DOMAIN v : v[i].type \notin CcMsgs
    <3>1. ASSUME NEW i \in 1..n - 1 PROVE v[i].type \in Loss \cup {"EST_IND"}
      <4>1. CASE i \in 1..n - 2
        <5>1. i + 1 \in 1..n - 1
          BY <1>2, <2>1, <4>1
        <5> QED
          BY <1>4, <2>2, <5>1
      <4>2. CASE i = n - 1
        <5>1. ASSUME v[i].type \notin Loss PROVE v[i].type = "EST_IND"
          <6>1. News(q)
            BY <1>2, <2>4, <5>1 DEF News
          <6>2. Paged(v)
            BY <1>4, <1>8, <2>5, <6>1
          <6>3. PICK j \in 1..n - 1 : v[j].type = "EST_IND"
            BY <1>2, <6>2 DEF Paged
          <6>4. j = i
            <7>1. CASE j \in 1..n - 2
              <8>1. j + 1 \in 1..n - 1
                BY <1>2, <2>1, <7>1
              <8>2. v[j].type \in Loss
                BY <1>4, <2>2, <8>1
              <8> QED
                BY <6>3, <8>2 DEF Loss
            <7> QED
              BY <1>2, <2>1, <4>2, <7>1
          <6> QED
            BY <6>3, <6>4
        <5> QED
          BY <5>1
      <4> QED
        BY <1>2, <2>1, <4>1, <4>2
    <3> QED
      BY <1>2, <3>1 DEF Loss, CcMsgs
  <2> QED
    BY <1>1, <1>5, <1>6, <2>1, <2>7, <2>8, <2>9, <2>10, <2>11, <2>12, <2>13 DEF RrGave
<1> QED
  BY <1>7, <1>8

(* What MM must show for the invariant, when it has handled such a message. *)
LEMMA RrHandled ==
  ASSUME NEW s, NEW m, RrGave(s, m), NEW t \in Phones, SameRr(s, t), SameCall(s, t), Backed(s, t),
         Ties(t), AllGone(t) \/ s.rrUp = <<>>,
         t.rr = "DEDICATED" /\ t.mm = "MM_IDLE" => Paged(t.rrUp),
         (t.rr \in {"IDLE", "CONN_PEND"} \/ t.relWait) => AllPending(t),
         t.mm \in {"MM_IDLE", "WAIT_NETWORK_CMD"} \/ News(t.rrUp) => AllPending(t),
         News(t.rrUp) => Tied(t)
  PROVE  Inv(t, 2)
<1>1. Signals(t, 2)
  BY SignalsSame DEF RrGave
<1>2. Quiet(t, 2)
  BY DEF Quiet, RrGave, NoSetup, SameCall, SameRr
<1>3. Link(t, 2)
  BY PagedNews DEF Link, RrGave, SameRr
<1>4. Account(t)
  <2>1. AccountBut(t)
    BY BackedAccount DEF RrGave
  <2> QED
    BY <2>1 DEF AccountBut, Account, Placed, RrGave, SameRr
<1>5. Books(t)
  BY DEF Books, RrGave, SameCall
<1> QED
  BY <1>1, <1>2, <1>3, <1>4, <1>5 DEF Inv

(* Only timers of MM differ. *)
SameLayers(s, t) ==
  SameRr(s, t) /\ SameCall(s, t) /\ t.conns = s.conns /\ t.mmxx = s.mmxx /\ t.mm = s.mm

(* Only it changes whether the SIM is updated. *)
LEMMA UpdatedSet ==
  ASSUME NEW s \in Phones, NEW b \in BOOLEAN, NEW t, t = [s EXCEPT !.updated = b]
  PROVE  t \in Phones /\ SameLayers(s, t)
<1>1. t \in Phones
  BY DEF Phones
<1> QED
  BY <1>1 DEF Phones, SameLayers, SameRr, SameCall

(* MM returns to idle when the phone is camped, and nothing else changes. *)
LEMMA ReturnIdleFields ==
  ASSUME NEW s \in Phones, NEW t, t = ReturnIdle(s)
  PROVE  /\ t \in Phones /\ SameRr(s, t) /\ SameCall(s, t) /\ t.conns = s.conns /\ t.mmxx = s.mmxx
         /\ t.mm = IF s.camped THEN "MM_IDLE" ELSE s.mm
  BY DEF ReturnIdle, Phones, SameRr, SameCall, MmStates

(* gsm48_mm_release_mm_conn of all: every transaction is told of its end. *)
LEMMA ReleasedAll ==
  ASSUME NEW s \in Phones, Ties(s), AllGone(s), NEW prim \in Gone, NEW t, t = ReleaseConns(s, prim)
  PROVE  /\ t \in Phones /\ SameRr(s, t) /\ SameCall(s, t) /\ Backed(s, t)
         /\ t.mm = s.mm /\ t.conns = <<>> /\ Ties(t) /\ AllGone(t) /\ AllPending(t)
<1> DEFINE v == s.mmxx \o [i \in DOMAIN s.conns |-> UpMsg(prim, s.conns[i])]
<1>1. s.conns \in Seq(Conn) /\ s.mmxx \in Seq(MmxxMsg) /\ Distinct(s.conns) /\ prim \in MmxxPrims
      /\ ToldOnce(s.mmxx)
  BY PhoneTypes DEF Ties, MmxxPrims
<1>2. AllUp(v, s.mmxx, prim, s.conns)
  BY DEF AllUp
<1>3. t = [s EXCEPT !.mmxx = v, !.conns = <<>>]
  BY DEF ReleaseConns, UpAll, Phones
<1> HIDE DEF v
<1>4. /\ v \in Seq(MmxxMsg)
      /\ \A q : Ups(v, q) = IF Joined(s.conns, q)
                            THEN Ups(s.mmxx, q) \cup {Note(prim, q, TiOf(s.conns, q))}
                            ELSE Ups(s.mmxx, q)
      /\ ToldOnce(s.mmxx) /\ prim \in Gone => ToldOnce(v)
  BY <1>1, <1>2, UpsAll
<1>5. <<>> \in Seq(Conn) /\ \A q : ~Joined(<<>>, q) /\ ~Pend(<<>>, q)
  BY DEF Joined, Pend
<1>6. Distinct(<<>>) /\ OneWaits(<<>>)
  BY DEF Distinct, OneWaits
<1>7. /\ t \in Phones /\ t.mmxx = v /\ t.conns = <<>> /\ t.mm = s.mm
      /\ SameRr(s, t) /\ SameCall(s, t)
  BY <1>3, <1>4, <1>5, ZenonT(60) DEF Phones, SameRr, SameCall
<1>8. \A q : Note(prim, q, TiOf(s.conns, q)).prim \in Gone
  BY DEF Note
<1>9. AllGone(t)
  BY <1>4, <1>7, <1>8 DEF AllGone
<1>10. Backed(s, t)
  BY <1>4, <1>5, <1>7 DEF Backed
<1>11. ASSUME NEW q \in Refs PROVE Tie(t.trans, t.conns, t.mmxx, q)
  <2>1. Tie(s.trans, s.conns, s.mmxx, q)
    BY DEF Ties
  <2>2. \A m \in Ups(t.mmxx, q) : m.prim \in Gone
    BY <1>9 DEF AllGone
  <2>3. q \in DOMAIN t.trans => \E m \in Ups(t.mmxx, q) : m.prim \in Gone
    BY <1>4, <1>7, <1>8, <2>1 DEF Tie, SameCall
  <2> QED
    BY <1>5, <1>7, <2>1, <2>2, <2>3 DEF Tie, SameCall
<1>12. Ties(t)
  BY <1>1, <1>4, <1>6, <1>7, <1>11 DEF Ties, SameCall
<1>13. AllPending(t)
  BY <1>5, <1>7 DEF AllPending
<1> QED
  BY <1>7, <1>9, <1>10, <1>12, <1>13

(* The connection that waits: its reference has no identifier yet. *)
LEMMA PendingIs ==
  ASSUME NEW s \in Phones, Ties(s), HasPending(s)
  PROVE  LET i == PendingAt(s) c == s.conns[i] IN
         /\ i \in DOMAIN s.conns /\ IsPending(c) /\ c.ref \in Refs /\ c \in Conn
         /\ Joined(s.conns, c.ref) /\ Pend(s.conns, c.ref) /\ TiOf(s.conns, c.ref) = c.ti
         /\ c.ti = NoTi
         /\ c.ref \in DOMAIN s.trans => s.trans[c.ref].ti = NoTi
         /\ \A q : Pend(s.conns, q) => q = c.ref
<1> DEFINE i == PendingAt(s)
           c == s.conns[i]
<1>1. i \in DOMAIN s.conns /\ IsPending(c)
  BY DEF HasPending, PendingAt
<1> HIDE DEF i
<1>2. s.conns \in Seq(Conn) /\ Distinct(s.conns) /\ OneWaits(s.conns)
  BY PhoneTypes DEF Ties
<1>3. c \in Conn /\ c.ref \in Refs
  <2>1. c \in Conn
    BY <1>1, <1>2
  <2> QED
    BY <2>1 DEF Conn
<1>4. Joined(s.conns, c.ref) /\ TiOf(s.conns, c.ref) = c.ti
  BY <1>1, <1>2, ConnIs
<1>5. Pend(s.conns, c.ref) /\ \A q : Pend(s.conns, q) => q = c.ref
  BY <1>1, <1>2, WaitsIs
<1>6. c.ti = NoTi /\ (c.ref \in DOMAIN s.trans => s.trans[c.ref].ti = NoTi)
  BY <1>3, <1>4, <1>5 DEF Ties, Tie
<1> QED
  BY <1>1, <1>3, <1>4, <1>5, <1>6 DEF i

(* Without a connection that waits, no reference has one. *)
LEMMA NonePending ==
  ASSUME NEW s, ~HasPending(s)
  PROVE  \A q : ~Pend(s.conns, q)
  BY DEF HasPending, IsPending, Pend

(* A connection that tells of its end *)
LEMMA PendingReleased ==
  ASSUME NEW s \in Phones, Ties(s), AllGone(s), NEW t, t = ReleasePending(s)
  PROVE  /\ t \in Phones /\ SameRr(s, t) /\ SameCall(s, t) /\ Backed(s, t)
         /\ t.mm = s.mm /\ Ties(t) /\ AllGone(t)
         /\ \A q : ~Pend(t.conns, q)
         /\ \A q : Joined(t.conns, q) <=> Joined(s.conns, q) /\ ~Pend(s.conns, q)
<1>1. CASE ~HasPending(s)
  <2>1. t = s
    BY <1>1 DEF ReleasePending
  <2> QED
    BY <1>1, <2>1, NonePending DEF SameRr, SameCall, Backed
<1>2. CASE HasPending(s)
  <2> DEFINE i == PendingAt(s)
             c == s.conns[i]
             r == c.ref
             e == Note("REL_IND", r, c.ti)
             v == Append(s.mmxx, e)
             w == RemoveAt(s.conns, i)
  <2>1. /\ i \in DOMAIN s.conns /\ IsPending(c) /\ r \in Refs /\ c \in Conn
        /\ Joined(s.conns, r) /\ Pend(s.conns, r)
        /\ \A q : Pend(s.conns, q) => q = r
    BY <1>2, PendingIs
  <2>2. s.conns \in Seq(Conn) /\ s.mmxx \in Seq(MmxxMsg) /\ Distinct(s.conns) /\ OneWaits(s.conns)
        /\ ToldOnce(s.mmxx)
    BY PhoneTypes DEF Ties
  <2>3. t = [s EXCEPT !.conns = w, !.mmxx = v]
    BY <1>2 DEF ReleasePending, UpMsg, Note, Phones
  <2> HIDE DEF i
  <2>4. /\ w \in Seq(Conn) /\ Distinct(w)
        /\ \A q : Joined(w, q) <=> q # s.conns[i].ref /\ Joined(s.conns, q)
        /\ \A q : Pend(w, q) <=> q # s.conns[i].ref /\ Pend(s.conns, q)
        /\ \A q : Joined(w, q) => TiOf(w, q) = TiOf(s.conns, q)
        /\ OneWaits(s.conns) => OneWaits(w)
    BY <2>1, <2>2, ConnRemoved
  <2>5. e \in MmxxMsg /\ e.prim = "REL_IND" /\ e.ref = r /\ e.prim \in Gone
    <3>1. c.ti \in Tis \cup {NoTi} /\ "REL_IND" \in MmxxPrims
      BY <2>1 DEF Conn, MmxxPrims, Gone
    <3>2. r \in Refs
      BY <2>1
    <3> HIDE DEF c
    <3>3. e \in MmxxMsg /\ e.prim = "REL_IND" /\ e.ref = r
      BY <3>1, <3>2, NoteFields
    <3> QED
      BY <3>3 DEF Gone
  <2>6. Grown(v, s.mmxx, e)
    BY DEF Grown
  <2> HIDE DEF e, v, w, c, r
  <2>7. /\ v \in Seq(MmxxMsg)
        /\ \A q : Ups(v, q) = IF q = e.ref THEN Ups(s.mmxx, q) \cup {e} ELSE Ups(s.mmxx, q)
        /\ ToldOnce(s.mmxx) /\ e.prim \in Gone => ToldOnce(v)
    BY <2>2, <2>5, <2>6, UpsAppend
  <2>8. r = s.conns[i].ref
    BY DEF r, c
  <2>9. /\ t \in Phones /\ t.mmxx = v /\ t.conns = w /\ t.mm = s.mm
        /\ SameRr(s, t) /\ SameCall(s, t)
    BY <2>3, <2>4, <2>7, ZenonT(60) DEF Phones, SameRr, SameCall
  <2>10. \A q : ~Pend(t.conns, q)
    BY <2>1, <2>4, <2>8, <2>9
  <2>11. AllGone(t)
    BY <2>5, <2>7, <2>9 DEF AllGone
  <2>12. Backed(s, t)
    BY <2>1, <2>4, <2>5, <2>7, <2>9 DEF Backed
  <2>13. ASSUME NEW q \in Refs PROVE Tie(t.trans, t.conns, t.mmxx, q)
    <3>1. Tie(s.trans, s.conns, s.mmxx, q)
      BY DEF Ties
    <3>2. CASE q # r
      <4>1. TransRow(s, t, q) /\ ConnRow(s, t, q) /\ Ups(t.mmxx, q) = Ups(s.mmxx, q)
        BY <2>4, <2>5, <2>7, <2>8, <2>9, <3>2 DEF TransRow, ConnRow, SameCall
      <4> QED
        BY <3>1, <4>1, TieRow
    <3>3. CASE q = r
      <4>1. ~Joined(t.conns, q) /\ ~Pend(t.conns, q) /\ e \in Ups(t.mmxx, q)
        BY <2>4, <2>5, <2>7, <2>8, <2>9, <3>3
      <4>2. \A m \in Ups(t.mmxx, q) : m.prim \in Gone
        <5>1. \A m \in Ups(s.mmxx, q) : m.prim \in Gone
          BY <3>3 DEF AllGone
        <5> QED
          BY <2>5, <2>7, <2>9, <3>3, <5>1
      <4> QED
        BY <2>5, <2>9, <3>1, <4>1, <4>2 DEF Tie, SameCall
    <3> QED
      BY <3>2, <3>3
  <2>14. Ties(t)
    BY <2>2, <2>4, <2>5, <2>7, <2>9, <2>13 DEF Ties, SameCall
  <2>15. \A q : Joined(t.conns, q) <=> Joined(s.conns, q) /\ ~Pend(s.conns, q)
    BY <2>1, <2>4, <2>8, <2>9
  <2> QED
    BY <2>9, <2>10, <2>11, <2>12, <2>14, <2>15
<1> QED
  BY <1>1, <1>2

(* CM SERVICE ACCEPT: the connection that waits is opened and told of. *)
LEMMA AcceptedFields ==
  ASSUME NEW s \in Phones, Ties(s), AllGone(s), NEW t, t = Accepted(s)
  PROVE  /\ t \in Phones /\ SameRr(s, t) /\ SameCall(s, t) /\ Backed(s, t)
         /\ t.mm = "MM_CONN_ACTIVE" /\ Ties(t)
<1> DEFINE on == [s EXCEPT !.t3230 = FALSE, !.mm = "MM_CONN_ACTIVE"]
<1>1. on \in Phones /\ SameRr(s, on) /\ SameCall(s, on) /\ on.mm = "MM_CONN_ACTIVE"
      /\ on.conns = s.conns /\ on.mmxx = s.mmxx
  BY DEF Phones, SameRr, SameCall, MmStates
<1>2. CASE ~HasPending(s)
  <2>1. t = on
    BY <1>2 DEF Accepted
  <2> HIDE DEF on
  <2>2. Ties(on) /\ Backed(s, on)
    BY <1>1 DEF Ties, Backed, SameCall
  <2> QED
    BY <1>1, <2>1, <2>2
<1>3. CASE HasPending(s)
  <2> DEFINE i == PendingAt(s)
             c == s.conns[i]
             r == c.ref
             e == Note("EST_CNF", r, c.ti)
             v == Append(s.mmxx, e)
             w == [s.conns EXCEPT ![i].state = "DEDICATED"]
  <2>1. /\ i \in DOMAIN s.conns /\ IsPending(c) /\ r \in Refs /\ c \in Conn
        /\ Joined(s.conns, r) /\ Pend(s.conns, r) /\ TiOf(s.conns, r) = c.ti
        /\ \A q : Pend(s.conns, q) => q = r
    BY <1>3, PendingIs
  <2>2. s.conns \in Seq(Conn) /\ s.mmxx \in Seq(MmxxMsg) /\ Distinct(s.conns) /\ OneWaits(s.conns)
        /\ ToldOnce(s.mmxx)
    BY PhoneTypes DEF Ties
  <2>3. t = [on EXCEPT !.conns = w, !.mmxx = v]
    BY <1>3, <1>1 DEF Accepted, UpMsg, Note, Phones
  <2> HIDE DEF i, on
  <2>4. /\ w \in Seq(Conn) /\ Distinct(w) /\ OneWaits(w) /\ w # <<>>
        /\ \A q : Joined(w, q) <=> Joined(s.conns, q)
        /\ \A q : ~Pend(w, q)
        /\ \A q : Joined(w, q) => TiOf(w, q) = TiOf(s.conns, q)
    <3>1. Opens(w, s.conns, i)
      BY DEF Opens
    <3> HIDE DEF w
    <3> QED
      BY <2>1, <2>2, <3>1, ConnOpened
  <2>5. e \in MmxxMsg /\ e.prim = "EST_CNF" /\ e.ref = r /\ e.prim \notin Gone /\ e.ti = c.ti
    <3>1. c.ti \in Tis \cup {NoTi} /\ "EST_CNF" \in MmxxPrims
      BY <2>1 DEF Conn, MmxxPrims, Gone
    <3>2. r \in Refs
      BY <2>1
    <3> HIDE DEF c
    <3>3. e \in MmxxMsg /\ e.prim = "EST_CNF" /\ e.ref = r /\ e.ti = c.ti
      BY <3>1, <3>2, NoteFields
    <3> QED
      BY <3>3 DEF Gone
  <2>6. Grown(v, s.mmxx, e)
    BY DEF Grown
  <2> HIDE DEF e, v, w, c, r
  <2>7. /\ v \in Seq(MmxxMsg)
        /\ \A q : Ups(v, q) = IF q = e.ref THEN Ups(s.mmxx, q) \cup {e} ELSE Ups(s.mmxx, q)
        /\ (\A m \in Ups(s.mmxx, e.ref) : m.prim \in Gone) /\ ToldOnce(s.mmxx) => ToldOnce(v)
    BY <2>2, <2>5, <2>6, UpsAppend
  <2>8. /\ t \in Phones /\ t.mmxx = v /\ t.conns = w /\ t.mm = "MM_CONN_ACTIVE"
        /\ SameRr(s, t) /\ SameCall(s, t)
    BY <1>1, <2>3, <2>4, <2>7, ZenonT(60) DEF Phones, SameRr, SameCall
  <2>9. Backed(s, t)
    BY <2>1, <2>4, <2>5, <2>7, <2>8 DEF Backed
  <2>10. \A q \in Refs : \A m \in Ups(s.mmxx, q) : m.prim \in Gone
    BY DEF AllGone
  <2>11. ASSUME NEW q \in Refs PROVE Tie(t.trans, t.conns, t.mmxx, q)
    <3>1. Tie(s.trans, s.conns, s.mmxx, q)
      BY DEF Ties
    <3>2. /\ Joined(t.conns, q) <=> Joined(s.conns, q)
          /\ ~Pend(t.conns, q) /\ (Joined(s.conns, q) => TiOf(t.conns, q) = TiOf(s.conns, q))
          /\ t.trans = s.trans
      BY <2>4, <2>8 DEF SameCall
    <3>3. CASE q # r
      <4>1. Ups(t.mmxx, q) = Ups(s.mmxx, q)
        BY <2>5, <2>7, <2>8, <3>3
      <4> QED
        BY <2>10, <3>1, <3>2, <4>1 DEF Tie
    <3>4. CASE q = r
      <4>1. Ups(t.mmxx, q) = {e}
        <5>1. Ups(s.mmxx, q) = {}
          BY <2>1, <2>10, <3>1, <3>4 DEF Tie
        <5> QED
          BY <2>5, <2>7, <2>8, <3>4, <5>1
      <4> QED
        BY <2>1, <2>5, <3>1, <3>2, <3>4, <4>1 DEF Tie
    <3> QED
      BY <3>3, <3>4
  <2>12. Ties(t)
    BY <2>1, <2>2, <2>4, <2>5, <2>7, <2>8, <2>10, <2>11 DEF Ties, SameCall
  <2> QED
    BY <2>8, <2>9, <2>12
<1> QED
  BY <1>2, <1>3

(* SYNC_IND: every connection is told of the ciphering, and stays. *)
LEMMA SyncAll ==
  ASSUME NEW s \in Phones, Ties(s), AllGone(s), NEW t, t = UpAll(s, "SYNC_IND")
  PROVE  /\ t \in Phones /\ SameRr(s, t) /\ SameCall(s, t) /\ Backed(s, t)
         /\ t.mm = s.mm /\ t.conns = s.conns /\ Ties(t)
<1> DEFINE p == "SYNC_IND"
           v == s.mmxx \o [i \in DOMAIN s.conns |-> UpMsg(p, s.conns[i])]
<1>1. s.conns \in Seq(Conn) /\ s.mmxx \in Seq(MmxxMsg) /\ Distinct(s.conns) /\ p \in MmxxPrims
      /\ p \notin Gone /\ p # "EST_CNF"
  BY PhoneTypes DEF Ties, MmxxPrims, Gone
<1>2. AllUp(v, s.mmxx, p, s.conns)
  BY DEF AllUp
<1>3. t = [s EXCEPT !.mmxx = v]
  BY DEF UpAll, Phones
<1> HIDE DEF v, p
<1>4. /\ v \in Seq(MmxxMsg)
      /\ \A q : Ups(v, q) = IF Joined(s.conns, q)
                            THEN Ups(s.mmxx, q) \cup {Note(p, q, TiOf(s.conns, q))}
                            ELSE Ups(s.mmxx, q)
      /\ (\A q \in Refs : \A m \in Ups(s.mmxx, q) : m.prim \in Gone) => ToldOnce(v)
  BY <1>1, <1>2, UpsAll
<1>5. /\ t \in Phones /\ t.mmxx = v /\ t.conns = s.conns /\ t.mm = s.mm
      /\ SameRr(s, t) /\ SameCall(s, t)
  BY <1>3, <1>4, ZenonT(60) DEF Phones, SameRr, SameCall
<1>6. \A q \in Refs : \A m \in Ups(s.mmxx, q) : m.prim \in Gone
  BY DEF AllGone
<1>7. Backed(s, t)
  BY <1>4, <1>5 DEF Backed
<1>8. ASSUME NEW q \in Refs PROVE Tie(t.trans, t.conns, t.mmxx, q)
  <2>1. Tie(s.trans, s.conns, s.mmxx, q)
    BY DEF Ties
  <2>2. CASE ~Joined(s.conns, q)
    <3>1. Ups(t.mmxx, q) = Ups(s.mmxx, q)
      BY <1>4, <1>5, <2>2
    <3> QED
      BY <1>5, <2>1, <3>1 DEF Tie, SameCall
  <2>3. CASE Joined(s.conns, q)
    <3> DEFINE e == Note(p, q, TiOf(s.conns, q))
    <3>1. e.prim = p /\ e.ti = TiOf(s.conns, q)
      BY DEF Note
    <3> HIDE DEF e
    <3>2. Ups(s.mmxx, q) = {}
      BY <1>6, <2>1, <2>3 DEF Tie
    <3>3. Ups(t.mmxx, q) = {e}
      BY <1>4, <1>5, <2>3, <3>2 DEF e
    <3> QED
      BY <1>1, <1>5, <2>1, <2>3, <3>1, <3>3 DEF Tie, SameCall
  <2> QED
    BY <2>2, <2>3
<1> QED
  BY <1>4, <1>5, <1>6, <1>7, <1>8 DEF Ties, SameCall

(* REL_IND and ABORT_IND of radio resources: the connections are told of
   the loss. *)
LEMMA RrLostHandled ==
  ASSUME NEW s, NEW m, RrGave(s, m), m.type \in Loss
  PROVE  Inv(RrLost(s), 2)
<1> DEFINE off == [s EXCEPT !.t3240 = FALSE]
           both == [s EXCEPT !.t3240 = FALSE, !.t3230 = FALSE]
           freed == ReleaseConns(both, "ERR_IND")
           t == RrLost(s)
<1>1. s \in Phones /\ Signals(s, 2) /\ Ties(s) /\ AllGone(s)
  BY DEF RrGave
<1>2. off \in Phones /\ SameLayers(s, off)
  BY <1>1 DEF Phones, SameLayers, SameRr, SameCall
<1>3. both \in Phones /\ SameLayers(s, both)
  BY <1>1 DEF Phones, SameLayers, SameRr, SameCall
<1>4. s.camped => s.rr = "IDLE" /\ ~s.relWait
  BY <1>1 DEF Signals
<1>5. s.rr = "DEDICATED" /\ s.mm = "MM_IDLE" => Paged(s.rrUp)
  BY DEF RrGave
<1>6. CASE s.mm \in {"MM_IDLE", "WAIT_NETWORK_CMD"}
  <2>1. t = ReturnIdle(off)
    BY <1>6 DEF RrLost
  <2> HIDE DEF off, t
  <2>2. /\ t \in Phones /\ SameRr(off, t) /\ SameCall(off, t) /\ t.conns = off.conns
        /\ t.mmxx = off.mmxx /\ t.mm = IF off.camped THEN "MM_IDLE" ELSE off.mm
    BY <1>2, <2>1, ReturnIdleFields
  <2>3. /\ SameRr(s, t) /\ SameCall(s, t) /\ t.conns = s.conns /\ t.mmxx = s.mmxx
        /\ t.mm = IF s.camped THEN "MM_IDLE" ELSE s.mm
    BY <1>2, <2>2 DEF SameLayers, SameRr, SameCall
  <2>4. AllPending(t) /\ AllGone(t) /\ Ties(t) /\ Backed(s, t)
    BY <1>1, <1>6, <2>3 DEF RrGave, AllPending, AllGone, Ties, SameCall, Backed
  <2>5. t.rr = "DEDICATED" /\ t.mm = "MM_IDLE" => Paged(t.rrUp)
    BY <1>4, <1>5, <2>3 DEF SameRr
  <2>6. News(t.rrUp) => Tied(t)
    BY <2>3 DEF RrGave, Tied, SameRr, SameCall
  <2>7. Inv(t, 2)
    BY <2>2, <2>3, <2>4, <2>5, <2>6, RrHandled
  <2> QED
    BY <2>7 DEF t
<1>7. CASE s.mm \notin {"MM_IDLE", "WAIT_NETWORK_CMD"}
  <2>1. t = ReturnIdle(freed)
    BY <1>7 DEF RrLost
  <2>2. Ties(both) /\ AllGone(both)
    BY <1>1, <1>3 DEF SameLayers, SameCall, Ties, AllGone
  <2> HIDE DEF both, t
  <2>3. /\ freed \in Phones /\ SameRr(both, freed) /\ SameCall(both, freed) /\ Backed(both, freed)
        /\ freed.mm = both.mm /\ freed.conns = <<>> /\ Ties(freed) /\ AllGone(freed)
    BY <1>3, <2>2, ReleasedAll DEF Gone
  <2> HIDE DEF freed
  <2>4. /\ t \in Phones /\ SameRr(freed, t) /\ SameCall(freed, t) /\ t.conns = freed.conns
        /\ t.mmxx = freed.mmxx /\ t.mm = IF freed.camped THEN "MM_IDLE" ELSE freed.mm
    BY <2>1, <2>3, ReturnIdleFields
  <2>5. /\ SameRr(s, t) /\ SameCall(s, t) /\ t.conns = <<>> /\ t.mmxx = freed.mmxx
        /\ t.mm = IF s.camped THEN "MM_IDLE" ELSE s.mm
    BY <1>3, <2>3, <2>4 DEF SameLayers, SameRr, SameCall
  <2>6. AllPending(t)
    BY <2>4, <2>5, NoneJoined, PhoneTypes DEF AllPending
  <2>7. AllGone(t) /\ Ties(t)
    BY <2>3, <2>4 DEF AllGone, Ties, SameCall
  <2>8. Backed(s, t)
    BY <1>3, <2>3, <2>4 DEF Backed, SameLayers
  <2>9. t.rr = "DEDICATED" /\ t.mm = "MM_IDLE" => Paged(t.rrUp)
    BY <1>4, <1>7, <2>5 DEF SameRr
  <2>10. News(t.rrUp) => Tied(t)
    <3> SUFFICES ASSUME News(t.rrUp), NEW q \in DOMAIN t.trans
                 PROVE  t.trans[q].ti = NoTi
      BY DEF Tied
    <3>1. News(s.rrUp) /\ q \in DOMAIN s.trans /\ t.trans[q] = s.trans[q]
      BY <2>5 DEF SameRr, SameCall
    <3>2. Tied(s) /\ AllPending(s) /\ q \in Refs
      BY <1>1, <3>1, PhoneTypes DEF RrGave
    <3>3. Joined(s.conns, q) => s.trans[q].ti = NoTi
      BY <1>1, <3>1, <3>2 DEF Ties, Tie, AllPending
    <3> QED
      BY <3>1, <3>2, <3>3 DEF Tied
  <2>11. Inv(t, 2)
    BY <2>4, <2>5, <2>6, <2>7, <2>8, <2>9, <2>10, RrHandled
  <2> QED
    BY <2>11 DEF t
<1> QED
  BY <1>6, <1>7

(* What comes on the channel: nothing more is told, and MM is on it. *)
LEMMA NewsHandled ==
  ASSUME NEW s, NEW m, RrGave(s, m), m.type \notin Loss,
         NEW t \in Phones, SameRr(s, t), SameCall(s, t), Backed(s, t), Ties(t),
         t.mm # "MM_IDLE", t.mm = "WAIT_NETWORK_CMD" => AllPending(t)
  PROVE  Inv(t, 2)
<1>1. s.rrUp = <<>> /\ s.rr = "DEDICATED" /\ Signals(s, 2)
  BY DEF RrGave
<1>2. ~News(t.rrUp) /\ t.rr = "DEDICATED" /\ ~t.relWait
  BY <1>1 DEF SameRr, News, Signals
<1> QED
  BY <1>1, <1>2, RrHandled

(* Where MM stands when news of radio resources come. *)
LEMMA NewsMm ==
  ASSUME NEW s, NEW m, RrGave(s, m), m.type \notin Loss
  PROVE  /\ s \in Phones /\ Ties(s) /\ AllGone(s) /\ s.mm \in MmStates
         /\ s.mm \in {"MM_IDLE", "WAIT_NETWORK_CMD"} => AllPending(s)
         /\ m.type # "EST_IND" => s.mm # "MM_IDLE"
         /\ SameRr(s, s) /\ SameCall(s, s) /\ Backed(s, s)
  BY DEF RrGave, SameRr, SameCall, Backed, Phones

(* Only MM changes: the transactions stay tied. *)
LEMMA SetMm ==
  ASSUME NEW s \in Phones, Ties(s), NEW t \in Phones, SameRr(s, t), SameCall(s, t),
         t.conns = s.conns, t.mmxx = s.mmxx
  PROVE  Ties(t) /\ Backed(s, t) /\ (AllGone(s) => AllGone(t)) /\ (AllPending(s) => AllPending(t))
  BY DEF Ties, Backed, AllGone, AllPending, SameCall

(* The channel is had that MM asked for. *)
LEMMA RrConfirmedHandled ==
  ASSUME NEW s, NEW m, RrGave(s, m), m.type = "EST_CNF"
  PROVE  Inv(RrConfirmed(s), 2)
<1>1. m.type \notin Loss /\ m.type # "EST_IND"
  BY DEF Loss
<1>2. /\ s \in Phones /\ Ties(s) /\ AllGone(s) /\ s.mm # "MM_IDLE"
      /\ s.mm = "WAIT_NETWORK_CMD" => AllPending(s)
      /\ SameRr(s, s) /\ SameCall(s, s) /\ Backed(s, s)
  BY <1>1, NewsMm
<1>3. CASE s.mm # "WAIT_RR_CONN_MM_CON"
  <2>1. RrConfirmed(s) = s
    BY <1>3 DEF RrConfirmed
  <2> QED
    BY <1>1, <1>2, <2>1, NewsHandled
<1>4. CASE s.mm = "WAIT_RR_CONN_MM_CON" /\ s.conns = <<>>
  <2> DEFINE t == AwaitRelease(s)
  <2>1. RrConfirmed(s) = t
    BY <1>4 DEF RrConfirmed
  <2>2. t \in Phones /\ SameRr(s, t) /\ SameCall(s, t) /\ t.conns = s.conns /\ t.mmxx = s.mmxx
        /\ t.mm = "WAIT_NETWORK_CMD"
    BY <1>2 DEF AwaitRelease, Phones, SameRr, SameCall, MmStates
  <2> HIDE DEF t
  <2>3. Ties(t) /\ Backed(s, t)
    BY <1>2, <2>2, SetMm
  <2>4. AllPending(t)
    BY <1>4, <2>2, NoneJoined, PhoneTypes DEF AllPending
  <2> QED
    BY <1>1, <2>1, <2>2, <2>3, <2>4, NewsHandled
<1>5. CASE s.mm = "WAIT_RR_CONN_MM_CON" /\ s.conns # <<>>
  <2> DEFINE t == [s EXCEPT !.mm = "WAIT_OUT_MM_CONN", !.t3230 = TRUE]
  <2>1. RrConfirmed(s) = t
    BY <1>5 DEF RrConfirmed
  <2>2. t \in Phones /\ SameRr(s, t) /\ SameCall(s, t) /\ t.conns = s.conns /\ t.mmxx = s.mmxx
        /\ t.mm = "WAIT_OUT_MM_CONN"
    BY <1>2 DEF Phones, SameRr, SameCall, MmStates
  <2> HIDE DEF t
  <2>3. Ties(t) /\ Backed(s, t)
    BY <1>2, <2>2, SetMm
  <2> QED
    BY <1>1, <2>1, <2>2, <2>3, NewsHandled
<1> QED
  BY <1>3, <1>4, <1>5

(* The channel is had after a page. *)
LEMMA RrIndicatedHandled ==
  ASSUME NEW s, NEW m, RrGave(s, m), m.type = "EST_IND"
  PROVE  Inv(RrIndicated(s), 2)
<1>1. m.type \notin Loss
  BY DEF Loss
<1>2. /\ s \in Phones /\ Ties(s)
      /\ s.mm \in {"MM_IDLE", "WAIT_NETWORK_CMD"} => AllPending(s)
      /\ SameRr(s, s) /\ SameCall(s, s) /\ Backed(s, s)
  BY <1>1, NewsMm
<1>3. CASE s.mm # "MM_IDLE"
  <2>1. RrIndicated(s) = s
    BY <1>3 DEF RrIndicated
  <2> QED
    BY <1>1, <1>2, <1>3, <2>1, NewsHandled
<1>4. CASE s.mm = "MM_IDLE"
  <2> DEFINE t == [s EXCEPT !.mm = "WAIT_NETWORK_CMD"]
  <2>1. RrIndicated(s) = t
    BY <1>4 DEF RrIndicated
  <2>2. t \in Phones /\ SameRr(s, t) /\ SameCall(s, t) /\ t.conns = s.conns /\ t.mmxx = s.mmxx
        /\ t.mm = "WAIT_NETWORK_CMD"
    BY <1>2 DEF Phones, SameRr, SameCall, MmStates
  <2> HIDE DEF t
  <2>3. Ties(t) /\ Backed(s, t) /\ AllPending(t)
    BY <1>2, <1>4, <2>2, SetMm
  <2> QED
    BY <1>1, <2>1, <2>2, <2>3, NewsHandled
<1> QED
  BY <1>3, <1>4

(* CM SERVICE ACCEPT: the invariant holds on. *)
LEMMA AcceptedHandled ==
  ASSUME NEW s, NEW m, RrGave(s, m), m.type \notin Loss
  PROVE  Inv(Accepted(s), 2)
<1> DEFINE t == Accepted(s)
<1>1. s \in Phones /\ Ties(s) /\ AllGone(s)
  BY NewsMm
<1>2. /\ t \in Phones /\ SameRr(s, t) /\ SameCall(s, t) /\ Backed(s, t)
      /\ t.mm = "MM_CONN_ACTIVE" /\ Ties(t)
  BY <1>1, AcceptedFields
<1> HIDE DEF t
<1>3. Inv(t, 2)
  BY <1>2, NewsHandled
<1> QED
  BY <1>3 DEF t

(* SYNC_IND: the invariant holds on. *)
LEMMA SynchronisedHandled ==
  ASSUME NEW s, NEW m, RrGave(s, m), m.type = "SYNC_IND"
  PROVE  Inv(Synchronised(s), 2)
<1>1. m.type \notin Loss /\ m.type # "EST_IND"
  BY DEF Loss
<1>2. /\ s \in Phones /\ Ties(s) /\ AllGone(s) /\ s.mm # "MM_IDLE"
      /\ s.mm = "WAIT_NETWORK_CMD" => AllPending(s)
      /\ SameRr(s, s) /\ SameCall(s, s) /\ Backed(s, s)
  BY <1>1, NewsMm
<1>3. CASE s.mm \in {"WAIT_OUT_MM_CONN", "WAIT_ADD_OUT_MM_CON"}
  <2>1. Synchronised(s) = Accepted(s)
    BY <1>3 DEF Synchronised
  <2> QED
    BY <1>1, <2>1, AcceptedHandled
<1>4. CASE s.mm = "MM_CONN_ACTIVE"
  <2> DEFINE off == [s EXCEPT !.t3230 = FALSE]
             t == UpAll(off, "SYNC_IND")
  <2>1. Synchronised(s) = t
    BY <1>4 DEF Synchronised
  <2>2. off \in Phones /\ SameRr(s, off) /\ SameCall(s, off) /\ off.conns = s.conns
        /\ off.mmxx = s.mmxx /\ off.mm = s.mm
    BY <1>2 DEF Phones, SameRr, SameCall
  <2> HIDE DEF off
  <2>3. Ties(off) /\ Backed(s, off) /\ AllGone(off)
    BY <1>2, <2>2, SetMm
  <2>4. /\ t \in Phones /\ SameRr(off, t) /\ SameCall(off, t) /\ Backed(off, t)
        /\ t.mm = off.mm /\ t.conns = off.conns /\ Ties(t)
    BY <2>2, <2>3, SyncAll
  <2> HIDE DEF t
  <2>5. SameRr(s, t) /\ SameCall(s, t) /\ Backed(s, t) /\ t.mm = "MM_CONN_ACTIVE"
    BY <1>4, <2>2, <2>4 DEF SameRr, SameCall, Backed
  <2> QED
    BY <1>1, <2>1, <2>4, <2>5, NewsHandled
<1>5. CASE s.mm \notin {"WAIT_OUT_MM_CONN", "WAIT_ADD_OUT_MM_CON", "MM_CONN_ACTIVE"}
  <2>1. Synchronised(s) = s
    BY <1>5 DEF Synchronised
  <2> QED
    BY <1>1, <1>2, <2>1, NewsHandled
<1> QED
  BY <1>3, <1>4, <1>5

(* CM SERVICE REJECT: the invariant holds on. *)
LEMMA RejectedHandled ==
  ASSUME NEW s, NEW m, RrGave(s, m), m.type \notin Loss
  PROVE  Inv(Rejected(s), 2)
<1> DEFINE off == [s EXCEPT !.t3230 = FALSE]
           u == ReleasePending(off)
           t == [u EXCEPT !.mm = IF u.conns = <<>> THEN "WAIT_NETWORK_CMD" ELSE "MM_CONN_ACTIVE"]
<1>1. s \in Phones /\ Ties(s) /\ AllGone(s)
  BY NewsMm
<1>2. off \in Phones /\ SameRr(s, off) /\ SameCall(s, off) /\ off.conns = s.conns
      /\ off.mmxx = s.mmxx /\ off.mm = s.mm
  BY <1>1 DEF Phones, SameRr, SameCall
<1>3. Rejected(s) = t
  BY DEF Rejected
<1> HIDE DEF off
<1>4. Ties(off) /\ Backed(s, off) /\ AllGone(off)
  BY <1>1, <1>2, SetMm
<1>5. /\ u \in Phones /\ SameRr(off, u) /\ SameCall(off, u) /\ Backed(off, u) /\ Ties(u)
  BY <1>2, <1>4, PendingReleased
<1> HIDE DEF u
<1>6. /\ t \in Phones /\ SameRr(u, t) /\ SameCall(u, t) /\ t.conns = u.conns /\ t.mmxx = u.mmxx
      /\ t.mm = IF u.conns = <<>> THEN "WAIT_NETWORK_CMD" ELSE "MM_CONN_ACTIVE"
  BY <1>5 DEF Phones, SameRr, SameCall, MmStates
<1> HIDE DEF t
<1>7. Ties(t) /\ Backed(u, t)
  BY <1>5, <1>6, SetMm
<1>8. SameRr(s, t) /\ SameCall(s, t) /\ Backed(s, t)
  BY <1>2, <1>4, <1>5, <1>6, <1>7 DEF SameRr, SameCall, Backed
<1>9. t.conns = <<>> => AllPending(t)
  BY <1>6, NoneJoined, PhoneTypes DEF AllPending
<1>10. Inv(t, 2)
  BY <1>6, <1>7, <1>8, <1>9, NewsHandled
<1> QED
  BY <1>3, <1>10

(* CM SERVICE REJECT that ends all connections: the invariant holds on. *)
LEMMA RejectedAnyHandled ==
  ASSUME NEW s, NEW m, RrGave(s, m), m.type = "CM_SERV_REJ_ANY"
  PROVE  Inv(RejectedAny(s), 2)
<1> DEFINE off == [s EXCEPT !.t3230 = FALSE]
           u == ReleaseConns(off, "REL_IND")
           t == [u EXCEPT !.mm = "WAIT_NETWORK_CMD", !.updated = FALSE]
<1>1. m.type \notin Loss
  BY DEF Loss
<1>2. s \in Phones /\ Ties(s) /\ AllGone(s)
  BY <1>1, NewsMm
<1>3. off \in Phones /\ SameRr(s, off) /\ SameCall(s, off) /\ off.conns = s.conns
      /\ off.mmxx = s.mmxx
  BY <1>2 DEF Phones, SameRr, SameCall
<1>4. RejectedAny(s) = t
  BY DEF RejectedAny
<1> HIDE DEF off
<1>5. Ties(off) /\ Backed(s, off) /\ AllGone(off)
  BY <1>2, <1>3, SetMm
<1>6. /\ u \in Phones /\ SameRr(off, u) /\ SameCall(off, u) /\ Backed(off, u) /\ Ties(u)
      /\ AllPending(u)
  BY <1>3, <1>5, ReleasedAll DEF Gone
<1> HIDE DEF u
<1>7. /\ t \in Phones /\ SameRr(u, t) /\ SameCall(u, t) /\ t.conns = u.conns /\ t.mmxx = u.mmxx
      /\ t.mm = "WAIT_NETWORK_CMD"
  BY <1>6 DEF Phones, SameRr, SameCall, MmStates
<1> HIDE DEF t
<1>8. Ties(t) /\ Backed(u, t) /\ AllPending(t)
  BY <1>6, <1>7, SetMm
<1>9. SameRr(s, t) /\ SameCall(s, t) /\ Backed(s, t)
  BY <1>3, <1>5, <1>6, <1>7, <1>8 DEF SameRr, SameCall, Backed
<1>10. Inv(t, 2)
  BY <1>1, <1>7, <1>8, <1>9, NewsHandled
<1> QED
  BY <1>4, <1>10

(* ABORT of MM: what it leaves of the connections. *)
LEMMA AbortedFields ==
  ASSUME NEW s, NEW m, RrGave(s, m), m.type \in {"MM_ABORT", "MM_ABORT_ILLEGAL"},
         NEW u, u = AbortedByNetwork(s)
  PROVE  /\ u \in Phones /\ SameRr(s, u) /\ SameCall(s, u) /\ Backed(s, u) /\ Ties(u)
         /\ u.mm # "MM_IDLE" /\ (u.mm = "WAIT_NETWORK_CMD" => AllPending(u))
<1> DEFINE off == [s EXCEPT !.t3230 = FALSE]
           t == ReleaseConns(off, "REL_IND")
<1>1. m.type \notin Loss /\ m.type # "EST_IND"
  BY DEF Loss
<1>2. /\ s \in Phones /\ Ties(s) /\ AllGone(s) /\ s.mm # "MM_IDLE"
      /\ s.mm = "WAIT_NETWORK_CMD" => AllPending(s)
      /\ SameRr(s, s) /\ SameCall(s, s) /\ Backed(s, s)
  BY <1>1, NewsMm
<1>3. CASE s.conns = <<>>
  <2>1. u = s
    BY <1>3 DEF AbortedByNetwork
  <2> QED
    BY <1>2, <2>1
<1>4. CASE s.conns # <<>>
  <2>1. u = t
    BY <1>4 DEF AbortedByNetwork
  <2>2. off \in Phones /\ SameRr(s, off) /\ SameCall(s, off) /\ off.conns = s.conns
        /\ off.mmxx = s.mmxx /\ off.mm = s.mm
    BY <1>2 DEF Phones, SameRr, SameCall
  <2> HIDE DEF off
  <2>3. Ties(off) /\ Backed(s, off) /\ AllGone(off)
    BY <1>2, <2>2, SetMm
  <2>4. /\ t \in Phones /\ SameRr(off, t) /\ SameCall(off, t) /\ Backed(off, t)
        /\ t.mm = off.mm /\ Ties(t) /\ AllPending(t)
    BY <2>2, <2>3, ReleasedAll DEF Gone
  <2> HIDE DEF t
  <2>5. SameRr(s, t) /\ SameCall(s, t) /\ Backed(s, t) /\ t.mm # "MM_IDLE"
    BY <1>2, <2>2, <2>3, <2>4 DEF SameRr, SameCall, Backed
  <2> QED
    BY <2>1, <2>4, <2>5
<1> QED
  BY <1>3, <1>4

(* ABORT of MM: the invariant holds on. *)
LEMMA AbortedHandled ==
  ASSUME NEW s, NEW m, RrGave(s, m), m.type = "MM_ABORT"
  PROVE  Inv(AbortedByNetwork(s), 2)
<1>1. m.type \notin Loss
  BY DEF Loss
<1> QED
  BY <1>1, AbortedFields, NewsHandled

(* ABORT as the phone is illegal: besides, the SIM is no longer updated. *)
LEMMA IllegalHandled ==
  ASSUME NEW s, NEW m, RrGave(s, m), m.type = "MM_ABORT_ILLEGAL"
  PROVE  Inv(AbortedAsIllegal(s), 2)
<1> DEFINE u == AbortedByNetwork(s)
           t == AbortedAsIllegal(s)
<1>1. /\ u \in Phones /\ SameRr(s, u) /\ SameCall(s, u) /\ Backed(s, u) /\ Ties(u)
      /\ u.mm # "MM_IDLE" /\ (u.mm = "WAIT_NETWORK_CMD" => AllPending(u))
  BY AbortedFields
<1>2. t = [u EXCEPT !.updated = s.conns = <<>> /\ @]
  BY DEF AbortedAsIllegal
<1> HIDE DEF u, t
<1>3. t \in Phones /\ SameLayers(u, t)
  <2> DEFINE b == s.conns = <<>> /\ u.updated
  <2>1. t = [u EXCEPT !.updated = b]
    BY <1>1, <1>2 DEF Phones
  <2>2. b \in BOOLEAN
    OBVIOUS
  <2> HIDE DEF b
  <2> QED
    BY <1>1, <2>1, <2>2, UpdatedSet
<1>4. SameRr(u, t) /\ SameCall(u, t) /\ t.conns = u.conns /\ t.mmxx = u.mmxx /\ t.mm = u.mm
  BY <1>3 DEF SameLayers
<1>5. Ties(t) /\ Backed(u, t) /\ (AllPending(u) => AllPending(t))
  BY <1>1, <1>3, <1>4, SetMm
<1>6. SameRr(s, t) /\ SameCall(s, t) /\ Backed(s, t)
  BY <1>1, <1>4, <1>5 DEF SameRr, SameCall, Backed
<1>7. m.type \notin Loss
  BY DEF Loss
<1>8. Inv(t, 2)
  BY <1>1, <1>3, <1>4, <1>5, <1>6, <1>7, NewsHandled
<1> QED
  BY <1>8 DEF t

-----------------------------------------------------------------------------
(* A message of call control, on the connection its identifier belongs to *)

(* The phone u when call control takes the message m about the transaction r *)
Entered(u, r, m) ==
  /\ Core(u, 2) /\ Books(u) /\ AllGone(u) /\ NoSetup(u) /\ u.rsl = <<>> /\ u.rrUp = <<>>
  /\ r \in DOMAIN u.trans /\ u.trans[r].ti = m.ti /\ m.ti \in Tis /\ m.type \in CcMsgs

(* Where the layers stand when a message comes on the channel. *)
LEMMA RrCore ==
  ASSUME NEW s, NEW m, RrGave(s, m), m.type \notin Loss, m.type # "EST_IND"
  PROVE  /\ Core(s, 2) /\ Books(s) /\ s.rr = "DEDICATED" /\ s.rsl = <<>> /\ s.rrUp = <<>>
         /\ s.mm # "MM_IDLE" /\ Tied(s) /\ Placed(s, m) /\ AllGone(s) /\ NoSetup(s)
         /\ s.mm = "WAIT_NETWORK_CMD" => AllPending(s)
<1>1. Inv(s, 2)
  BY NewsMm, NewsHandled
<1> QED
  BY <1>1, InvIs DEF RrGave

(* The connection found by an identifier has it. *)
LEMMA ByTiIs ==
  ASSUME NEW s \in Phones, Distinct(s.conns), NEW ti,
         NEW i \in DOMAIN s.conns, s.conns[i].ti = ti
  PROVE  \E j \in DOMAIN s.conns : s.conns[j].ti = ti /\ ByTi(s, ti) = s.conns[j].ref
<1>1. s.conns \in Seq(Conn) /\ DOMAIN s.conns = 1..Len(s.conns) /\ Len(s.conns) \in Nat
  BY PhoneTypes
<1> DEFINE low == {j \in DOMAIN s.conns : s.conns[j].ti = ti}
<1>2. low \subseteq Nat /\ low # {}
  BY <1>1
<1>3. PICK n \in low : \A k \in low : ~(k < n)
  <2>1. PICK n \in low : \A k \in low : <<k, n>> \notin OpToRel(<, Nat)
    BY <1>2, NatLessThanWellFounded, WFMin, Zenon
  <2> QED
    BY <1>2, <2>1, Zenon DEF OpToRel
<1> DEFINE c == CHOOSE j \in DOMAIN s.conns :
                  s.conns[j].ti = ti /\ \A k \in 1..j - 1 : s.conns[k].ti # ti
<1>4. \A k \in 1..n - 1 : s.conns[k].ti # ti
  <2> SUFFICES ASSUME NEW k \in 1..n - 1 PROVE s.conns[k].ti # ti
    OBVIOUS
  <2>1. n \in 1..Len(s.conns)
    BY <1>1, <1>3
  <2>2. k \in DOMAIN s.conns /\ k < n
    BY <1>1, <2>1
  <2> QED
    BY <1>3, <2>2
<1>5. c \in DOMAIN s.conns /\ s.conns[c].ti = ti
  BY <1>3, <1>4
<1>6. ByTi(s, ti) = s.conns[c].ref
  BY <1>1 DEF ByTi
<1> QED
  BY <1>5, <1>6

(* Its connection is there. *)
LEMMA KnownEntered ==
  ASSUME NEW s, NEW m, RrGave(s, m), m.type \in CcMsgs,
         NEW i \in DOMAIN s.conns, s.conns[i].ti = m.ti
  PROVE  LET r == ByTi(s, m.ti) IN Entered(s, r, m) /\ CcData(s, m) = DataInd(s, r, m)
<1>0. m.type \notin Loss /\ m.type # "EST_IND"
  BY DEF CcMsgs, Loss
<1>1. /\ Core(s, 2) /\ Books(s) /\ s.rr = "DEDICATED" /\ s.rsl = <<>> /\ s.rrUp = <<>>
      /\ s.mm # "MM_IDLE" /\ Tied(s) /\ Placed(s, m) /\ AllGone(s) /\ NoSetup(s)
      /\ s.mm = "WAIT_NETWORK_CMD" => AllPending(s)
  BY <1>0, RrCore
<1>2. s \in Phones /\ Ties(s) /\ Account(s) /\ Distinct(s.conns) /\ s.conns \in Seq(Conn)
  BY <1>1, PhoneTypes DEF Core, Ties
<1> DEFINE r == ByTi(s, m.ti)
<1>3. PICK j \in DOMAIN s.conns : s.conns[j].ti = m.ti /\ r = s.conns[j].ref
  BY <1>2, ByTiIs
<1> HIDE DEF r
<1>4. Joined(s.conns, r) /\ TiOf(s.conns, r) = m.ti /\ r \in Refs
  BY <1>2, <1>3, ConnIs, JoinedRefs
<1>5. m.ti \in Tis /\ m.ti # NoTi
  BY <1>1, Identifiers DEF Placed
<1>6. Tie(s.trans, s.conns, s.mmxx, r)
  BY <1>2, <1>4 DEF Ties
<1>7. r \in DOMAIN s.trans /\ s.trans[r].ti = m.ti /\ ~Pend(s.conns, r)
  BY <1>4, <1>5, <1>6 DEF Tie
<1>8. r # s.mtRef
  <2> SUFFICES ASSUME r = s.mtRef PROVE FALSE
    OBVIOUS
  <2>1. s.mtRef \in Int /\ r \notin MoRefs
    BY <1>2, MmAssumption DEF Account, MtBase, MoRefs
  <2>2. Later(s, r)
    BY <2>1 DEF Later
  <2> QED
    BY <1>2, <1>4, <2>2 DEF Account, Unused
<1>9. s.mm # "WAIT_NETWORK_CMD"
  BY <1>1, <1>4, <1>7 DEF AllPending
<1>10. ForData(s, m.ti) = s
  BY <1>8, <1>9 DEF ForData, r
<1>11. CcData(s, m) = DataInd(s, r, m)
  BY <1>7, <1>10 DEF CcData, Known, Has, r
<1>12. Entered(s, r, m)
  BY <1>1, <1>5, <1>7 DEF Entered
<1> QED
  BY <1>11, <1>12 DEF r

(* A connection for it is made. *)
LEMMA NewConnFields ==
  ASSUME NEW s \in Phones, Distinct(s.conns), NEW r \in Refs, ~Joined(s.conns, r),
         NEW ti \in Tis \cup {NoTi}, NEW state \in {"IDLE", "CONN_PEND", "DEDICATED"},
         NEW x, x = NewConn(s, r, ti, state)
  PROVE  /\ x \in Phones /\ SameRr(s, x) /\ SameApp(s, x)
         /\ x.mm = s.mm /\ x.mtRef = s.mtRef /\ x.trans = s.trans
         /\ x.mncc = s.mncc /\ x.mmxx = s.mmxx /\ Distinct(x.conns) /\ x.conns # <<>>
         /\ ConnRows(x.conns, s.conns, r, ti, state)
         /\ OneWaits(s.conns) /\ state # "CONN_PEND" => OneWaits(x.conns)
         /\ (\A q : ~Pend(s.conns, q)) => OneWaits(x.conns)
         /\ x.barred = s.barred
<1> DEFINE c == [ref |-> r, ti |-> ti, state |-> state]
           v == <<c>> \o s.conns
<1>1. s.conns \in Seq(Conn)
  BY PhoneTypes
<1>2. c \in Conn /\ c.ref = r /\ c.ti = ti /\ c.state = state
  BY DEF Conn
<1>3. x = [s EXCEPT !.conns = v]
  BY DEF NewConn, Phones
<1> HIDE DEF c
<1>4. Fronted(v, s.conns, c)
  BY DEF Fronted
<1> HIDE DEF v
<1>5. /\ v \in Seq(Conn) /\ Distinct(v) /\ v # <<>>
      /\ ConnRows(v, s.conns, c.ref, c.ti, c.state)
      /\ OneWaits(s.conns) /\ c.state # "CONN_PEND" => OneWaits(v)
      /\ (\A q : ~Pend(s.conns, q)) => OneWaits(v)
  BY <1>1, <1>2, <1>4, ConnAdded
<1>6. /\ x \in Phones /\ x.conns = v /\ SameRr(s, x) /\ SameApp(s, x)
      /\ x.mm = s.mm /\ x.mtRef = s.mtRef /\ x.trans = s.trans
      /\ x.mncc = s.mncc /\ x.mmxx = s.mmxx /\ x.barred = s.barred
  BY <1>3, <1>5, ZenonT(60) DEF Phones, SameRr, SameApp
<1> QED
  BY <1>2, <1>5, <1>6

(* A message of a transaction nobody knows makes one, and its connection. *)
LEMMA MadeEntered ==
  ASSUME NEW s, NEW m, RrGave(s, m), m.type \in CcMsgs,
         \A i \in DOMAIN s.conns : s.conns[i].ti # m.ti
  PROVE  \E u : LET r == ByTi(s, m.ti) IN Entered(u, r, m) /\ CcData(s, m) = DataInd(u, r, m)
<1>0. m.type \notin Loss /\ m.type # "EST_IND"
  BY DEF CcMsgs, Loss
<1>1. /\ Core(s, 2) /\ Books(s) /\ s.rr = "DEDICATED" /\ s.rsl = <<>> /\ s.rrUp = <<>>
      /\ s.mm # "MM_IDLE" /\ Tied(s) /\ Placed(s, m) /\ AllGone(s) /\ NoSetup(s)
      /\ s.mm = "WAIT_NETWORK_CMD" => AllPending(s)
  BY <1>0, RrCore
<1>2. /\ s \in Phones /\ Ties(s) /\ Account(s) /\ Distinct(s.conns) /\ s.conns \in Seq(Conn)
      /\ OneWaits(s.conns) /\ Signals(s, 2)
  BY <1>1, PhoneTypes DEF Core, Ties
<1>3. m.ti \in Tis /\ m.ti # NoTi
  BY <1>1, Identifiers DEF Placed
<1>4. \A q : Joined(s.conns, q) => TiOf(s.conns, q) # m.ti
  <2> SUFFICES ASSUME NEW q, Joined(s.conns, q) PROVE TiOf(s.conns, q) # m.ti
    OBVIOUS
  <2>1. PICK i \in DOMAIN s.conns : s.conns[i].ref = q
    BY <1>2, JoinedAt
  <2>2. TiOf(s.conns, q) = s.conns[i].ti
    BY <1>2, <2>1, ConnIs
  <2> QED
    BY <2>2
<1> DEFINE r == s.mtRef
<1>5. ByTi(s, m.ti) = r
  BY DEF ByTi
<1>6. r \in MtRefs /\ r \in Refs /\ r \notin MoRefs /\ r \in Int
  BY <1>1, <1>2, <1>4, MmAssumption DEF Placed, Refs, MtRefs, MoRefs, MtBase, Account
<1>7. Later(s, r)
  BY <1>6 DEF Later
<1>8. Unused(s, r)
  BY <1>2, <1>6, <1>7 DEF Account
<1> HIDE DEF r
<1> DEFINE n == NewConn(s, r, m.ti, "IDLE")
           f == ForData(s, m.ti)
           u == Alloc(f, r, m.ti)
<1>9. /\ n \in Phones /\ SameRr(s, n) /\ SameApp(s, n)
      /\ n.mm = s.mm /\ n.mtRef = s.mtRef /\ n.trans = s.trans
      /\ n.mncc = s.mncc /\ n.mmxx = s.mmxx /\ Distinct(n.conns)
      /\ \A q : Joined(n.conns, q) <=> q = r \/ Joined(s.conns, q)
      /\ \A q : Pend(n.conns, q) <=> IF q = r THEN FALSE ELSE Pend(s.conns, q)
      /\ \A q : Joined(n.conns, q) => TiOf(n.conns, q) = IF q = r THEN m.ti ELSE TiOf(s.conns, q)
      /\ OneWaits(n.conns)
  <2>1. m.ti \in Tis \cup {NoTi} /\ "IDLE" \in {"IDLE", "CONN_PEND", "DEDICATED"} /\ ~Joined(s.conns, r)
    BY <1>3, <1>8 DEF Unused
  <2> HIDE DEF n
  <2>2. n = NewConn(s, r, m.ti, "IDLE")
    BY DEF n
  <2>3. /\ n \in Phones /\ SameRr(s, n) /\ SameApp(s, n)
        /\ n.mm = s.mm /\ n.mtRef = s.mtRef /\ n.trans = s.trans
        /\ n.mncc = s.mncc /\ n.mmxx = s.mmxx /\ Distinct(n.conns)
        /\ ConnRows(n.conns, s.conns, r, m.ti, "IDLE")
        /\ OneWaits(s.conns) /\ "IDLE" # "CONN_PEND" => OneWaits(n.conns)
    BY <1>2, <1>6, <2>1, <2>2, NewConnFields
  <2> QED
    BY <1>2, <2>3 DEF ConnRows
<1> HIDE DEF n
<1>10. /\ f \in Phones /\ SameRr(s, f) /\ SameApp(s, f) /\ f.conns = n.conns /\ f.trans = s.trans
       /\ f.mncc = s.mncc /\ f.mmxx = s.mmxx /\ f.mtRef = s.mtRef + 1
       /\ f.mm = IF s.mm = "WAIT_NETWORK_CMD" THEN "MM_CONN_ACTIVE" ELSE s.mm
  <2> DEFINE k == [n EXCEPT !.mtRef = @ + 1]
  <2>1. k \in Phones /\ SameRr(s, k) /\ SameApp(s, k) /\ k.conns = n.conns /\ k.trans = s.trans
        /\ k.mncc = s.mncc /\ k.mmxx = s.mmxx /\ k.mtRef = s.mtRef + 1 /\ k.mm = s.mm
    <3>0. s.mtRef \in Nat
      BY <1>2 DEF Phones
    <3>1. k = [n EXCEPT !.mtRef = s.mtRef + 1] /\ s.mtRef + 1 \in Nat /\ n \in Phones
      BY <1>9, <3>0
    <3> HIDE DEF k
    <3>2. /\ k \in Phones /\ SameRr(n, k) /\ SameApp(n, k) /\ k.conns = n.conns
          /\ k.trans = n.trans /\ k.mncc = n.mncc /\ k.mmxx = n.mmxx /\ k.mtRef = s.mtRef + 1
          /\ k.mm = n.mm
      BY <3>1 DEF Phones, SameRr, SameApp
    <3> QED
      BY <1>9, <3>2 DEF SameRr, SameApp
  <2>2. f = IF k.mm # "WAIT_NETWORK_CMD" THEN k
            ELSE [k EXCEPT !.mm = "MM_CONN_ACTIVE", !.t3240 = FALSE]
    BY <1>5 DEF ForData, n, r
  <2> HIDE DEF k, f
  <2> QED
    BY <2>1, <2>2, ZenonT(60) DEF Phones, SameRr, SameApp, MmStates
<1> DEFINE w == [state |-> "NULL", ti |-> m.ti, timer |-> "none"]
<1>11. w \in Trans /\ w.state = "NULL" /\ w.ti = m.ti
  BY <1>3 DEF Trans, CcStates, CcTimers
<1>12. u = Put(f, r, w)
  BY DEF Alloc
<1>13. r \notin DOMAIN s.trans
  BY <1>8 DEF Unused
<1>14. CcData(s, m) = DataInd(u, r, m)
  BY <1>5, <1>10, <1>13 DEF CcData, Known, Has
<1> HIDE DEF f, w, u
<1>15. /\ u \in Phones /\ SameRr(f, u) /\ SameApp(f, u)
       /\ u.conns = f.conns /\ u.mm = f.mm /\ u.mtRef = f.mtRef
       /\ u.mncc = f.mncc /\ u.mmxx = f.mmxx
       /\ Turned(f.trans, u.trans, r, w.state, w.ti)
  BY <1>6, <1>10, <1>11, <1>12, PutFields
<1>16. /\ SameRr(s, u) /\ SameApp(s, u) /\ u.mtRef = s.mtRef + 1
       /\ u.conns = n.conns /\ u.mncc = s.mncc /\ u.mmxx = s.mmxx
       /\ Turned(s.trans, u.trans, r, "NULL", m.ti)
       /\ u.mm = IF s.mm = "WAIT_NETWORK_CMD" THEN "MM_CONN_ACTIVE" ELSE s.mm
  BY <1>10, <1>11, <1>15 DEF SameRr, SameApp
<1>17. /\ r \in DOMAIN u.trans /\ u.trans[r].ti = m.ti /\ u.trans[r].state = "NULL"
       /\ DOMAIN u.trans = DOMAIN s.trans \cup {r}
       /\ \A q : q # r => TransRow(s, u, q)
  BY <1>13, <1>16 DEF Turned, TransRow
<1>18. \A q : q # r => ConnRow(s, u, q) /\ CallRow(s, u, q)
  BY <1>9, <1>16 DEF ConnRow, CallRow, SameApp
<1>19. Signals(u, 2)
  BY <1>2, <1>16, SignalsSame
<1>20. AllGone(u) /\ NoSetup(u) /\ u.rsl = <<>> /\ u.rrUp = <<>> /\ u.rr = "DEDICATED" /\ ~u.relWait
  BY <1>1, <1>2, <1>16 DEF AllGone, NoSetup, SameRr, Signals
<1>21. u.mm # "MM_IDLE" /\ u.mm # "WAIT_NETWORK_CMD"
  BY <1>1, <1>16
<1>22. Quiet(u, 2) /\ Link(u, 2)
  BY <1>20, <1>21 DEF Quiet, Link, Paged
<1>23. Account(u)
  <2>1. u.moRef = s.moRef /\ u.moRef \in 1..MaxMo + 1 /\ u.mtRef \in MtBase + 1..MtBase + MaxMt + 1
    BY <1>2, <1>6, <1>16, MmAssumption DEF Account, SameApp, MtRefs, MtBase, r
  <2>2. ASSUME NEW q \in Refs, Later(u, q) PROVE Unused(u, q)
    <3>1. Later(s, q) /\ q # r
      <4>1. CASE q \in MoRefs
        BY <1>6, <2>1, <2>2, <4>1 DEF Later
      <4>2. CASE q \notin MoRefs
        <5>1. q \in Int /\ q >= s.mtRef + 1
          BY <1>16, <2>2, <4>2, MmAssumption DEF Later, Refs, MtRefs, MtBase
        <5> QED
          BY <1>6, <4>2, <5>1 DEF Later, r
      <4> QED
        BY <4>1, <4>2
    <3>2. Unused(s, q)
      BY <1>2, <3>1 DEF Account
    <3> QED
      BY <1>16, <1>17, <1>18, <3>1, <3>2, UnusedRow
  <2> QED
    BY <1>20, <2>1, <2>2 DEF Account
<1>24. Tied(u)
  <2> SUFFICES ASSUME NEW q \in DOMAIN u.trans PROVE Joined(u.conns, q) \/ u.trans[q].ti = NoTi
    BY DEF Tied
  <2>1. CASE q = r
    BY <1>9, <1>16, <2>1
  <2>2. CASE q # r
    BY <1>1, <1>17, <1>18, <2>2 DEF Tied, TransRow, ConnRow
  <2> QED
    BY <2>1, <2>2
<1>25. Ties(u)
  <2>1. Distinct(u.conns) /\ OneWaits(u.conns) /\ ToldOnce(u.mmxx)
    BY <1>2, <1>9, <1>16 DEF Ties
  <2>2. OwnIdentifiers(u.trans)
    <3>1. ASSUME NEW q \in DOMAIN s.trans PROVE s.trans[q].ti # m.ti
      <4>1. Joined(s.conns, q) => TiOf(s.conns, q) = s.trans[q].ti
        <5>1. q \in Refs
          BY <1>2, PhoneTypes
        <5> QED
          BY <1>2, <5>1 DEF Ties, Tie
      <4> QED
        BY <1>1, <1>3, <1>4, <4>1 DEF Tied
    <3> SUFFICES ASSUME NEW p \in DOMAIN u.trans, NEW q \in DOMAIN u.trans, p # q
                 PROVE  u.trans[p].ti = NoTi \/ u.trans[p].ti # u.trans[q].ti
      BY DEF OwnIdentifiers
    <3>2. CASE p = r
      BY <1>17, <3>1, <3>2 DEF TransRow
    <3>3. CASE q = r
      BY <1>17, <3>1, <3>3 DEF TransRow
    <3>4. CASE p # r /\ q # r
      BY <1>2, <1>17, <3>4 DEF Ties, OwnIdentifiers, TransRow
    <3> QED
      BY <3>2, <3>3, <3>4
  <2>3. ASSUME NEW q \in Refs PROVE Tie(u.trans, u.conns, u.mmxx, q)
    <3>1. CASE q = r
      <4>1. Ups(u.mmxx, r) = {} /\ Joined(u.conns, r) /\ ~Pend(u.conns, r) /\ TiOf(u.conns, r) = m.ti
        BY <1>8, <1>9, <1>16 DEF Unused
      <4> QED
        BY <1>3, <1>17, <3>1, <4>1 DEF Tie
    <3>2. CASE q # r
      BY <1>2, <1>16, <1>17, <1>18, <3>2, TieRow DEF Ties
    <3> QED
      BY <3>1, <3>2
  <2> QED
    BY <2>1, <2>2, <2>3 DEF Ties
<1>26. Books(u)
  <2>1. Distinct(u.calls) /\ OneSetup(u.mncc)
    BY <1>1, <1>16 DEF Books, SameApp
  <2>2. ASSUME NEW q \in Refs PROVE Book(u.trans, u.calls, u.mncc, q)
    <3>1. CASE q = r
      <4>1. ~Listed(u.calls, r) /\ Told(u.mncc, r) = {}
        BY <1>8, <1>16 DEF Unused, SameApp
      <4>2. ~Rings(u.calls, r)
        BY <4>1, <1>15, CallParts, PhoneTypes
      <4> QED
        BY <1>3, <1>17, <3>1, <4>1, <4>2 DEF Book
    <3>2. CASE q # r
      BY <1>1, <1>16, <1>17, <1>18, <3>2, BookRow DEF Books
    <3> QED
      BY <3>1, <3>2
  <2> QED
    BY <2>1, <2>2 DEF Books
<1>27. Core(u, 2)
  BY <1>15, <1>19, <1>22, <1>23, <1>24, <1>25 DEF Core
<1>28. Entered(u, r, m)
  BY <1>3, <1>17, <1>20, <1>26, <1>27 DEF Entered
<1> QED
  BY <1>5, <1>14, <1>28

(* A message of call control is handled. *)
LEMMA EnteredHandled ==
  ASSUME NEW s, NEW r, NEW m, Entered(s, r, m)
  PROVE  Inv(DataInd(s, r, m), 2)
<1> DEFINE u == s.trans[r].state
           told == Told(s.mncc, r)
           t == DataInd(s, r, m)
<1>1. /\ Core(s, 2) /\ Books(s) /\ AllGone(s) /\ NoSetup(s) /\ s.rsl = <<>> /\ s.rrUp = <<>>
      /\ r \in DOMAIN s.trans /\ s.trans[r].ti = m.ti /\ m.ti \in Tis /\ m.type \in CcMsgs
  BY DEF Entered
<1>2. /\ Agrees(s, r) /\ r \in Refs /\ u \in CcStates /\ s \in Phones
  BY <1>1, CoreAgrees DEF Core
<1>3. s.trans[r].ti # NoTi
  BY <1>1, Identifiers
<1>4. Book(s.trans, s.calls, s.mncc, r) /\ BooksBut(s, r)
  BY <1>1, <1>2, BooksAre
<1>5. u # "MM_CONNECTION_PEND"
  BY <1>1, <1>2, <1>3 DEF Core, Ties, Tie
<1>6. /\ told \cap Over = {} /\ "SETUP_IND" \notin told /\ u # "CALL_PRESENT"
      /\ Rings(s.calls, r) => u \in RingStates
      /\ Listed(s.calls, r) \/ u \in {"NULL", "RELEASE_REQ"} \/ told # {}
      /\ u = "NULL" => ~Listed(s.calls, r) /\ told = {}
  <2>1. "SETUP_IND" \notin told
    BY <1>1, <1>2 DEF NoSetup
  <2> QED
    BY <1>1, <1>3, <1>4, <2>1 DEF Book
<1>7. ~News(s.rrUp) /\ \A n \in Ups(s.mmxx, r) : n.prim \in Gone
  BY <1>1, <1>2 DEF News, AllGone
<1> HIDE DEF t
<1>8. CASE m.type \in {"RELEASE", "RELEASE_COMPL"}
  <2> DEFINE more == NetOver(u, m.type)
  <2>1. Ended(s, t, r, more)
    BY <1>1, <1>2, <1>8, DataIndDoes DEF t
  <2>2. "SETUP_IND" \notin more /\ (u # "NULL" => more \cap Over # {})
    BY <1>6 DEF NetOver, Over
  <2> HIDE DEF more
  <2>3. Core(t, 2)
    BY <1>1, <1>7, <2>1, <2>2, EndedCore
  <2>4. BooksBut(t, r)
    BY <1>4, <2>1, <2>2, EndedBooksBut
  <2>5. Listed(s.calls, r) => (told \cup more) \cap Over # {}
    BY <1>6, <2>2
  <2>6. Book(t.trans, t.calls, t.mncc, r)
    BY <1>2, <2>1, <2>5, EndedBook
  <2>7. Inv(t, 2)
    BY <2>3, <2>4, <2>6, BooksAre, InvIs
  <2> QED
    BY <2>7 DEF t
<1>9. CASE m.type \notin {"RELEASE", "RELEASE_COMPL"}
  <2> DEFINE more == NetTold(u, m.type)
             st == NetNext(u, m.type)
  <2>1. Moved(s, t, r, st, more)
    BY <1>1, <1>2, <1>9, DataIndDoes DEF t
  <2>2. /\ st # "MM_CONNECTION_PEND"
        /\ more \cap Over = {}
        /\ u \in RingStates => st \in RingStates
        /\ u = "RELEASE_REQ" => st = "RELEASE_REQ"
        /\ st = "NULL" => u = "NULL" /\ more = {}
        /\ u = "NULL" /\ st # "NULL" => more = {"SETUP_IND"} /\ st = "CALL_PRESENT"
        /\ st = "CALL_PRESENT" => u = "NULL"
        /\ "SETUP_IND" \in more => u = "NULL" /\ st = "CALL_PRESENT"
    <3>1. CASE ~Handles(u, m.type)
      BY <1>5, <1>6, <3>1 DEF NetNext, NetTold
    <3>2. CASE Handles(u, m.type)
      BY <1>1, <1>5, <1>6, <1>9, <3>2
         DEF NetNext, NetTold, Handles, RingStates, EarlyStates, CcMsgs, Over
    <3> QED
      BY <3>1, <3>2
  <2> HIDE DEF more, st
  <2>3. Core(t, 2)
    BY <1>1, <1>3, <2>1, <2>2, MovedCore
  <2>4. BooksBut(t, r)
    BY <1>1, <1>4, <2>1, MovedBooksBut
  <2>5. Book(t.trans, t.calls, t.mncc, r)
    <3>1. CASE st = "NULL"
      BY <1>1, <1>4, <2>1, <2>2, <3>1, MovedNotBook
    <3>2. CASE st # "NULL"
      <4>1. (told \cup more) \cap Over = {}
        BY <1>6, <2>2
      <4>2. Listed(s.calls, r) \/ st = "RELEASE_REQ" \/ told \cup more # {}
        BY <1>6, <2>2, <3>2
      <4>3. st = "CALL_PRESENT" => told \cup more = {"SETUP_IND"}
        BY <1>6, <2>2
      <4>4. "SETUP_IND" \in told \cup more => st = "CALL_PRESENT"
        BY <1>6, <2>2
      <4>5. Rings(s.calls, r) => st \in RingStates
        BY <1>6, <2>2
      <4>6. st \notin {"NULL", "MM_CONNECTION_PEND"}
        BY <2>2, <3>2
      <4> QED
        BY <1>1, <1>3, <2>1, <4>1, <4>2, <4>3, <4>4, <4>5, <4>6, MovedBook
    <3> QED
      BY <3>1, <3>2
  <2>6. Inv(t, 2)
    BY <2>3, <2>4, <2>5, BooksAre, InvIs
  <2> QED
    BY <2>6 DEF t
<1> QED
  BY <1>8, <1>9

(* A message of call control is found its transaction, and handled. *)
LEMMA CcDataHandled ==
  ASSUME NEW s, NEW m, RrGave(s, m), m.type \in CcMsgs
  PROVE  Inv(CcData(s, m), 2)
<1>1. \E u, r : Entered(u, r, m) /\ CcData(s, m) = DataInd(u, r, m)
  <2>1. CASE \E i \in DOMAIN s.conns : s.conns[i].ti = m.ti
    BY <2>1, KnownEntered
  <2>2. CASE \A i \in DOMAIN s.conns : s.conns[i].ti # m.ti
    BY <2>2, MadeEntered
  <2> QED
    BY <2>1, <2>2
<1>2. PICK u, r : Entered(u, r, m) /\ CcData(s, m) = DataInd(u, r, m)
  BY <1>1
<1>3. Inv(DataInd(u, r, m), 2)
  BY <1>2, EnteredHandled
<1> QED
  BY <1>2, <1>3

(* What the radio resource layer has queued for MM is handled. *)
LEMMA RrStep ==
  ASSUME NEW s, Inv(s, 2), s.rrUp # <<>>
  PROVE  Inv(Handle(s, "rrUp"), 2)
<1> DEFINE m == Head(s.rrUp)
           t == [s EXCEPT !.rrUp = Tail(@)]
<1>1. RrGave(t, m)
  BY RrTaken
<1>2. Handle(s, "rrUp") = FromRr(t, m)
  BY DEF Handle
<1> HIDE DEF t, m
<1>3. m.type \in UpTypes
  BY <1>1 DEF RrGave
<1>4. CASE m.type \in Loss
  <2>1. FromRr(t, m) = RrLost(t)
    BY <1>4 DEF FromRr, Loss
  <2> QED
    BY <1>1, <1>2, <1>4, <2>1, RrLostHandled
<1>5. CASE m.type = "EST_CNF"
  BY <1>1, <1>2, <1>5, RrConfirmedHandled DEF FromRr
<1>6. CASE m.type = "EST_IND"
  BY <1>1, <1>2, <1>6, RrIndicatedHandled DEF FromRr
<1>7. CASE m.type = "SYNC_IND"
  BY <1>1, <1>2, <1>7, SynchronisedHandled DEF FromRr
<1>8. CASE m.type = "CM_SERV_ACC"
  <2>1. m.type \notin Loss /\ FromRr(t, m) = Accepted(t)
    BY <1>8 DEF FromRr, Loss
  <2> QED
    BY <1>1, <1>2, <2>1, AcceptedHandled
<1>9. CASE m.type = "CM_SERV_REJ"
  <2>1. m.type \notin Loss /\ FromRr(t, m) = Rejected(t)
    BY <1>9 DEF FromRr, Loss
  <2> QED
    BY <1>1, <1>2, <2>1, RejectedHandled
<1>10. CASE m.type = "MM_ABORT"
  BY <1>1, <1>2, <1>10, AbortedHandled DEF FromRr
<1>12. CASE m.type = "CM_SERV_REJ_ANY"
  BY <1>1, <1>2, <1>12, RejectedAnyHandled DEF FromRr
<1>13. CASE m.type = "MM_ABORT_ILLEGAL"
  BY <1>1, <1>2, <1>13, IllegalHandled DEF FromRr
<1>11. CASE m.type \in CcMsgs
  <2>1. FromRr(t, m) = CcData(t, m)
    BY <1>11 DEF FromRr, CcMsgs
  <2> QED
    BY <1>1, <1>2, <1>11, <2>1, CcDataHandled
<1> QED
  BY <1>3, <1>4, <1>5, <1>6, <1>7, <1>8, <1>9, <1>10, <1>11, <1>12, <1>13 DEF UpTypes

-----------------------------------------------------------------------------
(* Call control takes a message of MM. *)

(* Only the reference r differs in t. *)
OnlyOf(s, t, r) ==
  /\ t \in Phones /\ SameRr(s, t) /\ SameApp(s, t) /\ t.mm = s.mm /\ t.mtRef = s.mtRef
  /\ \A q : q # r => /\ TransRow(s, t, q) /\ ConnRow(s, t, q)
                     /\ Ups(t.mmxx, q) = Ups(s.mmxx, q) /\ Told(t.mncc, q) = Told(s.mncc, q)
  /\ Joined(t.conns, r) <=> Joined(s.conns, r)
  /\ Pend(t.conns, r) <=> Pend(s.conns, r)
  /\ Ups(t.mmxx, r) \subseteq Ups(s.mmxx, r)
  /\ Told(t.mncc, r) \subseteq Told(s.mncc, r) \cup {"REL_IND"}

(* What call control must show for the invariant, when it has handled a
   message of MM. *)
LEMMA MmHandled ==
  ASSUME NEW s, Inv(s, 3), NEW t, NEW r \in Refs, ~Later(s, r), OnlyOf(s, t, r),
         Distinct(t.conns), OneWaits(t.conns), OwnIdentifiers(t.trans), ToldOnce(t.mmxx),
         OneSetup(t.mncc),
         Tie(t.trans, t.conns, t.mmxx, r), Book(t.trans, t.calls, t.mncc, r)
  PROVE  Inv(t, 3)
<1>1. /\ Core(s, 3) /\ Books(s)
  BY InvIs
<1>2. /\ Signals(s, 3) /\ Quiet(s, 3) /\ Link(s, 3) /\ Account(s) /\ Ties(s)
      /\ s.rsl = <<>> /\ s.rrUp = <<>>
  BY <1>1 DEF Core, Signals
<1>3. /\ t \in Phones /\ SameRr(s, t) /\ SameApp(s, t) /\ t.mm = s.mm /\ t.mtRef = s.mtRef
      /\ \A q : q # r => /\ TransRow(s, t, q) /\ ConnRow(s, t, q)
                         /\ Ups(t.mmxx, q) = Ups(s.mmxx, q) /\ Told(t.mncc, q) = Told(s.mncc, q)
      /\ \A q : Joined(t.conns, q) <=> Joined(s.conns, q)
      /\ \A q : Pend(t.conns, q) <=> Pend(s.conns, q)
      /\ \A q : Ups(t.mmxx, q) \subseteq Ups(s.mmxx, q)
      /\ \A q : Told(t.mncc, q) \subseteq Told(s.mncc, q) \cup {"REL_IND"}
  BY DEF OnlyOf, ConnRow
<1>4. Signals(t, 3)
  BY <1>2, <1>3, SignalsSame
<1>5. (AllGone(s) => AllGone(t)) /\ (NoSetup(s) => NoSetup(t))
  BY <1>3 DEF AllGone, NoSetup
<1>6. Quiet(t, 3)
  BY <1>2, <1>3, <1>5, QuietMore
<1>7. AllPending(s) => AllPending(t)
  BY <1>3 DEF AllPending
<1>8. Link(t, 3)
  BY <1>2, <1>3, <1>7 DEF Link, SameRr
<1>9. \A q : CallRow(s, t, q)
  BY <1>3 DEF CallRow, SameApp
<1>10. Account(t)
  <2>1. ASSUME NEW q \in Refs, Later(t, q) PROVE Unused(t, q)
    <3>1. Later(s, q)
      BY <1>3, <2>1 DEF Later, SameApp
    <3>2. Unused(s, q) /\ q # r
      BY <1>2, <3>1 DEF Account
    <3> QED
      BY <1>3, <1>9, <3>2, UnusedRow
  <2>2. t.rsl = <<>> /\ t.rrUp = <<>> /\ t.moRef = s.moRef
    BY <1>2, <1>3 DEF SameRr, SameApp
  <2> QED
    BY <1>2, <1>3, <2>1, <2>2 DEF Account
<1>11. Ties(t)
  <2>1. ASSUME NEW q \in Refs PROVE Tie(t.trans, t.conns, t.mmxx, q)
    <3>1. CASE q # r
      BY <1>2, <1>3, <3>1, TieRow DEF Ties
    <3> QED
      BY <3>1
  <2> QED
    BY <2>1 DEF Ties
<1>12. Books(t)
  <2>1. ASSUME NEW q \in Refs PROVE Book(t.trans, t.calls, t.mncc, q)
    <3>1. CASE q # r
      BY <1>1, <1>3, <1>9, <3>1, BookRow DEF Books
    <3> QED
      BY <3>1
  <2>2. Distinct(t.calls)
    BY <1>1, <1>3 DEF Books, SameApp
  <2> QED
    BY <2>1, <2>2 DEF Books
<1>13. ~News(t.rrUp)
  BY <1>2, <1>3 DEF SameRr, News
<1> QED
  BY <1>3, <1>4, <1>6, <1>8, <1>10, <1>11, <1>12, <1>13 DEF Inv

(* The phone s, and t when m has been taken *)
MmGave(s, t, m) ==
  /\ Inv(s, 3) /\ t \in Phones /\ m \in MmxxMsg /\ m.ref \in Refs /\ ~Later(s, m.ref)
  /\ m \in Ups(s.mmxx, m.ref) /\ OnlyOf(s, t, m.ref)
  /\ t.trans = s.trans /\ t.conns = s.conns /\ t.mncc = s.mncc
  /\ ToldOnce(t.mmxx)
  /\ m.prim \notin Gone => \A x \in Ups(t.mmxx, m.ref) : x.prim \in Gone

(* A message of MM for call control is taken. *)
LEMMA MmTaken ==
  ASSUME NEW s, Inv(s, 3), s.mmxx # <<>>, NEW m, m = Head(s.mmxx),
         NEW t, t = [s EXCEPT !.mmxx = Tail(@)]
  PROVE  MmGave(s, t, m)
<1>1. s \in Phones /\ Ties(s) /\ Account(s) /\ s.mmxx \in Seq(MmxxMsg)
  BY PhoneTypes DEF Inv
<1>2. /\ m \in MmxxMsg /\ Tail(s.mmxx) \in Seq(MmxxMsg)
      /\ \A q : Ups(s.mmxx, q) = IF q = m.ref THEN Ups(Tail(s.mmxx), q) \cup {m}
                                 ELSE Ups(Tail(s.mmxx), q)
      /\ ToldOnce(s.mmxx) =>
           /\ ToldOnce(Tail(s.mmxx))
           /\ m.prim \notin Gone => \A x \in Ups(Tail(s.mmxx), m.ref) : x.prim \in Gone
  BY <1>1, UpsTail, ZenonT(60)
<1>3. /\ t \in Phones /\ SameRr(s, t) /\ SameApp(s, t) /\ t.mm = s.mm /\ t.mtRef = s.mtRef
      /\ t.trans = s.trans /\ t.conns = s.conns /\ t.mncc = s.mncc /\ t.mmxx = Tail(s.mmxx)
  <2> DEFINE v == Tail(s.mmxx)
  <2>1. v \in Seq(MmxxMsg) /\ t = [s EXCEPT !.mmxx = v]
    BY <1>1, <1>2 DEF Phones
  <2>2. v = Tail(s.mmxx)
    OBVIOUS
  <2> HIDE DEF v
  <2>3. /\ t \in Phones /\ SameRr(s, t) /\ SameApp(s, t) /\ t.mm = s.mm /\ t.mtRef = s.mtRef
        /\ t.trans = s.trans /\ t.conns = s.conns /\ t.mncc = s.mncc /\ t.mmxx = v
    BY <1>1, <2>1, ZenonT(60) DEF Phones, SameRr, SameApp
  <2> QED
    BY <2>2, <2>3
<1>4. m.ref \in Refs
  BY <1>2 DEF MmxxMsg
<1>5. m \in Ups(s.mmxx, m.ref)
  BY <1>2
<1>6. ~Later(s, m.ref)
  BY <1>1, <1>4, <1>5 DEF Account, Unused
<1>7. OnlyOf(s, t, m.ref)
  BY <1>2, <1>3 DEF OnlyOf, TransRow, ConnRow
<1> QED
  BY <1>1, <1>2, <1>3, <1>4, <1>5, <1>6, <1>7 DEF MmGave, Ties

(* MM tells of the end of a connection, or call control ends the transaction. *)
LEMMA EndToldFields ==
  ASSUME NEW s \in Phones, NEW r \in Refs, NEW x, x = Free(ToL4(s, "REL_IND", r), r)
  PROVE  /\ x \in Phones /\ SameRr(s, x) /\ SameApp(s, x)
         /\ x.conns = s.conns /\ x.mm = s.mm /\ x.mtRef = s.mtRef /\ x.mmxx = s.mmxx
         /\ Without(s.trans, x.trans, r) /\ ToldMore(s.mncc, x.mncc, r, {"REL_IND"})
<1> DEFINE y == ToL4(s, "REL_IND", r)
<1>1. "REL_IND" \in MnccPrims /\ y = ToL4(s, "REL_IND", r) /\ x = Free(y, r)
  BY DEF MnccPrims, Over
<1> HIDE DEF y
<1>2. /\ y \in Phones /\ SameRr(s, y) /\ SameApp(s, y)
      /\ y.trans = s.trans /\ y.conns = s.conns /\ y.mm = s.mm /\ y.mtRef = s.mtRef
      /\ y.mmxx = s.mmxx /\ ToldMore(s.mncc, y.mncc, r, {"REL_IND"})
  BY <1>1, ToldFields
<1>3. /\ x \in Phones /\ SameRr(y, x) /\ SameApp(y, x)
      /\ x.conns = y.conns /\ x.mm = y.mm /\ x.mtRef = y.mtRef
      /\ x.mncc = y.mncc /\ x.mmxx = y.mmxx /\ Without(y.trans, x.trans, r)
  BY <1>1, <1>2, FreeFields
<1> QED
  BY <1>2, <1>3 DEF SameRr, SameApp

(* Some transaction or none for the reference of m, and otherwise as t *)
KnownOf(t, y, r) ==
  /\ y \in Phones /\ SameRr(t, y) /\ SameApp(t, y)
  /\ y.conns = t.conns /\ y.mm = t.mm /\ y.mtRef = t.mtRef /\ y.mncc = t.mncc /\ y.mmxx = t.mmxx
  /\ \A q : q # r => TransRow(t, y, q)

(* A message of MM for a transaction nobody knows makes one. *)
LEMMA KnownFields ==
  ASSUME NEW s, NEW t, NEW m, MmGave(s, t, m), NEW y, y = Known(t, m)
  PROVE  /\ KnownOf(t, y, m.ref)
         /\ m.ref \in DOMAIN s.trans => y = t
         /\ m.ref \notin DOMAIN s.trans =>
              /\ m.ref \in DOMAIN y.trans /\ y.trans[m.ref].state = "NULL"
              /\ y.trans[m.ref].ti = m.ti
<1> DEFINE r == m.ref
           w == [state |-> "NULL", ti |-> m.ti, timer |-> "none"]
<1>1. t \in Phones /\ t.trans = s.trans /\ r \in Refs
  BY DEF MmGave
<1>2. CASE r \in DOMAIN s.trans
  <2>1. y = t
    BY <1>1, <1>2 DEF Known, Has
  <2> QED
    BY <1>1, <1>2, <2>1 DEF KnownOf, SameRr, SameApp, TransRow
<1>3. CASE r \notin DOMAIN s.trans
  <2>1. w \in Trans /\ w.state = "NULL" /\ w.ti = m.ti
    BY DEF Trans, CcStates, CcTimers, MmGave, MmxxMsg
  <2>2. y = Put(t, r, w)
    BY <1>1, <1>3 DEF Known, Has, Alloc
  <2> HIDE DEF w
  <2>3. /\ y \in Phones /\ SameRr(t, y) /\ SameApp(t, y)
        /\ y.conns = t.conns /\ y.mm = t.mm /\ y.mtRef = t.mtRef
        /\ y.mncc = t.mncc /\ y.mmxx = t.mmxx
        /\ Turned(t.trans, y.trans, r, w.state, w.ti)
    BY <1>1, <2>1, <2>2, PutFields
  <2>4. \A q : q # r => TransRow(t, y, q)
    BY <2>3 DEF Turned, TransRow
  <2> QED
    BY <1>3, <2>1, <2>3, <2>4 DEF KnownOf, Turned
<1> QED
  BY <1>2, <1>3

(* It changes nothing of the others. *)
LEMMA OnlyOfKnown ==
  ASSUME NEW s, NEW t, NEW m, MmGave(s, t, m), NEW y, KnownOf(t, y, m.ref)
  PROVE  OnlyOf(s, y, m.ref) /\ y.conns = s.conns /\ ToldOnce(y.mmxx) /\ y.mncc = s.mncc
  BY DEF MmGave, KnownOf, OnlyOf, SameRr, SameApp, TransRow, ConnRow

(* Identifiers stay distinct when one transaction has none, or one of its
   own. *)
LEMMA OwnKnown ==
  ASSUME NEW s, NEW t, NEW r, OnlyOf(s, t, r), OwnIdentifiers(s.trans),
         r \in DOMAIN t.trans =>
           t.trans[r].ti = NoTi \/ \A q \in DOMAIN s.trans : q # r => s.trans[q].ti # t.trans[r].ti
  PROVE  OwnIdentifiers(t.trans)
<1> SUFFICES ASSUME NEW p \in DOMAIN t.trans, NEW q \in DOMAIN t.trans, p # q,
                    t.trans[p].ti # NoTi
             PROVE  t.trans[p].ti # t.trans[q].ti
  BY DEF OwnIdentifiers
<1>1. \A x : x # r => TransRow(s, t, x)
  BY DEF OnlyOf
<1>2. CASE p = r
  BY <1>1, <1>2 DEF TransRow
<1>3. CASE q = r
  BY <1>1, <1>3 DEF TransRow
<1>4. CASE p # r /\ q # r
  BY <1>1, <1>4 DEF TransRow, OwnIdentifiers
<1> QED
  BY <1>2, <1>3, <1>4

(* MM tells of the end of a connection: the transaction is freed. *)
LEMMA EndToldHandled ==
  ASSUME NEW s, NEW t, NEW m, MmGave(s, t, m), NEW y, KnownOf(t, y, m.ref),
         Joined(s.conns, m.ref) => TiOf(s.conns, m.ref) = NoTi,
         NEW x, x = Free(ToL4(y, "REL_IND", m.ref), m.ref)
  PROVE  Inv(x, 3)
<1> DEFINE r == m.ref
<1>1. /\ Inv(s, 3) /\ r \in Refs /\ ~Later(s, r) /\ s \in Phones
      /\ Ties(s) /\ Books(s) /\ Tie(s.trans, s.conns, s.mmxx, r)
  BY DEF MmGave, Inv, Ties
<1>2. OnlyOf(s, y, r) /\ y.conns = s.conns /\ ToldOnce(y.mmxx) /\ y \in Phones /\ y.mncc = s.mncc
  BY OnlyOfKnown DEF KnownOf
<1>3. /\ x \in Phones /\ SameRr(y, x) /\ SameApp(y, x)
      /\ x.conns = y.conns /\ x.mm = y.mm /\ x.mtRef = y.mtRef /\ x.mmxx = y.mmxx
      /\ Without(y.trans, x.trans, r) /\ ToldMore(y.mncc, x.mncc, r, {"REL_IND"})
  BY <1>1, <1>2, EndToldFields
<1> HIDE DEF r
<1>4. r \notin DOMAIN x.trans /\ \A q : q # r => TransRow(y, x, q)
  BY <1>3 DEF Without, TransRow
<1>5. \A q : Told(x.mncc, q) = IF q = r THEN Told(s.mncc, q) \cup {"REL_IND"} ELSE Told(s.mncc, q)
  BY <1>2, <1>3 DEF ToldMore
<1>6. OnlyOf(s, x, r)
  <2>1. \A q : q # r => TransRow(s, x, q)
    BY <1>2, <1>4 DEF OnlyOf, TransRow
  <2> QED
    BY <1>2, <1>3, <1>5, <2>1 DEF OnlyOf, SameRr, SameApp, ConnRow
<1>7. OwnIdentifiers(x.trans)
  BY <1>1, <1>4, <1>6, OwnKnown DEF Ties
<1>8. OneSetup(x.mncc)
  BY <1>1, <1>2, <1>3 DEF Books, ToldMore
<1>9. Distinct(x.conns) /\ OneWaits(x.conns) /\ ToldOnce(x.mmxx)
  BY <1>1, <1>2, <1>3 DEF Ties
<1>10. Tie(x.trans, x.conns, x.mmxx, r)
  <2>1. Ups(x.mmxx, r) \subseteq Ups(s.mmxx, r) /\ x.conns = s.conns
    BY <1>2, <1>3, <1>6 DEF OnlyOf
  <2>2. Joined(s.conns, r) => TiOf(s.conns, r) = NoTi
    BY DEF r
  <2> QED
    BY <1>1, <1>4, <2>1, <2>2 DEF Tie
<1>11. Book(x.trans, x.calls, x.mncc, r)
  <2>1. "REL_IND" \in Told(x.mncc, r)
    BY <1>5
  <2> QED
    BY <1>4, <2>1 DEF Book, Over
<1> QED
  BY <1>1, <1>6, <1>7, <1>8, <1>9, <1>10, <1>11, MmHandled

(* MM tells of a connection, and nothing follows. *)
LEMMA KnownHandled ==
  ASSUME NEW s, NEW t, NEW m, MmGave(s, t, m), m.prim \notin Gone
  PROVE  Inv(Known(t, m), 3)
<1> DEFINE r == m.ref
           y == Known(t, m)
<1>1. /\ Inv(s, 3) /\ r \in Refs /\ ~Later(s, r) /\ s \in Phones /\ Quiet(s, 3)
      /\ Ties(s) /\ Books(s) /\ Tie(s.trans, s.conns, s.mmxx, r)
      /\ Book(s.trans, s.calls, s.mncc, r) /\ m \in Ups(s.mmxx, r)
  BY DEF MmGave, Inv, Ties, Books
<1>2. /\ KnownOf(t, y, r)
      /\ r \in DOMAIN s.trans => y = t
      /\ r \notin DOMAIN s.trans => /\ r \in DOMAIN y.trans /\ y.trans[r].state = "NULL"
                                    /\ y.trans[r].ti = m.ti
  BY KnownFields
<1> HIDE DEF y
<1>3. OnlyOf(s, y, r) /\ y.conns = s.conns /\ ToldOnce(y.mmxx) /\ y.mncc = s.mncc
  BY <1>2, OnlyOfKnown
<1>4. Joined(s.conns, r) /\ TiOf(s.conns, r) = m.ti
  BY <1>1 DEF Tie
<1>5. r \notin DOMAIN s.trans => m.ti = NoTi
  BY <1>1, <1>4 DEF Tie
<1>6. t.trans = s.trans
  BY DEF MmGave
<1> HIDE DEF r
<1>7. OwnIdentifiers(y.trans)
  <2>1. r \in DOMAIN y.trans =>
           y.trans[r].ti = NoTi \/ \A q \in DOMAIN s.trans : q # r => s.trans[q].ti # y.trans[r].ti
    BY <1>1, <1>2, <1>5, <1>6 DEF Ties, OwnIdentifiers
  <2> QED
    BY <1>1, <1>3, <2>1, OwnKnown DEF Ties
<1>8. Tie(y.trans, y.conns, y.mmxx, r)
  <2>1. Ups(y.mmxx, r) \subseteq Ups(s.mmxx, r)
    BY <1>3 DEF OnlyOf
  <2>2. CASE r \in DOMAIN s.trans
    BY <1>1, <1>2, <1>3, <1>4, <1>6, <2>1, <2>2 DEF Tie
  <2>3. CASE r \notin DOMAIN s.trans
    BY <1>1, <1>2, <1>3, <1>4, <1>5, <2>1, <2>3 DEF Tie
  <2> QED
    BY <2>2, <2>3
<1>9. Book(y.trans, y.calls, y.mncc, r)
  <2>1. y.calls = s.calls
    BY <1>3 DEF OnlyOf, SameApp
  <2>2. CASE r \in DOMAIN s.trans
    BY <1>1, <1>2, <1>3, <1>6, <2>1, <2>2
  <2>3. CASE r \notin DOMAIN s.trans
    <3>1. NoSetup(s)
      BY <1>1 DEF Quiet, AllGone
    <3>2. "SETUP_IND" \notin Told(s.mncc, r)
      BY <1>1, <3>1 DEF NoSetup
    <3> QED
      BY <1>1, <1>2, <1>3, <1>5, <2>1, <2>3, <3>2 DEF Book
  <2> QED
    BY <2>2, <2>3
<1>10. Distinct(y.conns) /\ OneWaits(y.conns) /\ OneSetup(y.mncc)
  BY <1>1, <1>3 DEF Ties, Books
<1> QED
  BY <1>1, <1>3, <1>7, <1>8, <1>9, <1>10, MmHandled DEF y

(* trans_assign_trans_id: an identifier is found whenever one is free. *)
LEMMA Circle ==
  ASSUME NEW n \in 1..7, NEW h \in 0..n - 1, NEW k \in 0..n - 1
  PROVE  (h + k) % n = IF h + k < n THEN h + k ELSE h + k - n
<1>1. CASE n = 1
  BY <1>1
<1>2. CASE n = 2
  BY <1>2
<1>3. CASE n = 3
  BY <1>3
<1>4. CASE n = 4
  BY <1>4
<1>5. CASE n = 5
  BY <1>5
<1>6. CASE n = 6
  BY <1>6
<1>7. CASE n = 7
  BY <1>7
<1> QED
  BY <1>1, <1>2, <1>3, <1>4, <1>5, <1>6, <1>7

(* A set of numbers below n that is not empty has a highest. *)
LEMMA Highest ==
  ASSUME NEW n \in Nat, NEW used \in SUBSET (0..n - 1), used # {}
  PROVE  \E j \in used : \A k \in used : k <= j
<1> DEFINE low == {n - j : j \in used}
<1>1. low \subseteq Nat /\ low # {}
  <2>1. \A j \in used : n - j \in Nat
    OBVIOUS
  <2> QED
    BY <2>1
<1>2. PICK k \in low : \A j \in low : ~(j < k)
  <2>1. PICK k \in low : \A j \in low : <<j, k>> \notin OpToRel(<, Nat)
    BY <1>1, NatLessThanWellFounded, WFMin, Zenon
  <2> QED
    BY <1>1, <2>1, Zenon DEF OpToRel
<1>3. PICK i \in used : k = n - i
  OBVIOUS
<1>4. \A j \in used : j <= i
  <2> TAKE j \in used
  <2>1. n - j \in low /\ j \in Nat /\ i \in Nat
    OBVIOUS
  <2>2. ~(n - j < n - i)
    BY <1>2, <1>3, <2>1
  <2> QED
    BY <2>1, <2>2
<1> QED
  BY <1>4

(* A set of numbers below n that is not empty has a lowest. *)
LEMMA Nearest ==
  ASSUME NEW n \in Nat, NEW free \in SUBSET (0..n - 1), free # {}
  PROVE  \E k \in free : \A l \in 0..k - 1 : l \notin free
<1>1. free \subseteq Nat
  OBVIOUS
<1>2. PICK k \in free : \A j \in free : ~(j < k)
  <2>1. PICK k \in free : \A j \in free : <<j, k>> \notin OpToRel(<, Nat)
    BY <1>1, NatLessThanWellFounded, WFMin, Zenon
  <2> QED
    BY <1>1, <2>1, Zenon DEF OpToRel
<1>3. \A l \in 0..k - 1 : l \in Nat /\ l < k
  BY <1>1
<1> QED
  BY <1>2, <1>3

(* trans_assign_trans_id finds a free identifier when there is one. *)
LEMMA Assigned ==
  ASSUME NEW s, FreeTis(s) # {}
  PROVE  Assign(s) \in FreeTis(s)
<1> DEFINE n == TiCount
           used == UsedTis(s) \cap OwnTis
           h == IF used \subseteq {0} THEN 0 ELSE CHOOSE j \in used : \A k \in used : k <= j
           i == CHOOSE k \in 0..n - 1 : /\ (h + k) % n \notin used
                                        /\ \A l \in 0..k - 1 : (h + l) % n \in used
<1>1. n \in 1..7 /\ used \subseteq 0..n - 1 /\ OwnTis = 0..n - 1
  BY MmAssumption DEF OwnTis
<1>2. PICK f \in 0..n - 1 : f \notin used
  BY <1>1 DEF FreeTis
<1>3. Assign(s) = (h + i) % n
  BY DEF Assign
<1> HIDE DEF n, used
<1>4. h \in 0..n - 1
  <2>1. CASE used \subseteq {0}
    BY <1>1, <2>1
  <2>2. CASE ~(used \subseteq {0})
    <3>1. \E j \in used : \A k \in used : k <= j
      BY <1>1, <2>2, Highest
    <3>2. h \in used
      BY <2>2, <3>1
    <3> QED
      BY <1>1, <3>2
  <2> QED
    BY <2>1, <2>2
<1> HIDE DEF h
<1> DEFINE free == {k \in 0..n - 1 : (h + k) % n \notin used}
<1>5. free # {}
  <2>1. CASE f >= h
    <3>1. f - h \in 0..n - 1 /\ h + (f - h) = f
      BY <1>1, <1>4, <2>1
    <3>2. (h + (f - h)) % n = IF h + (f - h) < n THEN h + (f - h) ELSE h + (f - h) - n
      BY <1>1, <1>4, <3>1, Circle
    <3>3. (h + (f - h)) % n = f
      BY <1>1, <3>1, <3>2
    <3> QED
      BY <1>2, <3>1, <3>3
  <2>2. CASE f < h
    <3>1. f - h + n \in 0..n - 1 /\ h + (f - h + n) = f + n
      BY <1>1, <1>4, <2>2
    <3>2. (h + (f - h + n)) % n = IF h + (f - h + n) < n THEN h + (f - h + n) ELSE h + (f - h + n) - n
      BY <1>1, <1>4, <3>1, Circle
    <3>3. (h + (f - h + n)) % n = f
      BY <1>1, <3>1, <3>2
    <3> QED
      BY <1>2, <3>1, <3>3
  <2> QED
    BY <1>1, <1>4, <2>1, <2>2
<1>6. i \in 0..n - 1 /\ (h + i) % n \notin used
  <2>1. PICK k \in free : \A l \in 0..k - 1 : l \notin free
    <3>1. n \in Nat /\ free \in SUBSET (0..n - 1)
      BY <1>1
    <3> QED
      BY <1>5, <3>1, Nearest
  <2>2. k \in 0..n - 1 /\ (h + k) % n \notin used
    OBVIOUS
  <2>3. \A l \in 0..k - 1 : (h + l) % n \in used
    <3> TAKE l \in 0..k - 1
    <3>1. l \in 0..n - 1 /\ l \notin free
      BY <1>1, <2>1, <2>2
    <3> QED
      BY <3>1
  <2> QED
    BY <2>2, <2>3
<1> HIDE DEF i
<1>7. (h + i) % n \in 0..n - 1
  <2>1. (h + i) % n = IF h + i < n THEN h + i ELSE h + i - n
    BY <1>1, <1>4, <1>6, Circle
  <2> QED
    BY <1>1, <1>4, <1>6, <2>1
<1>8. (h + i) % n \in OwnTis /\ (h + i) % n \notin UsedTis(s)
  <2> USE DEF n
  <2> QED
    BY <1>1, <1>6, <1>7 DEF used
<1> QED
  BY <1>3, <1>8 DEF FreeTis

(* The connection is open: SETUP is sent with an identifier of its own. *)
LEMMA SetupSent ==
  ASSUME NEW s, NEW t, NEW m, MmGave(s, t, m), m.prim = "EST_CNF", m.ref \in DOMAIN s.trans,
         s.trans[m.ref].state = "MM_CONNECTION_PEND", FreeTis(t) # {},
         s.trans[m.ref].ti = NoTi, NEW x, x = TxSetup(t, m.ref)
  PROVE  Inv(x, 3)
<1> DEFINE r == m.ref
           a == Assign(t)
           w1 == [t.trans[r] EXCEPT !.ti = a]
           x1 == Put(t, r, w1)
           w2 == [x1.trans[r] EXCEPT !.state = "INITIATED", !.timer = "T303"]
           x2 == Put(x1, r, w2)
<1>1. /\ Inv(s, 3) /\ r \in Refs /\ ~Later(s, r) /\ s \in Phones
      /\ Ties(s) /\ Books(s) /\ Tie(s.trans, s.conns, s.mmxx, r)
      /\ Book(s.trans, s.calls, s.mncc, r) /\ m \in Ups(s.mmxx, r)
      /\ OnlyOf(s, t, r) /\ t \in Phones /\ ToldOnce(t.mmxx)
      /\ t.trans = s.trans /\ t.conns = s.conns /\ t.mncc = s.mncc
      /\ \A z \in Ups(t.mmxx, r) : z.prim \in Gone
  BY DEF MmGave, Inv, Ties, Books, Gone
<1>2. a \in OwnTis /\ a \in Tis /\ a # NoTi /\ \A q \in DOMAIN s.trans : s.trans[q].ti # a
  <2>1. a \in FreeTis(t)
    BY Assigned
  <2>2. a \in OwnTis /\ a \notin UsedTis(t)
    BY <2>1 DEF FreeTis
  <2> HIDE DEF a
  <2>3. a \in Tis /\ a # NoTi
    BY <2>2, Identifiers DEF Tis
  <2> QED
    BY <1>1, <2>2, <2>3 DEF UsedTis
<1>3. x = Data(x2, r)
  <2>1. t.trans[r].ti = NoTi
    BY <1>1
  <2> QED
    BY <2>1 DEF TxSetup, WithTi, Enter
<1> HIDE DEF r, a
<1>4. t.trans[r] \in Trans
  BY <1>1, PhoneTypes DEF r
<1>5. w1 \in Trans /\ w1.ti = a
  BY <1>2, <1>4 DEF Trans
<1> HIDE DEF w1
<1>6. /\ x1 \in Phones /\ SameRr(t, x1) /\ SameApp(t, x1)
      /\ x1.conns = t.conns /\ x1.mm = t.mm /\ x1.mtRef = t.mtRef
      /\ x1.mncc = t.mncc /\ x1.mmxx = t.mmxx
      /\ Turned(t.trans, x1.trans, r, w1.state, w1.ti) /\ x1.trans[r] = w1
  BY <1>1, <1>5, PutFields
<1>7. w2 \in Trans /\ w2.ti = a /\ w2.state = "INITIATED"
  BY <1>5, <1>6 DEF Trans, CcStates, CcTimers
<1> HIDE DEF x1, w2
<1>8. /\ x2 \in Phones /\ SameRr(x1, x2) /\ SameApp(x1, x2)
      /\ x2.conns = x1.conns /\ x2.mm = x1.mm /\ x2.mtRef = x1.mtRef
      /\ x2.mncc = x1.mncc /\ x2.mmxx = x1.mmxx
      /\ Turned(x1.trans, x2.trans, r, w2.state, w2.ti) /\ x2.trans[r] = w2
  BY <1>1, <1>6, <1>7, PutFields
<1> HIDE DEF x2
<1>9. /\ SameRr(t, x2) /\ SameApp(t, x2) /\ x2.conns = s.conns /\ x2.mm = t.mm
      /\ x2.mtRef = t.mtRef /\ x2.mncc = s.mncc /\ x2.mmxx = t.mmxx
      /\ x2.trans[r].ti = a /\ x2.trans[r].state = "INITIATED"
      /\ r \in DOMAIN x2.trans /\ \A q : q # r => TransRow(s, x2, q)
  BY <1>1, <1>6, <1>7, <1>8 DEF SameRr, SameApp, Turned, TransRow
<1>10. Joined(s.conns, r) /\ ~Pend(s.conns, r)
  BY <1>1 DEF Tie, Gone
<1>11. x = SetTi(x2, r, a)
  <2>1. HasConn(x2, r)
    BY <1>9, <1>10 DEF HasConn, Joined
  <2> QED
    BY <1>3, <1>9, <2>1 DEF Data, DataReq
<1>12. Distinct(x2.conns) /\ a \in Tis \cup {NoTi}
  BY <1>1, <1>2, <1>9 DEF Ties
<1>13. /\ x \in Phones /\ SameRr(x2, x) /\ SameApp(x2, x)
       /\ x.mm = x2.mm /\ x.mtRef = x2.mtRef /\ x.trans = x2.trans
       /\ x.mncc = x2.mncc /\ x.mmxx = x2.mmxx /\ Distinct(x.conns)
       /\ \A q : Joined(x.conns, q) <=> Joined(x2.conns, q)
       /\ \A q : Pend(x.conns, q) <=> Pend(x2.conns, q)
       /\ \A q : Joined(x.conns, q) => TiOf(x.conns, q) = IF q = r THEN a ELSE TiOf(x2.conns, q)
       /\ OneWaits(x2.conns) => OneWaits(x.conns)
  BY <1>8, <1>11, <1>12, SetTiFields
<1>14. OnlyOf(s, x, r)
  <2>1. SameRr(s, x) /\ SameApp(s, x) /\ x.mm = s.mm /\ x.mtRef = s.mtRef
    BY <1>1, <1>9, <1>13 DEF OnlyOf, SameRr, SameApp
  <2>2. \A q : q # r => TransRow(s, x, q) /\ ConnRow(s, x, q)
    BY <1>9, <1>13 DEF TransRow, ConnRow
  <2>3. /\ \A q : q # r => Ups(x.mmxx, q) = Ups(s.mmxx, q)
        /\ Ups(x.mmxx, r) \subseteq Ups(s.mmxx, r) /\ x.mncc = s.mncc
    BY <1>1, <1>9, <1>13 DEF OnlyOf
  <2> QED
    BY <1>9, <1>13, <2>1, <2>2, <2>3 DEF OnlyOf
<1>15. OwnIdentifiers(x.trans)
  <2>1. x.trans[r].ti = a
    BY <1>9, <1>13
  <2> QED
    BY <1>1, <1>2, <1>14, <2>1, OwnKnown DEF Ties
<1>16. Tie(x.trans, x.conns, x.mmxx, r)
  <2>1. Ups(x.mmxx, r) = {}
    <3>1. Ups(x.mmxx, r) = Ups(t.mmxx, r) /\ Ups(x.mmxx, r) \subseteq Ups(s.mmxx, r)
      BY <1>9, <1>13, <1>14 DEF OnlyOf
    <3> QED
      BY <1>1, <1>10, <3>1 DEF Tie
  <2> QED
    BY <1>2, <1>9, <1>10, <1>13, <2>1 DEF Tie
<1>17. Book(x.trans, x.calls, x.mncc, r)
  <2>1. s.trans[r].state = "MM_CONNECTION_PEND" /\ r \in DOMAIN s.trans
    BY DEF r
  <2>2. Told(s.mncc, r) = {} /\ Listed(s.calls, r) /\ ~Rings(s.calls, r)
    BY <1>1, <2>1 DEF Book, RingStates
  <2>3. x.calls = s.calls /\ x.mncc = s.mncc
    BY <1>9, <1>13, <1>14 DEF OnlyOf, SameApp
  <2>4. r \in DOMAIN x.trans /\ x.trans[r].state = "INITIATED"
    BY <1>9, <1>13
  <2> QED
    BY <2>2, <2>3, <2>4 DEF Book
<1>18. OneWaits(x.conns) /\ ToldOnce(x.mmxx) /\ OneSetup(x.mncc)
  BY <1>1, <1>9, <1>13 DEF Ties, Books
<1> QED
  BY <1>1, <1>13, <1>14, <1>15, <1>16, <1>17, <1>18, MmHandled

(* What MM has queued for call control is handled. *)
LEMMA MmStep ==
  ASSUME NEW s, Inv(s, 3), s.mmxx # <<>>
  PROVE  Inv(Handle(s, "mmxx"), 3)
<1> DEFINE m == Head(s.mmxx)
           t == [s EXCEPT !.mmxx = Tail(@)]
           r == m.ref
           y == Known(t, m)
<1>1. MmGave(s, t, m)
  BY MmTaken
<1>2. Handle(s, "mmxx") = FromMm(t, m)
  BY DEF Handle
<1> HIDE DEF m, t
<1>3. Tie(s.trans, s.conns, s.mmxx, r) /\ m \in Ups(s.mmxx, r) /\ t.trans = s.trans
  BY <1>1 DEF MmGave, Inv, Ties
<1>4. /\ KnownOf(t, y, r)
      /\ r \in DOMAIN s.trans => y = t
      /\ r \notin DOMAIN s.trans => r \in DOMAIN y.trans /\ y.trans[r].state = "NULL"
  BY <1>1, KnownFields
<1> HIDE DEF y
<1>5. CASE m.prim \in Gone
  <2>1. FromMm(t, m) = Free(ToL4(y, "REL_IND", m.ref), m.ref)
    BY <1>5 DEF FromMm, y, Gone
  <2>2. ~Joined(s.conns, m.ref)
    BY <1>3, <1>5 DEF Tie
  <2>3. Inv(Free(ToL4(y, "REL_IND", m.ref), m.ref), 3)
    BY <1>1, <1>4, <2>2, EndToldHandled
  <2> QED
    BY <1>2, <2>1, <2>3
<1>6. CASE m.prim \notin Gone /\ ~(m.prim = "EST_CNF" /\ y.trans[r].state = "MM_CONNECTION_PEND")
  <2>1. FromMm(t, m) = y
    BY <1>6 DEF FromMm, y, Gone
  <2> QED
    BY <1>1, <1>2, <1>6, <2>1, KnownHandled DEF y
<1>7. CASE m.prim = "EST_CNF" /\ y.trans[r].state = "MM_CONNECTION_PEND"
  <2>1. r \in DOMAIN s.trans /\ y = t /\ s.trans[r].state = "MM_CONNECTION_PEND"
    BY <1>3, <1>4, <1>7
  <2>2. s.trans[r].ti = NoTi
    BY <1>3, <2>1 DEF Tie
  <2>3. FromMm(t, m) = TxSetup(t, r)
    BY <1>7, <2>1 DEF FromMm, y
  <2>4. CASE FreeTis(t) # {}
    BY <1>1, <1>2, <1>7, <2>1, <2>2, <2>3, <2>4, SetupSent
  <2>5. CASE FreeTis(t) = {}
    <3>1. TxSetup(t, r) = Free(ToL4(y, "REL_IND", m.ref), m.ref)
      BY <2>1, <2>5 DEF TxSetup
    <3>2. Joined(s.conns, m.ref) => TiOf(s.conns, m.ref) = NoTi
      BY <1>3, <2>1, <2>2 DEF Tie
    <3>3. Inv(Free(ToL4(y, "REL_IND", m.ref), m.ref), 3)
      BY <1>1, <1>4, <3>2, EndToldHandled
    <3> QED
      BY <1>2, <2>3, <3>1, <3>3
  <2> QED
    BY <2>4, <2>5
<1> QED
  BY <1>5, <1>6, <1>7

-----------------------------------------------------------------------------
(* The radio resource layer takes a message of layer 2. *)

SameUp(s, t) == SameCc(s, t) /\ SameMm(s, t) /\ t.calls = s.calls /\ t.moRef = s.moRef /\ t.set = s.set
AllPlaced(s) ==
  /\ \A i \in DOMAIN s.rsl : Placed(s, s.rsl[i])
  /\ \A i \in DOMAIN s.rrUp : Placed(s, s.rrUp[i])

(* Only radio resources change: what they must show for the invariant. *)
LEMMA RrMoved ==
  ASSUME NEW s, NEW a \in 0..1, NEW b \in 0..1, Inv(s, a), NEW t \in Phones, SameUp(s, t),
         Signals(t, b), Link(t, b), AllPlaced(t)
  PROVE  Inv(t, b)
<1>1. /\ Quiet(s, a) /\ Account(s) /\ Ties(s) /\ Tied(s) /\ Books(s)
  BY DEF Inv
<1>2. AllGone(t) /\ NoSetup(t)
  BY <1>1 DEF Quiet, AllGone, NoSetup, SameUp, SameCc
<1>3. Account(t)
  BY <1>1 DEF Account, AllPlaced, Later, Unused, SameUp, SameCc, SameMm
<1>4. Ties(t) /\ Tied(t) /\ Books(t)
  BY <1>1 DEF Ties, Tied, Books, SameUp, SameCc, SameMm
<1> QED
  BY <1>2, <1>3, <1>4 DEF Inv, Quiet

(* One more message of radio resources for MM. *)
LEMMA UpGrown ==
  ASSUME NEW q \in Seq(UpRrMsg), NEW e \in UpRrMsg, NEW v, Grown(v, q, e)
  PROVE  /\ v \in Seq(UpRrMsg) /\ v # <<>> /\ (q = <<>> => Len(v) = 1)
         /\ News(v) <=> News(q) \/ e.type \notin Loss
         /\ Paged(v) <=> Paged(q) \/ e.type = "EST_IND"
         /\ ~News(q) => \A i \in 1..Len(v) - 1 : v[i].type \in Loss
         /\ \A i \in DOMAIN v : v[i] = e \/ \E j \in DOMAIN q : v[i] = q[j]
<1>1. v = Append(q, e)
  BY DEF Grown
<1>2. /\ v \in Seq(UpRrMsg) /\ Len(q) \in Nat /\ DOMAIN q = 1..Len(q)
      /\ DOMAIN v = 1..Len(q) + 1 /\ \A i \in 1..Len(q) : v[i] = q[i]
      /\ v[Len(q) + 1] = e /\ Len(v) = Len(q) + 1
  BY <1>1, Appended
<1>3. \A i \in DOMAIN v : (i = Len(q) + 1 /\ v[i] = e) \/ (i \in DOMAIN q /\ v[i] = q[i])
  BY <1>2
<1>4. /\ \A i \in DOMAIN q : i \in DOMAIN v /\ v[i] = q[i]
      /\ Len(q) + 1 \in DOMAIN v
  BY <1>2
<1>5. News(v) <=> News(q) \/ e.type \notin Loss
  BY <1>2, <1>3, <1>4 DEF News
<1>6. Paged(v) <=> Paged(q) \/ e.type = "EST_IND"
  BY <1>2, <1>3, <1>4 DEF Paged
<1>7. ~News(q) => \A i \in 1..Len(v) - 1 : v[i].type \in Loss
  BY <1>2 DEF News
<1>8. v # <<>> /\ (q = <<>> => Len(v) = 1)
  BY <1>2
<1> QED
  BY <1>2, <1>3, <1>5, <1>6, <1>7, <1>8

(* The phone s with one message read, and t without it *)
L2Gave(s, t, m) ==
  /\ Inv(s, 1) /\ t \in Phones /\ SameUp(s, t) /\ m \in RslMsg /\ Placed(s, m)
  /\ t.rr = s.rr /\ t.rrEstReq = s.rrEstReq /\ t.relWait = s.relWait /\ t.camped = s.camped
  /\ t.rrUp = s.rrUp /\ t.events = s.events /\ t.rsl = <<>>
  /\ m.type = "CELL" => s.rr = "IDLE" /\ ~s.relWait
  /\ ~News(s.rrUp)
  /\ s.rr \in {"IDLE", "CONN_PEND"} \/ s.relWait => AllPending(s)

(* A message of layer 2 for radio resources is taken. *)
LEMMA L2Taken ==
  ASSUME NEW s, Inv(s, 1), s.rsl # <<>>, NEW m, m = Head(s.rsl),
         NEW t, t = [s EXCEPT !.rsl = Tail(@)]
  PROVE  L2Gave(s, t, m)
<1>1. s \in Phones /\ Signals(s, 1) /\ Account(s) /\ Link(s, 1) /\ s.rsl \in Seq(RslMsg)
  BY PhoneTypes DEF Inv
<1>2. /\ m \in RslMsg /\ m = s.rsl[1] /\ Tail(s.rsl) \in Seq(RslMsg) /\ 1 \in DOMAIN s.rsl
      /\ DOMAIN Tail(s.rsl) = 1..Len(s.rsl) - 1 /\ Len(Tail(s.rsl)) = Len(s.rsl) - 1
  <2>1. /\ Head(s.rsl) \in RslMsg /\ Head(s.rsl) = s.rsl[1] /\ Tail(s.rsl) \in Seq(RslMsg)
        /\ Len(s.rsl) \in Nat /\ Len(s.rsl) > 0 /\ DOMAIN s.rsl = 1..Len(s.rsl)
        /\ DOMAIN Tail(s.rsl) = 1..Len(s.rsl) - 1 /\ Len(Tail(s.rsl)) = Len(s.rsl) - 1
    BY <1>1, Tailed
  <2> QED
    BY <2>1
<1>3. Len(s.rsl) = 1 /\ ~News(s.rrUp)
  BY <1>1 DEF Signals
<1>4. Tail(s.rsl) = <<>>
  BY <1>2, <1>3
<1>5. /\ t \in Phones /\ SameUp(s, t)
      /\ t.rr = s.rr /\ t.rrEstReq = s.rrEstReq /\ t.relWait = s.relWait /\ t.camped = s.camped
      /\ t.rrUp = s.rrUp /\ t.events = s.events /\ t.rsl = <<>>
  <2> DEFINE v == Tail(s.rsl)
  <2>1. v \in Seq(RslMsg) /\ t = [s EXCEPT !.rsl = v] /\ v = <<>>
    BY <1>1, <1>2, <1>4 DEF Phones
  <2> HIDE DEF v
  <2> QED
    BY <1>1, <2>1, ZenonT(60) DEF Phones, SameUp, SameCc, SameMm
<1>6. Placed(s, m) /\ (m.type = "CELL" => s.rr = "IDLE" /\ ~s.relWait)
  BY <1>1, <1>2 DEF Account, Signals
<1> QED
  BY <1>1, <1>2, <1>3, <1>5, <1>6 DEF L2Gave, Link

(* An empty queue holds no news and no page. *)
LEMMA EmptyQueue ==
  ASSUME NEW q, q = <<>>
  PROVE  ~News(q) /\ ~Paged(q) /\ DOMAIN q = {}
  BY DEF News, Paged

(* What it passes up, and its state then *)
Raised(t, x, m, rr) ==
  /\ x \in Phones /\ SameUp(t, x) /\ x.camped = t.camped /\ x.events = t.events /\ x.rsl = t.rsl
  /\ Grown(x.rrUp, t.rrUp, m) /\ x.rr = rr
  /\ rr = "IDLE" => ~x.rrEstReq
  /\ rr # "REL_PEND" => x.relWait = t.relWait

(* A message of layer 2 makes radio resources tell MM: the invariant holds
   on. *)
LEMMA L2Raised ==
  ASSUME NEW s, NEW t, NEW n, L2Gave(s, t, n), s.rr # "IDLE", NEW m \in UpRrMsg, NEW rr, NEW x,
         Raised(t, x, m, rr), m.type \in CcMsgs => Placed(s, m),
         \/ m.type \in Loss /\ rr \in {"IDLE", "REL_PEND"}
         \/ m.type = "EST_IND" /\ rr = "DEDICATED" /\ s.rr = "CONN_PEND"
         \/ m.type \notin Loss /\ m.type # "EST_IND" /\ rr = "DEDICATED" /\ s.rr = "DEDICATED"
         \/ m.type = "EST_CNF" /\ rr = "DEDICATED" /\ s.rr = "CONN_PEND" /\ s.rrEstReq
  PROVE  Inv(x, 1)
<1>1. /\ Inv(s, 1) /\ SameUp(s, t) /\ ~News(s.rrUp)
      /\ t.rr = s.rr /\ t.rrEstReq = s.rrEstReq /\ t.relWait = s.relWait /\ t.camped = s.camped
      /\ t.rrUp = s.rrUp /\ t.rsl = <<>>
      /\ s.rr \in {"IDLE", "CONN_PEND"} \/ s.relWait => AllPending(s)
  BY DEF L2Gave
<1>2. s \in Phones /\ Signals(s, 1) /\ Link(s, 1) /\ Account(s) /\ s.rrUp \in Seq(UpRrMsg)
  BY <1>1, PhoneTypes DEF Inv
<1> DEFINE v == x.rrUp
<1>3. Grown(v, s.rrUp, m)
  BY <1>1 DEF Raised
<1> HIDE DEF v
<1>4. /\ v \in Seq(UpRrMsg) /\ v # <<>> /\ (s.rrUp = <<>> => Len(v) = 1)
      /\ News(v) <=> News(s.rrUp) \/ m.type \notin Loss
      /\ Paged(v) <=> Paged(s.rrUp) \/ m.type = "EST_IND"
      /\ ~News(s.rrUp) => \A i \in 1..Len(v) - 1 : v[i].type \in Loss
      /\ \A i \in DOMAIN v : v[i] = m \/ \E j \in DOMAIN s.rrUp : v[i] = s.rrUp[j]
  BY <1>2, <1>3, UpGrown
<1>5. ~Paged(s.rrUp)
  BY <1>1, PagedNews
<1>6. /\ x \in Phones /\ SameUp(s, x) /\ x.camped = s.camped /\ x.rsl = <<>> /\ x.rr = rr /\ x.rrUp = v
      /\ rr = "IDLE" => ~x.rrEstReq
      /\ rr # "REL_PEND" => x.relWait = s.relWait
  BY <1>1 DEF Raised, SameUp, SameCc, SameMm, v
<1>7. ~s.camped /\ (s.relWait => s.rr = "REL_PEND") /\ (s.rr = "DEDICATED" => s.rrUp = <<>>)
  BY <1>1, <1>2 DEF Signals
<1>8. s.rr = "CONN_PEND" /\ s.rrEstReq => s.rrUp = <<>> /\ s.mm = "WAIT_RR_CONN_MM_CON"
  BY <1>2 DEF Signals, Link
<1>9. s.rr = "DEDICATED" => s.mm # "MM_IDLE"
  BY <1>2, <1>7, EmptyQueue DEF Link
<1>10. m.type = "EST_CNF" => m.type \notin Loss
  BY DEF Loss
<1>11. m.type = "EST_IND" => m.type \notin Loss
  BY DEF Loss
<1>12. Signals(x, 1)
  <2>1. News(v) => rr = "DEDICATED" /\ (Len(v) = 1 \/ Paged(v))
    BY <1>1, <1>4, <1>7, <1>8
  <2>2. rr = "DEDICATED" => News(v)
    BY <1>4, <1>10, <1>11
  <2>3. rr # "CONN_PEND" /\ (x.relWait => rr \in {"REL_PEND", "IDLE"})
    BY <1>6, <1>7
  <2>4. DOMAIN x.rsl = {}
    BY <1>6
  <2> QED
    BY <1>1, <1>4, <1>6, <1>7, <2>1, <2>2, <2>3, <2>4 DEF Signals
<1>13. AllPending(s) => AllPending(x)
  BY <1>6 DEF AllPending, SameUp, SameMm
<1>14. Link(x, 1)
  <2>1. x.mm = s.mm /\ rr # "CONN_PEND"
    BY <1>6 DEF SameUp, SameMm
  <2>2. s.mm \in {"MM_IDLE", "WAIT_NETWORK_CMD"} => AllPending(s)
    BY <1>2 DEF Link
  <2>3. rr = "DEDICATED" /\ s.mm = "MM_IDLE" => Paged(v)
    BY <1>4, <1>8, <1>9
  <2>4. Paged(v) => AllPending(s)
    BY <1>1, <1>4, <1>5, <1>11
  <2>5. x.rsl = <<>> /\ x.rrUp # <<>>
    BY <1>4, <1>6
  <2> QED
    BY <1>6, <1>13, <2>1, <2>2, <2>3, <2>4, <2>5 DEF Link
<1>15. AllPlaced(x)
  <2>1. \A z : Placed(s, z) => Placed(x, z)
    BY <1>6 DEF Placed, SameUp, SameMm
  <2>2. Placed(s, m)
    BY DEF Placed
  <2>3. \A i \in DOMAIN v : Placed(s, v[i])
    BY <1>2, <1>4, <2>2 DEF Account
  <2> QED
    BY <1>6, <2>1, <2>3, EmptyQueue DEF AllPlaced
<1>16. SameUp(s, x) /\ x \in Phones /\ 1 \in 0..1
  BY <1>6
<1> QED
  BY <1>1, <1>12, <1>14, <1>15, <1>16, RrMoved

(* Radio resources tell MM one thing, and nothing else changes. *)
LEMMA RrUpFields ==
  ASSUME NEW s \in Phones, NEW m \in UpRrMsg, NEW x, x = RrUp(s, m)
  PROVE  /\ x \in Phones /\ SameUp(s, x) /\ x.rr = s.rr /\ x.rrEstReq = s.rrEstReq
         /\ x.relWait = s.relWait /\ x.camped = s.camped /\ x.events = s.events /\ x.rsl = s.rsl
         /\ Grown(x.rrUp, s.rrUp, m) /\ x.rrUp # <<>>
<1> DEFINE v == Append(s.rrUp, m)
<1>1. s.rrUp \in Seq(UpRrMsg)
  BY PhoneTypes
<1>2. Grown(v, s.rrUp, m) /\ x = [s EXCEPT !.rrUp = v]
  BY DEF Grown, RrUp, Phones
<1> HIDE DEF v
<1>3. v \in Seq(UpRrMsg) /\ v # <<>>
  BY <1>1, <1>2, UpGrown
<1>4. /\ x \in Phones /\ SameUp(s, x) /\ x.rr = s.rr /\ x.rrEstReq = s.rrEstReq
      /\ x.relWait = s.relWait /\ x.camped = s.camped /\ x.events = s.events /\ x.rsl = s.rsl
      /\ x.rrUp = v
  BY <1>2, <1>3, ZenonT(60) DEF Phones, SameUp, SameCc, SameMm
<1> QED
  BY <1>2, <1>3, <1>4

(* new_rr_state to idle: nothing is told. *)
LEMMA RrIdleFields ==
  ASSUME NEW s \in Phones, NEW x, x = RrIdle(s)
  PROVE  /\ x \in Phones /\ SameUp(s, x) /\ x.rr = "IDLE" /\ x.rrEstReq = FALSE
         /\ x.relWait = s.relWait /\ x.camped = s.camped /\ x.events = s.events /\ x.rsl = s.rsl
         /\ x.rrUp = s.rrUp
  BY DEF RrIdle, Phones, SameUp, SameCc, SameMm, RrStates

(* What radio resources tell MM. *)
LEMMA UpMsgs ==
  ASSUME NEW type \in UpTypes
  PROVE  Msg(type) \in UpRrMsg /\ Msg(type).type = type
  BY DEF Msg, UpRrMsg

(* Nothing is passed up. *)
LEMMA L2Kept ==
  ASSUME NEW s, NEW t, NEW m, L2Gave(s, t, m), NEW x \in Phones, SameUp(t, x),
         x.rrUp = t.rrUp, x.rsl = t.rsl, x.relWait = t.relWait, x.rrEstReq = t.rrEstReq,
         \/ x.rr = t.rr /\ x.camped = t.camped
         \/ x.rr = "CONN_PEND" /\ ~x.camped /\ t.rr = "IDLE" /\ ~t.relWait
         \/ x.rr = t.rr /\ x.camped /\ t.rr = "IDLE" /\ ~t.relWait
         \/ x.rr = "REL_PEND" /\ x.camped = t.camped /\ t.rr = "DEDICATED"
  PROVE  Inv(x, 1)
<1>1. /\ Inv(s, 1) /\ SameUp(s, t) /\ ~News(s.rrUp)
      /\ t.rr = s.rr /\ t.rrEstReq = s.rrEstReq /\ t.relWait = s.relWait /\ t.camped = s.camped
      /\ t.rrUp = s.rrUp /\ t.rsl = <<>>
      /\ s.rr \in {"IDLE", "CONN_PEND"} \/ s.relWait => AllPending(s)
  BY DEF L2Gave
<1>2. s \in Phones /\ Signals(s, 1) /\ Link(s, 1) /\ Account(s)
  BY <1>1 DEF Inv
<1>3. SameUp(s, x)
  BY <1>1 DEF SameUp, SameCc, SameMm
<1>4. Signals(x, 1)
  <2>1. DOMAIN x.rsl = {}
    BY <1>1
  <2>2. ~News(x.rrUp) /\ (\A i \in 1..Len(x.rrUp) - 1 : x.rrUp[i].type \in Loss)
    BY <1>1, <1>2 DEF Signals
  <2>3. x.rr = "DEDICATED" => x.rrUp = <<>>
    BY <1>1, <1>2 DEF Signals
  <2>4. x.camped => x.rr = "IDLE" /\ ~x.relWait
    BY <1>1, <1>2 DEF Signals
  <2>5. x.relWait => x.rr \in {"REL_PEND", "IDLE"}
    BY <1>1, <1>2 DEF Signals
  <2>6. /\ x.rr = "IDLE" => ~x.rrEstReq
        /\ x.rr = "CONN_PEND" /\ x.rrEstReq => x.rrUp = <<>>
    BY <1>1, <1>2 DEF Signals
  <2> QED
    BY <1>1, <2>1, <2>2, <2>3, <2>4, <2>5, <2>6 DEF Signals
<1>5. AllPending(s) => AllPending(x)
  BY <1>3 DEF AllPending, SameUp, SameMm
<1>6. Link(x, 1)
  <2>1. x.mm = s.mm
    BY <1>3 DEF SameUp, SameMm
  <2>2. s.mm \in {"MM_IDLE", "WAIT_NETWORK_CMD"} => AllPending(s)
    BY <1>2 DEF Link
  <2>3. x.rr = "DEDICATED" /\ s.mm = "MM_IDLE" => Paged(x.rrUp)
    BY <1>1, <1>2 DEF Link
  <2>4. ~Paged(x.rrUp)
    BY <1>1, PagedNews
  <2>5. x.rr = "CONN_PEND" /\ x.rrEstReq => s.mm = "WAIT_RR_CONN_MM_CON"
    BY <1>1, <1>2 DEF Link, Signals
  <2>6. x.rr \in {"IDLE", "CONN_PEND"} \/ x.relWait => AllPending(s)
    BY <1>1
  <2> QED
    BY <1>5, <2>1, <2>2, <2>3, <2>4, <2>5, <2>6 DEF Link
<1>7. AllPlaced(x)
  <2>1. \A z : Placed(s, z) => Placed(x, z)
    BY <1>3 DEF Placed, SameUp, SameMm
  <2>2. x.rsl = <<>> /\ x.rrUp = s.rrUp
    BY <1>1
  <2> QED
    BY <1>2, <2>1, <2>2, EmptyQueue DEF AllPlaced, Account
<1>8. 1 \in 0..1
  OBVIOUS
<1> QED
  BY <1>1, <1>3, <1>4, <1>6, <1>7, <1>8, RrMoved

(* What layer 2 has queued for radio resources is handled. *)
LEMMA L2Step ==
  ASSUME NEW s, Inv(s, 1), s.rsl # <<>>
  PROVE  Inv(Handle(s, "rsl"), 1)
<1> DEFINE m == Head(s.rsl)
           t == [s EXCEPT !.rsl = Tail(@)]
           x == FromL2(t, m)
<1>1. L2Gave(s, t, m)
  BY L2Taken
<1>2. Handle(s, "rsl") = x
  BY DEF Handle
<1> HIDE DEF m, t
<1>3. t \in Phones /\ t.rr = s.rr /\ t.rrEstReq = s.rrEstReq /\ m \in RslMsg /\ Placed(s, m)
  BY <1>1 DEF L2Gave
<1>4. SameUp(t, t) /\ t.rr \in RrStates
  BY <1>3 DEF SameUp, SameCc, SameMm, Phones
<1>5. CASE m.type = "EST_CONF" /\ t.rr = "CONN_PEND"
  <2> DEFINE y == [t EXCEPT !.rr = "DEDICATED"]
             e == Msg(IF t.rrEstReq THEN "EST_CNF" ELSE "EST_IND")
  <2>1. x = RrUp(y, e)
    BY <1>5 DEF FromL2
  <2>2. /\ y \in Phones /\ SameUp(t, y) /\ y.rr = "DEDICATED" /\ y.rrEstReq = t.rrEstReq
        /\ y.relWait = t.relWait /\ y.camped = t.camped /\ y.events = t.events /\ y.rsl = t.rsl
        /\ y.rrUp = t.rrUp
    BY <1>3 DEF Phones, SameUp, SameCc, SameMm, RrStates
  <2>3. e \in UpRrMsg /\ e.type = IF t.rrEstReq THEN "EST_CNF" ELSE "EST_IND"
    BY UpMsgs DEF UpTypes
  <2> HIDE DEF y, e, x
  <2>4. Raised(t, x, e, "DEDICATED")
    <3>1. /\ x \in Phones /\ SameUp(y, x) /\ x.rr = y.rr /\ x.rrEstReq = y.rrEstReq
          /\ x.relWait = y.relWait /\ x.camped = y.camped /\ x.events = y.events /\ x.rsl = y.rsl
          /\ Grown(x.rrUp, y.rrUp, e)
      BY <2>1, <2>2, <2>3, RrUpFields
    <3> QED
      BY <2>2, <3>1 DEF Raised, SameUp, SameCc, SameMm
  <2>5. e.type \notin CcMsgs /\ e.type \in {"EST_CNF", "EST_IND"}
    BY <2>3 DEF CcMsgs
  <2>6. Inv(x, 1)
    BY <1>1, <1>3, <1>5, <2>3, <2>4, <2>5, L2Raised
  <2> QED
    BY <1>2, <2>6
<1>6. CASE m.type = "REL_IND" /\ t.rr \in {"CONN_PEND", "DEDICATED"}
  <2> DEFINE y == [t EXCEPT !.rr = "REL_PEND", !.relWait = TRUE]
             e == Msg("REL_IND")
  <2>1. x = RrUp(y, e)
    BY <1>6 DEF FromL2, RrMsgs
  <2>2. /\ y \in Phones /\ SameUp(t, y) /\ y.rr = "REL_PEND" /\ y.rrEstReq = t.rrEstReq
        /\ y.relWait = TRUE /\ y.camped = t.camped /\ y.events = t.events /\ y.rsl = t.rsl
        /\ y.rrUp = t.rrUp
    BY <1>3 DEF Phones, SameUp, SameCc, SameMm, RrStates
  <2>3. e \in UpRrMsg /\ e.type = "REL_IND"
    BY UpMsgs DEF UpTypes, Loss
  <2> HIDE DEF y, e, x
  <2>4. Raised(t, x, e, "REL_PEND")
    <3>1. /\ x \in Phones /\ SameUp(y, x) /\ x.rr = y.rr /\ x.rrEstReq = y.rrEstReq
          /\ x.relWait = y.relWait /\ x.camped = y.camped /\ x.events = y.events /\ x.rsl = y.rsl
          /\ Grown(x.rrUp, y.rrUp, e)
      BY <2>1, <2>2, <2>3, RrUpFields
    <3> QED
      BY <2>2, <3>1 DEF Raised, SameUp, SameCc, SameMm
  <2>5. e.type \notin CcMsgs /\ e.type \in Loss
    BY <2>3 DEF CcMsgs, Loss
  <2>6. Inv(x, 1)
    BY <1>1, <1>3, <1>6, <2>3, <2>4, <2>5, L2Raised
  <2> QED
    BY <1>2, <2>6
<1>7. CASE (m.type = "REL_CONF" /\ t.rr # "IDLE") \/ (m.type = "ERROR_IND" /\ t.rr = "DEDICATED")
  <2> DEFINE e == Msg(IF m.type = "REL_CONF" THEN "REL_IND" ELSE "ABORT_IND")
             y == RrUp(t, e)
  <2>1. x = RrIdle(y)
    <3>1. CASE m.type = "REL_CONF" /\ t.rr # "IDLE"
      BY <3>1 DEF FromL2, RrMsgs
    <3>2. CASE m.type = "ERROR_IND" /\ t.rr = "DEDICATED"
      BY <3>2 DEF FromL2, RrMsgs
    <3> QED
      BY <1>7, <3>1, <3>2
  <2>3. e \in UpRrMsg /\ e.type \in Loss
    BY UpMsgs DEF UpTypes, Loss
  <2> HIDE DEF e, x
  <2>2. /\ y \in Phones /\ SameUp(t, y) /\ y.rr = t.rr /\ y.rrEstReq = t.rrEstReq
        /\ y.relWait = t.relWait /\ y.camped = t.camped /\ y.events = t.events /\ y.rsl = t.rsl
        /\ Grown(y.rrUp, t.rrUp, e)
    BY <1>3, <2>3, RrUpFields
  <2> HIDE DEF y
  <2>4. Raised(t, x, e, "IDLE")
    <3>1. /\ x \in Phones /\ SameUp(y, x) /\ x.rr = "IDLE" /\ x.rrEstReq = FALSE
          /\ x.relWait = y.relWait /\ x.camped = y.camped /\ x.events = y.events /\ x.rsl = y.rsl
          /\ x.rrUp = y.rrUp
      BY <2>1, <2>2, RrIdleFields
    <3> QED
      BY <2>2, <3>1 DEF Raised, SameUp, SameCc, SameMm
  <2>5. e.type \notin CcMsgs /\ s.rr # "IDLE"
    BY <1>3, <1>7, <2>3 DEF CcMsgs, Loss
  <2>6. Inv(x, 1)
    BY <1>1, <1>3, <2>3, <2>4, <2>5, L2Raised
  <2> QED
    BY <1>2, <2>6
<1>8. CASE m.type = "PAGING" /\ t.rr = "IDLE" /\ t.camped
  <2>1. x = [t EXCEPT !.rr = "CONN_PEND", !.camped = FALSE]
    BY <1>8 DEF FromL2
  <2> HIDE DEF x
  <2>2. /\ x \in Phones /\ SameUp(t, x) /\ x.rrUp = t.rrUp /\ x.rsl = t.rsl
        /\ x.relWait = t.relWait /\ x.rrEstReq = t.rrEstReq /\ x.rr = "CONN_PEND" /\ ~x.camped
    BY <1>3, <2>1 DEF Phones, SameUp, SameCc, SameMm, RrStates
  <2>3. ~t.relWait
    <3>1. Signals(s, 1) /\ t.relWait = s.relWait /\ t.camped = s.camped
      BY <1>1 DEF L2Gave, Inv
    <3> QED
      BY <1>8, <3>1 DEF Signals
  <2>4. Inv(x, 1)
    BY <1>1, <1>8, <2>2, <2>3, L2Kept
  <2> QED
    BY <1>2, <2>4
<1>9. CASE m.type = "CELL"
  <2>1. x = [t EXCEPT !.camped = TRUE, !.events = Append(@, "CELL_SELECTED")]
    BY <1>9 DEF FromL2, RrMsgs
  <2>2. t.events \in Seq({"CELL_SELECTED"})
    BY <1>3, PhoneTypes
  <2> DEFINE v == Append(t.events, "CELL_SELECTED")
  <2>3. v \in Seq({"CELL_SELECTED"})
    BY <2>2
  <2>4. x = [t EXCEPT !.camped = TRUE, !.events = v]
    BY <1>3, <2>1 DEF Phones
  <2> HIDE DEF x, v
  <2>5. /\ x \in Phones /\ SameUp(t, x) /\ x.rrUp = t.rrUp /\ x.rsl = t.rsl
        /\ x.relWait = t.relWait /\ x.rrEstReq = t.rrEstReq /\ x.rr = t.rr /\ x.camped
    BY <1>3, <2>3, <2>4 DEF Phones, SameUp, SameCc, SameMm
  <2>6. t.rr = "IDLE" /\ ~t.relWait
    BY <1>1, <1>9 DEF L2Gave
  <2>7. Inv(x, 1)
    BY <1>1, <2>5, <2>6, L2Kept
  <2> QED
    BY <1>2, <2>7
<1>10. CASE m.type = "CHAN_REL" /\ t.rr = "DEDICATED"
  <2>1. x = [t EXCEPT !.rr = "REL_PEND"]
    BY <1>10 DEF FromL2, RrMsgs
  <2> HIDE DEF x
  <2>2. /\ x \in Phones /\ SameUp(t, x) /\ x.rrUp = t.rrUp /\ x.rsl = t.rsl
        /\ x.relWait = t.relWait /\ x.rrEstReq = t.rrEstReq /\ x.rr = "REL_PEND"
        /\ x.camped = t.camped
    BY <1>3, <2>1 DEF Phones, SameUp, SameCc, SameMm, RrStates
  <2>3. Inv(x, 1)
    BY <1>1, <1>10, <2>2, L2Kept
  <2> QED
    BY <1>2, <2>3
<1>11. CASE (m.type = "CIPH_M_CMD" \/ m.type \notin RrMsgs) /\ t.rr = "DEDICATED"
  <2> DEFINE e == IF m.type = "CIPH_M_CMD" THEN Msg("SYNC_IND") ELSE m
  <2>1. x = RrUp(t, e)
    BY <1>11 DEF FromL2, RrMsgs
  <2>2. e \in UpRrMsg /\ e.type \notin Loss /\ e.type # "EST_IND" /\ e.type # "EST_CNF"
    <3>1. CASE m.type = "CIPH_M_CMD"
      BY <3>1, UpMsgs DEF UpTypes, Loss
    <3>2. CASE m.type \notin RrMsgs
      <4>1. m.type \in {"CM_SERV_ACC", "CM_SERV_REJ", "CM_SERV_REJ_ANY", "MM_ABORT", "MM_ABORT_ILLEGAL"} \cup CcMsgs
        BY <1>3, <3>2 DEF RslMsg, RslTypes
      <4>2. m \in UpRrMsg /\ e = m
        BY <1>3, <3>2, <4>1 DEF RslMsg, UpRrMsg, UpTypes, RrMsgs
      <4> QED
        BY <4>1, <4>2 DEF CcMsgs, Loss
    <3> QED
      BY <1>11, <3>1, <3>2
  <2>3. e.type \in CcMsgs => Placed(s, e)
    BY <1>3, UpMsgs DEF CcMsgs, Msg
  <2> HIDE DEF e, x
  <2>4. Raised(t, x, e, "DEDICATED")
    <3>1. /\ x \in Phones /\ SameUp(t, x) /\ x.rr = t.rr /\ x.rrEstReq = t.rrEstReq
          /\ x.relWait = t.relWait /\ x.camped = t.camped /\ x.events = t.events /\ x.rsl = t.rsl
          /\ Grown(x.rrUp, t.rrUp, e)
      BY <1>3, <2>1, <2>2, RrUpFields
    <3> QED
      BY <1>11, <3>1 DEF Raised
  <2>5. Inv(x, 1)
    BY <1>1, <1>3, <1>11, <2>2, <2>3, <2>4, L2Raised
  <2> QED
    BY <1>2, <2>5
<1>12. CASE x = t
  BY <1>1, <1>2, <1>3, <1>4, <1>12, L2Kept
<1> DEFINE G1 == m.type = "EST_CONF" /\ t.rr = "CONN_PEND"
           G2 == m.type = "REL_IND" /\ t.rr \in {"CONN_PEND", "DEDICATED"}
           G3 == (m.type = "REL_CONF" /\ t.rr # "IDLE") \/ (m.type = "ERROR_IND" /\ t.rr = "DEDICATED")
           G4 == m.type = "PAGING" /\ t.rr = "IDLE" /\ t.camped
           G5 == m.type = "CELL"
           G6 == m.type = "CHAN_REL" /\ t.rr = "DEDICATED"
           G7 == (m.type = "CIPH_M_CMD" \/ m.type \notin RrMsgs) /\ t.rr = "DEDICATED"
<1>13. CASE ~G1 /\ ~G2 /\ ~G3 /\ ~G4 /\ ~G5 /\ ~G6 /\ ~G7
  <2>1. x = t
    BY <1>13 DEF FromL2
  <2> QED
    BY <1>12, <2>1
<1>14. /\ G1 => Inv(Handle(s, "rsl"), 1)
       /\ G2 => Inv(Handle(s, "rsl"), 1)
       /\ G3 => Inv(Handle(s, "rsl"), 1)
       /\ G4 => Inv(Handle(s, "rsl"), 1)
       /\ G5 => Inv(Handle(s, "rsl"), 1)
       /\ G6 => Inv(Handle(s, "rsl"), 1)
       /\ G7 => Inv(Handle(s, "rsl"), 1)
  <2> HIDE DEF x
  <2> QED
    BY <1>5, <1>6, <1>7, <1>8, <1>9, <1>10, <1>11
<1> HIDE DEF x, G1, G2, G3, G4, G5, G6, G7
<1> QED
  BY <1>13, <1>14

-----------------------------------------------------------------------------
(* MM learns of the cell. *)

(* Only the state of MM changes: what it must show for the invariant. *)
LEMMA MmOnly ==
  ASSUME NEW s, NEW a, Inv(s, a), NEW t \in Phones, SameCall(s, t), t.conns = s.conns,
         t.mmxx = s.mmxx, t.rrUp = s.rrUp, t.rsl = s.rsl, Signals(t, a), Link(t, a)
  PROVE  Inv(t, a)
<1>1. /\ Quiet(s, a) /\ Account(s) /\ Ties(s) /\ Books(s) /\ a \in 0..5
      /\ a <= 1 \/ News(s.rrUp) => Tied(s)
  BY DEF Inv
<1>2. Quiet(t, a)
  BY <1>1 DEF Quiet, AllGone, NoSetup, SameCall
<1>3. Account(t)
  BY <1>1 DEF Account, Later, Unused, Placed, SameCall
<1>4. Ties(t) /\ Books(t) /\ (Tied(s) => Tied(t))
  BY <1>1 DEF Ties, Tied, Books, SameCall
<1> QED
  BY <1>1, <1>2, <1>3, <1>4 DEF Inv

(* The event of a cell selected is handled. *)
LEMMA CellStep ==
  ASSUME NEW s, Inv(s, 4), s.events # <<>>
  PROVE  Inv(Handle(s, "events"), 4)
<1> DEFINE v == Tail(s.events)
           t == [s EXCEPT !.events = v]
           x == CellSelected(t)
<1>1. s \in Phones /\ Signals(s, 4) /\ Link(s, 4) /\ s.rrUp = <<>> /\ s.rsl = <<>>
  BY DEF Inv, Signals
<1>2. v \in Seq({"CELL_SELECTED"})
  BY <1>1, PhoneTypes
<1>3. Handle(s, "events") = x
  BY <1>1 DEF Handle, Phones
<1> HIDE DEF v
<1>4. /\ t \in Phones /\ t.rr = s.rr /\ t.rrEstReq = s.rrEstReq /\ t.relWait = s.relWait
      /\ t.camped = s.camped /\ t.rsl = s.rsl /\ t.rrUp = s.rrUp /\ SameCall(s, t)
      /\ t.conns = s.conns /\ t.mmxx = s.mmxx /\ t.mm = s.mm
  BY <1>1, <1>2 DEF Phones, SameCall
<1> HIDE DEF t
<1>5. /\ x \in Phones /\ SameRr(t, x) /\ SameCall(t, x) /\ x.conns = t.conns /\ x.mmxx = t.mmxx
      /\ x.mm = IF s.camped THEN "MM_IDLE" ELSE s.mm
  <2>1. CASE t.mm = "MM_IDLE"
    BY <1>4, <2>1 DEF CellSelected, SameRr, SameCall
  <2>2. CASE t.mm # "MM_IDLE"
    <3>1. x = ReturnIdle(t)
      BY <2>2 DEF CellSelected
    <3> QED
      BY <1>4, <3>1, ReturnIdleFields
  <2> QED
    BY <2>1, <2>2
<1> HIDE DEF x
<1>6. /\ x.rr = s.rr /\ x.rrEstReq = s.rrEstReq /\ x.relWait = s.relWait
      /\ x.camped = s.camped /\ x.rsl = s.rsl /\ x.rrUp = s.rrUp /\ SameCall(s, x)
      /\ x.conns = s.conns /\ x.mmxx = s.mmxx
  BY <1>4, <1>5 DEF SameRr, SameCall
<1>7. Signals(x, 4)
  BY <1>1, <1>6 DEF Signals
<1>8. Link(x, 4)
  <2>1. AllPending(s) => AllPending(x)
    BY <1>6 DEF AllPending
  <2>2. s.camped => s.rr = "IDLE" /\ AllPending(s)
    BY <1>1 DEF Signals, Link
  <2> QED
    BY <1>1, <1>5, <1>6, <2>1, <2>2 DEF Link
<1>9. Inv(x, 4)
  BY <1>5, <1>6, <1>7, <1>8, MmOnly
<1> QED
  BY <1>3, <1>9

-----------------------------------------------------------------------------
(* The timers *)

(* What holds between two rounds of the loop. *)
LEMMA Resting ==
  ASSUME NEW s, Inv(s, 0)
  PROVE  /\ s \in Phones /\ Signals(s, 0) /\ Link(s, 0) /\ Account(s) /\ Ties(s) /\ Books(s)
         /\ AllGone(s) /\ NoSetup(s) /\ Tied(s) /\ ~News(s.rrUp) /\ ~Paged(s.rrUp) /\ s.rsl = <<>>
         /\ s.rr \in {"IDLE", "CONN_PEND"} \/ s.relWait => AllPending(s)
         /\ s.mm \in {"MM_IDLE", "WAIT_NETWORK_CMD"} => AllPending(s)
         /\ s.rr = "DEDICATED" => s.mm # "MM_IDLE" /\ s.rrUp = <<>>
         /\ s.camped => s.rr = "IDLE" /\ ~s.relWait /\ s.rrUp = <<>>
         /\ s.rrUp \in Seq(UpRrMsg)
<1>1. s \in Phones /\ Signals(s, 0) /\ Link(s, 0) /\ Quiet(s, 0)
  BY DEF Inv
<1>2. ~News(s.rrUp) /\ s.rsl = <<>>
  BY <1>1 DEF Signals
<1>3. ~Paged(s.rrUp)
  BY <1>2, PagedNews
<1>4. s.rrUp \in Seq(UpRrMsg)
  BY <1>1, PhoneTypes
<1>5. Account(s) /\ Ties(s) /\ Books(s) /\ Tied(s)
  BY DEF Inv
<1>6. AllGone(s) /\ NoSetup(s)
  BY <1>1 DEF Quiet
<1> QED
  BY <1>1, <1>2, <1>3, <1>4, <1>5, <1>6 DEF Signals, Link

(* With nothing of layer 2 and no news queued, every message finds its
   place. *)
LEMMA RestPlaced ==
  ASSUME NEW s, s.rsl = <<>>, ~News(s.rrUp)
  PROVE  AllPlaced(s)
  BY NewsPlaced DEF AllPlaced

(* Only timers change. *)
LEMMA TimerStopped ==
  ASSUME NEW s, NEW a, Inv(s, a), NEW t \in Phones, SameLayers(s, t)
  PROVE  Inv(t, a)
<1>1. Signals(s, a) /\ Link(s, a)
  BY DEF Inv
<1>2. Signals(t, a)
  BY <1>1, SignalsSame DEF SameLayers
<1>3. Link(t, a)
  BY <1>1 DEF Link, AllPending, SameLayers, SameRr
<1>4. t.rrUp = s.rrUp /\ t.rsl = s.rsl
  BY DEF SameLayers, SameRr
<1> QED
  BY <1>2, <1>3, <1>4, MmOnly DEF SameLayers

(* T3230 expires between two rounds. *)
LEMMA T3230Step ==
  ASSUME NEW s, Inv(s, 0)
  PROVE  Inv(T3230Expired(s), 0)
<1> DEFINE off == [s EXCEPT !.t3230 = FALSE]
           freed == ReleasePending(off)
           x == ByConns(freed)
<1>1. /\ s \in Phones /\ Signals(s, 0) /\ Link(s, 0) /\ Account(s) /\ Ties(s) /\ Books(s)
      /\ AllGone(s) /\ NoSetup(s) /\ Tied(s) /\ ~News(s.rrUp) /\ ~Paged(s.rrUp) /\ s.rsl = <<>>
      /\ s.rr \in {"IDLE", "CONN_PEND"} \/ s.relWait => AllPending(s)
  BY Resting
<1>2. off \in Phones /\ SameLayers(s, off)
  BY <1>1 DEF Phones, SameLayers, SameRr, SameCall
<1>3. CASE s.mm \notin {"WAIT_OUT_MM_CONN", "WAIT_ADD_OUT_MM_CON"}
  <2>1. T3230Expired(s) = off
    BY <1>3 DEF T3230Expired
  <2> HIDE DEF off
  <2> QED
    BY <1>2, <2>1, TimerStopped
<1>4. CASE s.mm \in {"WAIT_OUT_MM_CONN", "WAIT_ADD_OUT_MM_CON"}
  <2>1. T3230Expired(s) = x
    BY <1>4 DEF T3230Expired
  <2>2. Ties(off) /\ AllGone(off)
    BY <1>1, <1>2 DEF SameLayers, SameCall, Ties, AllGone
  <2> HIDE DEF off
  <2>3. /\ freed \in Phones /\ SameRr(off, freed) /\ SameCall(off, freed) /\ Backed(off, freed)
        /\ freed.mm = off.mm /\ Ties(freed) /\ AllGone(freed)
        /\ \A q : Joined(freed.conns, q) <=> Joined(off.conns, q) /\ ~Pend(off.conns, q)
    BY <1>2, <2>2, PendingReleased
  <2> HIDE DEF freed
  <2>4. /\ x \in Phones /\ SameRr(freed, x) /\ SameApp(freed, x)
        /\ x.mm = (IF freed.conns = <<>> THEN "WAIT_NETWORK_CMD" ELSE "MM_CONN_ACTIVE")
        /\ x.mtRef = freed.mtRef /\ x.trans = freed.trans
        /\ x.mncc = freed.mncc /\ x.mmxx = freed.mmxx /\ x.conns = freed.conns
    BY <2>3, ByConnsFields
  <2> HIDE DEF x
  <2>5. SameRr(s, x) /\ SameCall(s, x)
    BY <1>2, <2>3, <2>4 DEF SameLayers, SameRr, SameCall, SameApp
  <2>6. \A q : Joined(x.conns, q) <=> Joined(s.conns, q) /\ ~Pend(s.conns, q)
    BY <1>2, <2>3, <2>4 DEF SameLayers
  <2>7. Backed(s, x)
    BY <1>2, <2>3, <2>4 DEF Backed, SameLayers
  <2>8. Signals(x, 0)
    BY <1>1, <2>5, SignalsSame
  <2>9. AllGone(x) /\ NoSetup(x)
    BY <1>1, <2>3, <2>4, <2>5 DEF AllGone, NoSetup, SameCall
  <2>10. AllPending(s) => AllPending(x)
    BY <2>6 DEF AllPending
  <2>11. x.mm = "WAIT_NETWORK_CMD" => AllPending(x)
    BY <2>3, <2>4, NoneJoined, PhoneTypes DEF AllPending
  <2>12. Link(x, 0)
    <3>1. x.mm # "MM_IDLE"
      BY <2>4
    <3>2. ~(s.rr = "CONN_PEND" /\ s.rrEstReq)
      BY <1>1, <1>4 DEF Link
    <3> QED
      BY <1>1, <2>5, <2>10, <2>11, <3>1, <3>2 DEF Link, SameRr
  <2>13. AccountBut(x)
    <3>1. AccountBut(s)
      BY <1>1 DEF Account, AccountBut
    <3> QED
      BY <2>5, <2>7, <3>1, BackedAccount
  <2>14. AllPlaced(x)
    BY <1>1, <2>5, RestPlaced DEF SameRr
  <2>15. Tied(x)
    <3> SUFFICES ASSUME NEW q \in DOMAIN s.trans PROVE Joined(x.conns, q) \/ s.trans[q].ti = NoTi
      BY <2>5 DEF Tied, SameCall
    <3>1. q \in Refs /\ Tie(s.trans, s.conns, s.mmxx, q)
      BY <1>1, PhoneTypes DEF Ties
    <3> QED
      BY <1>1, <2>6, <3>1 DEF Tied, Tie
  <2>16. Ties(x) /\ Books(x)
    BY <1>1, <2>3, <2>4, <2>5 DEF Ties, Books, SameCall
  <2>17. Inv(x, 0)
    BY <2>4, <2>8, <2>9, <2>12, <2>13, <2>14, <2>15, <2>16 DEF Inv, Quiet, Account, AccountBut, AllPlaced
  <2> QED
    BY <2>1, <2>17
<1> QED
  BY <1>3, <1>4

(* T3240 expires between two rounds. *)
LEMMA T3240Step ==
  ASSUME NEW s, Inv(s, 0)
  PROVE  Inv(T3240Expired(s), 0)
<1> DEFINE off == [s EXCEPT !.t3240 = FALSE]
           cut == RrAbortReq(off)
           x == ReturnIdle(cut)
<1>1. /\ s \in Phones /\ Signals(s, 0) /\ Link(s, 0)
      /\ ~News(s.rrUp) /\ ~Paged(s.rrUp) /\ s.rsl = <<>>
      /\ s.mm \in {"MM_IDLE", "WAIT_NETWORK_CMD"} => AllPending(s)
      /\ s.rr = "DEDICATED" => s.rrUp = <<>>
      /\ s.camped => s.rr = "IDLE" /\ ~s.relWait /\ s.rrUp = <<>>
  BY Resting
<1>2. off \in Phones /\ SameLayers(s, off)
  BY <1>1 DEF Phones, SameLayers, SameRr, SameCall
<1>3. CASE s.mm # "WAIT_NETWORK_CMD"
  <2>1. T3240Expired(s) = off
    BY <1>3 DEF T3240Expired
  <2> HIDE DEF off
  <2> QED
    BY <1>2, <2>1, TimerStopped
<1>4. CASE s.mm = "WAIT_NETWORK_CMD"
  <2>1. T3240Expired(s) = x
    BY <1>4 DEF T3240Expired
  <2> HIDE DEF off
  <2>2. /\ off.rr = s.rr /\ off.rrEstReq = s.rrEstReq /\ off.relWait = s.relWait
        /\ off.camped = s.camped /\ off.rsl = s.rsl /\ off.rrUp = s.rrUp /\ off.events = s.events
        /\ SameCall(s, off) /\ off.conns = s.conns /\ off.mmxx = s.mmxx /\ off.mm = s.mm
    BY <1>2 DEF SameLayers, SameRr
  <2>3. /\ cut \in Phones /\ cut.relWait = s.relWait
        /\ cut.camped = s.camped /\ cut.rsl = s.rsl /\ cut.rrUp = s.rrUp /\ cut.events = s.events
        /\ SameCall(s, cut) /\ cut.conns = s.conns /\ cut.mmxx = s.mmxx /\ cut.mm = s.mm
        /\ cut.rr = IF s.rr = "DEDICATED" THEN "REL_PEND"
                    ELSE IF s.rr = "CONN_PEND" THEN "IDLE" ELSE s.rr
        /\ cut.rr = "IDLE" => ~cut.rrEstReq
    <3>1. CASE s.rr = "DEDICATED"
      <4>1. cut = [off EXCEPT !.rr = "REL_PEND"]
        BY <2>2, <3>1 DEF RrAbortReq
      <4> HIDE DEF cut
      <4> QED
        BY <1>2, <2>2, <3>1, <4>1 DEF Phones, SameCall, RrStates
    <3>2. CASE s.rr = "CONN_PEND"
      <4>1. cut = RrIdle(off)
        BY <2>2, <3>2 DEF RrAbortReq
      <4> HIDE DEF cut
      <4>2. /\ cut \in Phones /\ SameUp(off, cut) /\ cut.rr = "IDLE" /\ cut.rrEstReq = FALSE
            /\ cut.relWait = off.relWait /\ cut.camped = off.camped /\ cut.events = off.events
            /\ cut.rsl = off.rsl /\ cut.rrUp = off.rrUp
        BY <1>2, <4>1, RrIdleFields
      <4> QED
        BY <2>2, <3>2, <4>2 DEF SameUp, SameCc, SameMm, SameCall
    <3>3. CASE s.rr \notin {"DEDICATED", "CONN_PEND"}
      <4>1. cut = off
        BY <2>2, <3>3 DEF RrAbortReq
      <4> HIDE DEF cut
      <4> QED
        BY <1>1, <1>2, <2>2, <3>3, <4>1 DEF Signals
    <3> QED
      BY <3>1, <3>2, <3>3
  <2> HIDE DEF cut
  <2>4. /\ x \in Phones /\ SameRr(cut, x) /\ SameCall(cut, x) /\ x.conns = cut.conns
        /\ x.mmxx = cut.mmxx /\ x.mm = IF cut.camped THEN "MM_IDLE" ELSE cut.mm
    BY <2>3, ReturnIdleFields
  <2> HIDE DEF x
  <2>5. /\ x.relWait = s.relWait /\ x.rr = cut.rr /\ x.rrEstReq = cut.rrEstReq
        /\ x.camped = s.camped /\ x.rsl = s.rsl /\ x.rrUp = s.rrUp /\ x.events = s.events
        /\ SameCall(s, x) /\ x.conns = s.conns /\ x.mmxx = s.mmxx
        /\ x.mm \in {"MM_IDLE", "WAIT_NETWORK_CMD"}
    BY <1>4, <2>3, <2>4 DEF SameRr, SameCall
  <2>6. x.rr \notin {"DEDICATED", "CONN_PEND"} /\ (x.rr = "IDLE" => ~x.rrEstReq)
    BY <2>3, <2>5
  <2>7. Signals(x, 0)
    <3>1. s.relWait => s.rr \in {"REL_PEND", "IDLE"}
      BY <1>1 DEF Signals
    <3>2. x.relWait => x.rr \in {"REL_PEND", "IDLE"}
      BY <2>3, <2>5, <3>1
    <3>3. x.camped => x.rr = "IDLE" /\ ~x.relWait /\ x.rrUp = <<>>
      BY <1>1, <2>3, <2>5
    <3>4. x.events = <<>> /\ x.rsl = <<>> /\ DOMAIN x.rsl = {} /\ ~News(x.rrUp)
          /\ \A i \in 1..Len(x.rrUp) - 1 : x.rrUp[i].type \in Loss
      BY <1>1, <2>5 DEF Signals
    <3> QED
      BY <2>6, <3>2, <3>3, <3>4 DEF Signals
  <2>8. Link(x, 0)
    <3>1. AllPending(x)
      BY <1>1, <1>4, <2>5 DEF AllPending
    <3> QED
      BY <2>6, <3>1 DEF Link
  <2>9. Inv(x, 0)
    BY <2>4, <2>5, <2>7, <2>8, MmOnly
  <2> QED
    BY <2>1, <2>9
<1> QED
  BY <1>3, <1>4

(* What the radio resource layer tells of a loss on its own *)
LEMMA LossRaised ==
  ASSUME NEW s, Inv(s, 0), NEW b \in 0..1, NEW t \in Phones, SameUp(s, t), t.rr = "IDLE",
         ~t.rrEstReq, t.relWait = s.relWait, ~t.camped, t.events = s.events, t.rsl = <<>>,
         s.rr = "CONN_PEND" \/ s.relWait,
         t.rrUp = s.rrUp \/ \E m \in UpRrMsg : m.type \in Loss /\ Grown(t.rrUp, s.rrUp, m)
  PROVE  Inv(t, b)
<1>1. /\ s \in Phones /\ Signals(s, 0) /\ Link(s, 0) /\ AllPending(s)
      /\ ~News(s.rrUp) /\ s.rrUp \in Seq(UpRrMsg)
  BY Resting
<1>2. ~News(t.rrUp) /\ \A i \in 1..Len(t.rrUp) - 1 : t.rrUp[i].type \in Loss
  <2>1. CASE t.rrUp = s.rrUp
    BY <1>1, <2>1 DEF Signals
  <2>2. CASE \E m \in UpRrMsg : m.type \in Loss /\ Grown(t.rrUp, s.rrUp, m)
    <3>1. PICK m \in UpRrMsg : m.type \in Loss /\ Grown(t.rrUp, s.rrUp, m)
      BY <2>2
    <3> DEFINE v == t.rrUp
    <3>2. Grown(v, s.rrUp, m)
      BY <3>1
    <3> HIDE DEF v
    <3>3. /\ News(v) <=> News(s.rrUp) \/ m.type \notin Loss
          /\ ~News(s.rrUp) => \A i \in 1..Len(v) - 1 : v[i].type \in Loss
      BY <1>1, <3>2, UpGrown
    <3> QED
      BY <1>1, <3>1, <3>3 DEF v
  <2> QED
    BY <2>1, <2>2
<1>3. ~Paged(t.rrUp)
  BY <1>2, PagedNews
<1>4. AllPending(t)
  BY <1>1 DEF AllPending, SameUp, SameMm
<1>5. Link(t, b)
  BY <1>3, <1>4 DEF Link
<1>6. Signals(t, b)
  <2>1. t.events = <<>> /\ DOMAIN t.rsl = {}
    BY <1>1 DEF Signals
  <2> QED
    BY <1>2, <2>1 DEF Signals
<1>7. AllPlaced(t)
  BY <1>2, RestPlaced
<1>8. 0 \in 0..1
  OBVIOUS
<1> QED
  BY <1>5, <1>6, <1>7, <1>8, RrMoved

(* Radio resources tell of a loss and are idle. *)
LEMMA LossTold ==
  ASSUME NEW s \in Phones, NEW x, x = RrIdle(RrUp(s, Msg("REL_IND")))
  PROVE  /\ x \in Phones /\ SameUp(s, x) /\ x.rr = "IDLE" /\ x.rrEstReq = FALSE
         /\ x.relWait = s.relWait /\ x.camped = s.camped /\ x.events = s.events /\ x.rsl = s.rsl
         /\ \E m \in UpRrMsg : m.type \in Loss /\ Grown(x.rrUp, s.rrUp, m)
<1> DEFINE m == Msg("REL_IND")
           y == RrUp(s, m)
<1>1. m \in UpRrMsg /\ m.type \in Loss
  BY UpMsgs DEF UpTypes, Loss
<1>2. x = RrIdle(y)
  OBVIOUS
<1> HIDE DEF m
<1>3. /\ y \in Phones /\ SameUp(s, y) /\ y.rr = s.rr /\ y.rrEstReq = s.rrEstReq
      /\ y.relWait = s.relWait /\ y.camped = s.camped /\ y.events = s.events /\ y.rsl = s.rsl
      /\ Grown(y.rrUp, s.rrUp, m)
  BY <1>1, RrUpFields
<1> HIDE DEF y
<1>4. /\ x \in Phones /\ SameUp(y, x) /\ x.rr = "IDLE" /\ x.rrEstReq = FALSE
      /\ x.relWait = y.relWait /\ x.camped = y.camped /\ x.events = y.events /\ x.rsl = y.rsl
      /\ x.rrUp = y.rrUp
  BY <1>2, <1>3, RrIdleFields
<1>5. Grown(x.rrUp, s.rrUp, m)
  BY <1>3, <1>4
<1> QED
  BY <1>1, <1>3, <1>4, <1>5 DEF SameUp, SameCc, SameMm

(* T3126 expires between two rounds. *)
LEMMA T3126Step ==
  ASSUME NEW s, Inv(s, 0), s.rr = "CONN_PEND"
  PROVE  Inv(T3126Expired(s), 0)
<1> DEFINE x == T3126Expired(s)
<1>1. s \in Phones /\ s.rsl = <<>> /\ ~s.camped
  BY Resting
<1>2. /\ x \in Phones /\ SameUp(s, x) /\ x.rr = "IDLE" /\ x.rrEstReq = FALSE
      /\ x.relWait = s.relWait /\ x.camped = s.camped /\ x.events = s.events /\ x.rsl = s.rsl
      /\ x.rrUp = s.rrUp \/ \E m \in UpRrMsg : m.type \in Loss /\ Grown(x.rrUp, s.rrUp, m)
  <2>1. CASE s.rrEstReq
    <3>1. x = RrIdle(RrUp(s, Msg("REL_IND")))
      BY <2>1 DEF T3126Expired
    <3> HIDE DEF x
    <3> QED
      BY <1>1, <3>1, LossTold
  <2>2. CASE ~s.rrEstReq
    <3>1. x = RrIdle(s)
      BY <2>2 DEF T3126Expired
    <3> HIDE DEF x
    <3> QED
      BY <1>1, <3>1, RrIdleFields
  <2> QED
    BY <2>1, <2>2
<1> HIDE DEF x
<1>3. 0 \in 0..1 /\ x.rsl = <<>> /\ ~x.camped /\ ~x.rrEstReq
  BY <1>1, <1>2
<1>4. Inv(x, 0)
  BY <1>2, <1>3, LossRaised
<1> QED
  BY <1>4 DEF x

(* The wait for the release of the channel is over, between two rounds. *)
LEMMA RelWaitStep ==
  ASSUME NEW s, Inv(s, 0), s.relWait
  PROVE  Inv(RelWaitExpired(s), 0)
<1> DEFINE y == RrIdle(s)
           x == RelWaitExpired(s)
<1>1. /\ s \in Phones /\ Signals(s, 0) /\ Link(s, 0) /\ AllPending(s)
      /\ ~News(s.rrUp) /\ ~Paged(s.rrUp) /\ s.rsl = <<>> /\ ~s.camped
  BY Resting
<1>2. x = [y EXCEPT !.relWait = FALSE]
  BY DEF RelWaitExpired
<1>3. /\ y \in Phones /\ SameUp(s, y) /\ y.rr = "IDLE" /\ y.rrEstReq = FALSE
      /\ y.camped = s.camped /\ y.events = s.events /\ y.rsl = s.rsl /\ y.rrUp = s.rrUp
  BY <1>1, RrIdleFields
<1> HIDE DEF x, y
<1>4. /\ x \in Phones /\ SameUp(s, x) /\ x.rr = "IDLE" /\ ~x.rrEstReq /\ ~x.relWait
      /\ x.camped = s.camped /\ x.events = s.events /\ x.rsl = s.rsl /\ x.rrUp = s.rrUp
  BY <1>2, <1>3 DEF Phones, SameUp, SameCc, SameMm
<1>5. AllPending(x)
  BY <1>1, <1>4 DEF AllPending, SameUp, SameMm
<1>6. Link(x, 0)
  BY <1>1, <1>4, <1>5 DEF Link
<1>7. Signals(x, 0)
  BY <1>1, <1>4 DEF Signals
<1>8. AllPlaced(x)
  BY <1>1, <1>4, RestPlaced
<1>9. 0 \in 0..1
  OBVIOUS
<1>10. Inv(x, 0)
  BY <1>4, <1>6, <1>7, <1>8, <1>9, RrMoved
<1> QED
  BY <1>10 DEF x

(* gsm48_cc_timeout between two rounds. *)
LEMMA CcTimerStep ==
  ASSUME NEW s, Inv(s, 0), NEW r \in DOMAIN s.trans
  PROVE  Inv(Expired(s, r), 0)
<1> DEFINE x == Expired(s, r)
<1>1. Core(s, 0) /\ Books(s) /\ BooksBut(s, r)
  BY InvIs, BooksAre
<1>2. Agrees(s, r) /\ r \in Refs
  BY <1>1, CoreAgrees
<1>3. AllGone(s) /\ s.rsl = <<>> /\ ~News(s.rrUp)
  BY Resting
<1>4. PICK told \in {{"REL_IND"}, {"REL_IND", "DISC_IND"}} : Ended(s, x, r, told)
  BY <1>2, ExpiredDoes
<1>5. "SETUP_IND" \notin told /\ "REL_IND" \in told
  OBVIOUS
<1> HIDE DEF x
<1>6. \A m \in Ups(s.mmxx, r) : m.prim \in Gone
  BY <1>2, <1>3 DEF AllGone
<1>7. Core(x, 0)
  BY <1>1, <1>3, <1>4, <1>5, <1>6, EndedCore
<1>8. BooksBut(x, r)
  BY <1>1, <1>4, <1>5, EndedBooksBut
<1>9. (Told(s.mncc, r) \cup told) \cap Over # {}
  BY <1>5 DEF Over
<1>10. Book(x.trans, x.calls, x.mncc, r)
  BY <1>2, <1>4, <1>9, EndedBook
<1>11. Inv(x, 0)
  BY <1>7, <1>8, <1>10, InvIs, BooksAre
<1> QED
  BY <1>11 DEF x

-----------------------------------------------------------------------------
(* The read of a round *)

(* The phone when the user's command is taken *)
Fresh(s) ==
  /\ Inv(s, 1) /\ ~News(s.rrUp)
  /\ s.camped => s.rrUp = <<>> /\ \A i \in DOMAIN s.rsl : s.rsl[i].type # "CELL"

(* A round that reads nothing. *)
LEMMA NothingRead ==
  ASSUME NEW s, Inv(s, 0)
  PROVE  Fresh(s)
<1>1. /\ s \in Phones /\ Signals(s, 0) /\ Link(s, 0) /\ ~News(s.rrUp) /\ s.rsl = <<>>
      /\ s.camped => s.rrUp = <<>>
      /\ s.rr \in {"IDLE", "CONN_PEND"} \/ s.relWait => AllPending(s)
  BY Resting
<1>2. Signals(s, 1)
  BY <1>1 DEF Signals
<1>3. Link(s, 1)
  BY <1>1 DEF Link
<1>4. SameUp(s, s) /\ 0 \in 0..1 /\ 1 \in 0..1
  BY DEF SameUp, SameCc, SameMm
<1>5. AllPlaced(s)
  BY <1>1, RestPlaced
<1>6. Inv(s, 1)
  BY <1>1, <1>2, <1>3, <1>4, <1>5, RrMoved
<1> QED
  BY <1>1, <1>6, EmptyQueue DEF Fresh

(* A round that reads a message of layer 1. *)
LEMMA HeardFresh ==
  ASSUME NEW s, Inv(s, 0), NEW m \in RslMsg, Placed(s, m),
         m.type = "CELL" => s.rr = "IDLE" /\ ~s.relWait /\ ~s.camped,
         NEW t, t = [s EXCEPT !.rsl = Append(@, m)]
  PROVE  Fresh(t)
<1> DEFINE v == Append(s.rsl, m)
<1>1. /\ s \in Phones /\ Signals(s, 0) /\ Link(s, 0) /\ Account(s) /\ ~News(s.rrUp) /\ s.rsl = <<>>
      /\ ~Paged(s.rrUp)
      /\ s.camped => s.rrUp = <<>>
      /\ s.rr \in {"IDLE", "CONN_PEND"} \/ s.relWait => AllPending(s)
  BY Resting
<1>2. v \in Seq(RslMsg) /\ Len(v) = 1 /\ DOMAIN v = {1} /\ v[1] = m /\ v # <<>>
  <2>1. v = <<m>>
    BY <1>1
  <2> QED
    BY <2>1
<1>3. t = [s EXCEPT !.rsl = v]
  BY <1>1 DEF Phones
<1> HIDE DEF v
<1>4. /\ t \in Phones /\ SameUp(s, t) /\ t.rr = s.rr /\ t.rrEstReq = s.rrEstReq
      /\ t.relWait = s.relWait /\ t.camped = s.camped /\ t.rrUp = s.rrUp /\ t.events = s.events
      /\ t.rsl = v
  BY <1>1, <1>2, <1>3, ZenonT(60) DEF Phones, SameUp, SameCc, SameMm
<1>5. Signals(t, 1)
  BY <1>1, <1>2, <1>4 DEF Signals
<1>6. AllPending(s) => AllPending(t)
  BY <1>4 DEF AllPending, SameUp, SameMm
<1>7. Link(t, 1)
  BY <1>1, <1>4, <1>6 DEF Link, SameUp, SameMm
<1>8. AllPlaced(t)
  <2>1. \A z : Placed(s, z) => Placed(t, z)
    BY <1>4 DEF Placed, SameUp, SameMm
  <2>2. \A i \in DOMAIN t.rrUp : Placed(t, t.rrUp[i])
    BY <1>1, <1>4, <2>1 DEF Account
  <2>3. \A i \in DOMAIN t.rsl : Placed(t, t.rsl[i])
    BY <1>2, <1>4, <2>1
  <2> QED
    BY <2>2, <2>3 DEF AllPlaced
<1>9. 0 \in 0..1 /\ 1 \in 0..1
  OBVIOUS
<1>10. Inv(t, 1)
  BY <1>4, <1>5, <1>7, <1>8, <1>9, RrMoved
<1> QED
  BY <1>1, <1>2, <1>4, <1>10 DEF Fresh

(* A round that finds the signal lost. *)
LEMMA LosFresh ==
  ASSUME NEW s, Inv(s, 0), s.rr # "IDLE"
  PROVE  Fresh(Los(s))
<1> DEFINE x == Los(s)
<1>1. /\ s \in Phones /\ Signals(s, 0) /\ Link(s, 0) /\ Account(s) /\ ~News(s.rrUp) /\ s.rsl = <<>>
      /\ ~Paged(s.rrUp) /\ ~s.camped
      /\ s.rr \in {"IDLE", "CONN_PEND"} \/ s.relWait => AllPending(s)
      /\ s.rr = "DEDICATED" => s.rrUp = <<>>
      /\ s.mm \in {"MM_IDLE", "WAIT_NETWORK_CMD"} => AllPending(s)
      /\ s.rrUp \in Seq(UpRrMsg)
  BY Resting
<1>2. CASE s.rr = "CONN_PEND"
  <2>1. x = RrIdle(RrUp(s, Msg("REL_IND")))
    BY <1>2 DEF Los
  <2> HIDE DEF x
  <2>2. /\ x \in Phones /\ SameUp(s, x) /\ x.rr = "IDLE" /\ x.rrEstReq = FALSE
        /\ x.relWait = s.relWait /\ x.camped = s.camped /\ x.events = s.events /\ x.rsl = s.rsl
        /\ \E m \in UpRrMsg : m.type \in Loss /\ Grown(x.rrUp, s.rrUp, m)
    BY <1>1, <2>1, LossTold
  <2>3. 1 \in 0..1 /\ x.rsl = <<>> /\ ~x.camped /\ ~x.rrEstReq
    BY <1>1, <2>2
  <2>4. Inv(x, 1)
    BY <1>2, <2>2, <2>3, LossRaised
  <2>5. ~News(x.rrUp)
    <3>1. PICK m \in UpRrMsg : m.type \in Loss /\ Grown(x.rrUp, s.rrUp, m)
      BY <2>2
    <3> DEFINE v == x.rrUp
    <3>2. Grown(v, s.rrUp, m)
      BY <3>1
    <3> HIDE DEF v
    <3>3. News(v) <=> News(s.rrUp) \/ m.type \notin Loss
      BY <1>1, <3>2, UpGrown
    <3> QED
      BY <1>1, <3>1, <3>3 DEF v
  <2>6. Fresh(x)
    BY <2>3, <2>4, <2>5 DEF Fresh
  <2> QED
    BY <2>6 DEF x
<1>3. CASE s.rr # "CONN_PEND"
  <2> DEFINE m == Msg("REL_CONF")
             v == Append(s.rsl, m)
  <2>1. s.rr \in {"DEDICATED", "REL_PEND"}
    BY <1>1, <1>3 DEF Phones, RrStates
  <2>2. x = [s EXCEPT !.rr = "REL_PEND", !.rsl = Append(@, m)]
    BY <2>1 DEF Los
  <2>3. m \in RslMsg /\ m.type = "REL_CONF"
    BY DEF Msg, RslMsg, RslTypes, RrMsgs
  <2> HIDE DEF m
  <2>4. v \in Seq(RslMsg) /\ Len(v) = 1 /\ DOMAIN v = {1} /\ v[1] = m /\ v # <<>>
    <3>1. v = <<m>>
      BY <1>1
    <3> QED
      BY <2>3, <3>1
  <2>5. x = [s EXCEPT !.rr = "REL_PEND", !.rsl = v]
    BY <1>1, <2>2 DEF Phones
  <2> HIDE DEF v, x
  <2>6. /\ x \in Phones /\ SameUp(s, x) /\ x.rr = "REL_PEND" /\ x.rrEstReq = s.rrEstReq
        /\ x.relWait = s.relWait /\ x.camped = s.camped /\ x.rrUp = s.rrUp /\ x.events = s.events
        /\ x.rsl = v
    BY <1>1, <2>4, <2>5 DEF Phones, SameUp, SameCc, SameMm, RrStates
  <2>7. Signals(x, 1)
    BY <1>1, <2>3, <2>4, <2>6 DEF Signals
  <2>8. AllPending(s) => AllPending(x)
    BY <2>6 DEF AllPending, SameUp, SameMm
  <2>9. Link(x, 1)
    BY <1>1, <2>6, <2>8 DEF Link, SameUp, SameMm
  <2>10. AllPlaced(x)
    <3>1. \A z : Placed(s, z) => Placed(x, z)
      BY <2>6 DEF Placed, SameUp, SameMm
    <3>2. \A i \in DOMAIN x.rrUp : Placed(x, x.rrUp[i])
      BY <1>1, <2>6, <3>1 DEF Account
    <3>3. \A i \in DOMAIN x.rsl : Placed(x, x.rsl[i])
      BY <2>3, <2>4, <2>6 DEF Placed, CcMsgs
    <3> QED
      BY <3>2, <3>3 DEF AllPlaced
  <2>11. 0 \in 0..1 /\ 1 \in 0..1
    OBVIOUS
  <2>12. Inv(x, 1)
    BY <2>6, <2>7, <2>9, <2>10, <2>11, RrMoved
  <2>13. Fresh(x)
    BY <1>1, <2>6, <2>12 DEF Fresh
  <2> QED
    BY <2>13 DEF x
<1> QED
  BY <1>2, <1>3

(* Whatever a round reads, the commands of the user find the layers in
   agreement. *)
LEMMA ReadFresh ==
  ASSUME Inv(ms, 0), NEW s \in Read
  PROVE  Fresh(s)
<1>1. /\ ms \in Phones /\ Account(ms) /\ Signals(ms, 0) /\ Ties(ms)
      /\ ms.camped => ms.rr = "IDLE" /\ ~ms.relWait
  BY Resting
<1>2. CASE s = ms
  BY <1>2, NothingRead
<1>3. CASE s \in Heard({Msg(type) : type \in RrMsgsNow})
  <2>1. PICK type \in RrMsgsNow : s = [ms EXCEPT !.rsl = Append(@, Msg(type))]
    BY <1>3 DEF Heard
  <2>2. /\ type \in RrMsgs \cup {"CM_SERV_ACC", "CM_SERV_REJ", "CM_SERV_REJ_ANY", "MM_ABORT", "MM_ABORT_ILLEGAL"}
        /\ type = "CELL" => ms.rr = "IDLE" /\ ~ms.relWait /\ ~ms.camped
    <3>1. ms.rr \in RrStates
      BY <1>1 DEF Phones
    <3>2. CASE ms.rr = "IDLE"
      BY <1>1, <3>2 DEF RrMsgsNow, RrMsgs
    <3>3. CASE ms.rr = "CONN_PEND"
      BY <3>3 DEF RrMsgsNow, RrMsgs
    <3>4. CASE ms.rr = "DEDICATED"
      BY <3>4 DEF RrMsgsNow, RrMsgs
    <3>5. CASE ms.rr = "REL_PEND"
      BY <3>5 DEF RrMsgsNow, RrMsgs
    <3> QED
      BY <3>1, <3>2, <3>3, <3>4, <3>5 DEF RrStates
  <2> DEFINE m == Msg(type)
  <2>3. m \in RslMsg /\ m.type = type
    BY <2>2 DEF Msg, RslMsg, RslTypes
  <2>4. Placed(ms, m)
    BY <2>2, <2>3 DEF Placed, CcMsgs, RrMsgs
  <2>5. s = [ms EXCEPT !.rsl = Append(@, m)]
    BY <2>1
  <2> HIDE DEF m
  <2> QED
    BY <2>2, <2>3, <2>4, <2>5, HeardFresh
<1>4. CASE s \in Heard(CcMsgsNow)
  <2>1. PICK m \in CcMsgsNow : s = [ms EXCEPT !.rsl = Append(@, m)]
    BY <1>4 DEF Heard
  <2>2. m.type \in CcMsgs /\ m.ti \in Tis /\ ByTi(ms, m.ti) \in Refs /\ m \in RslMsg
    BY DEF CcMsgsNow, RslMsg, RslTypes
  <2>3. Placed(ms, m)
    <3>1. CASE \E i \in DOMAIN ms.conns : ms.conns[i].ti = m.ti
      <4>1. Distinct(ms.conns) /\ ms.conns \in Seq(Conn)
        BY <1>1, PhoneTypes DEF Ties
      <4>2. PICK j \in DOMAIN ms.conns : ms.conns[j].ti = m.ti
        BY <3>1
      <4>3. Joined(ms.conns, ms.conns[j].ref) /\ TiOf(ms.conns, ms.conns[j].ref) = m.ti
        BY <4>1, <4>2, ConnIs
      <4>4. ms.conns[j].ref \in Refs
        BY <4>1, <4>3, JoinedRefs
      <4> QED
        BY <2>2, <4>3, <4>4 DEF Placed
    <3>2. CASE ~ \E i \in DOMAIN ms.conns : ms.conns[i].ti = m.ti
      <4>1. ByTi(ms, m.ti) = ms.mtRef
        BY <3>2 DEF ByTi
      <4>2. ms.mtRef \in MtRefs
        BY <1>1, <2>2, <4>1, MmAssumption DEF Refs, MoRefs, MtBase, Account
      <4> QED
        BY <2>2, <4>2 DEF Placed
    <3> QED
      BY <3>1, <3>2
  <2>4. m.type # "CELL"
    BY <2>2 DEF CcMsgs
  <2> QED
    BY <2>1, <2>2, <2>3, <2>4, HeardFresh
<1>5. CASE s \in Lost
  BY <1>5, LosFresh DEF Lost
<1> QED
  BY <1>2, <1>3, <1>4, <1>5 DEF Read

-----------------------------------------------------------------------------
(* A call is dialled. *)

(* A call r of the user, its transaction, and u, the phone that has them *)
Dialled(s, u, r) ==
  /\ u \in Phones /\ SameRr(s, u) /\ SameMm(s, u) /\ u.mncc = s.mncc /\ u.mmxx = s.mmxx
  /\ u.set = s.set /\ u.moRef = s.moRef + 1
  /\ Turned(s.trans, u.trans, r, "MM_CONNECTION_PEND", NoTi)
  /\ Distinct(u.calls)
  /\ \A q : Listed(u.calls, q) <=> Listed(s.calls, q) \/ q = r
  /\ \A q : Young(u.calls, q) <=> Young(s.calls, q) \/ q = r
  /\ \A q : Rings(u.calls, q) <=> Rings(s.calls, q)
(* MM waits for a connection, or has refused it. *)
Connects(s, x, r) ==
  \/ /\ x.mmxx = s.mmxx /\ \A q : ~Pend(s.conns, q)
     /\ Distinct(x.conns) /\ OneWaits(x.conns) /\ ConnRows(x.conns, s.conns, r, NoTi, "CONN_PEND")
  \/ /\ x.conns = s.conns
     /\ Grown(x.mmxx, s.mmxx, Note("REL_IND", r, NoTi))

(* The reference of the next call dialled is of none before it. *)
LEMMA NextUnused ==
  ASSUME NEW s, NEW a, Inv(s, a), s.moRef \in MoRefs
  PROVE  /\ s.moRef \in Refs /\ Unused(s, s.moRef) /\ s.moRef \in Nat
         /\ \A q \in Refs : Later(s, q) => q = s.moRef \/ IF q \in MoRefs THEN q >= s.moRef + 1 ELSE q >= s.mtRef
         /\ s.moRef + 1 \in 1..MaxMo + 1
<1>1. s.moRef \in Refs /\ s.moRef \in Nat /\ s.moRef + 1 \in 1..MaxMo + 1
  BY MmAssumption DEF Refs, MoRefs
<1>2. Later(s, s.moRef)
  BY <1>1 DEF Later
<1>3. Unused(s, s.moRef)
  BY <1>1, <1>2 DEF Inv, Account
<1>4. \A q \in MoRefs : q >= s.moRef => q = s.moRef \/ q >= s.moRef + 1
  BY <1>1, MmAssumption DEF MoRefs
<1> QED
  BY <1>1, <1>3, <1>4 DEF Later

(* Opaque, as Grown is *)
Booked(s, t, v, n) ==
  \E b \in BOOLEAN : t = [s EXCEPT !.calls = v, !.moRef = n + 1, !.barred = b]
Begins(t, u, r) == u = Keep(Alloc(t, r, NoTi), r, "MM_CONNECTION_PEND")

(* mncc_call: the call is entered, with the next reference. *)
LEMMA CallKept ==
  ASSUME NEW s \in Phones, NEW v \in Seq(Call), NEW n \in Nat, NEW t, Booked(s, t, v, n)
  PROVE  /\ t \in Phones /\ SameRr(s, t) /\ SameMm(s, t) /\ SameCc(s, t) /\ t.set = s.set
         /\ t.moRef = n + 1 /\ t.calls = v
<1> DEFINE k == n + 1
<1>1. PICK b \in BOOLEAN : t = [s EXCEPT !.calls = v, !.moRef = k, !.barred = b]
  BY DEF Booked
<1>3. k \in Nat
  OBVIOUS
<1> HIDE DEF k
<1>2. t \in Phones
  BY <1>1, <1>3 DEF Phones
<1> QED
  BY <1>1, <1>2 DEF Phones, SameRr, SameMm, SameCc, k

(* mncc_tx_to_cc: a transaction is made that waits for its connection. *)
LEMMA TransMade ==
  ASSUME NEW t \in Phones, NEW r \in Refs, NEW u, Begins(t, u, r)
  PROVE  /\ u \in Phones /\ SameRr(t, u) /\ SameApp(t, u) /\ SameMm(t, u)
         /\ u.mncc = t.mncc /\ u.mmxx = t.mmxx
         /\ Turned(t.trans, u.trans, r, "MM_CONNECTION_PEND", NoTi)
<1> DEFINE w == [state |-> "NULL", ti |-> NoTi, timer |-> "none"]
<1>1. w \in Trans
  BY DEF Trans, CcStates, CcTimers
<1> DEFINE z == [w EXCEPT !.state = "MM_CONNECTION_PEND"]
<1>2. z \in Trans /\ z.state = "MM_CONNECTION_PEND" /\ z.ti = NoTi
  BY DEF Trans, CcStates, CcTimers
<1> DEFINE y == Put(t, r, w)
<1>3. y = Alloc(t, r, NoTi)
  BY DEF Alloc
<1> HIDE DEF w
<1>4. /\ y \in Phones /\ SameRr(t, y) /\ SameApp(t, y)
      /\ y.conns = t.conns /\ y.mm = t.mm /\ y.mtRef = t.mtRef
      /\ y.mncc = t.mncc /\ y.mmxx = t.mmxx
      /\ Turned(t.trans, y.trans, r, w.state, w.ti) /\ y.trans[r] = w
  BY <1>1, PutFields
<1> HIDE DEF y
<1>5. u = Put(y, r, z)
  BY <1>3, <1>4 DEF Keep, Begins
<1> HIDE DEF z
<1>6. /\ u \in Phones /\ SameRr(y, u) /\ SameApp(y, u)
      /\ u.conns = y.conns /\ u.mm = y.mm /\ u.mtRef = y.mtRef
      /\ u.mncc = y.mncc /\ u.mmxx = y.mmxx
      /\ Turned(y.trans, u.trans, r, z.state, z.ti)
  BY <1>2, <1>4, <1>5, PutFields
<1>7. Turned(t.trans, u.trans, r, "MM_CONNECTION_PEND", NoTi)
  BY <1>2, <1>4, <1>6 DEF Turned
<1> QED
  BY <1>4, <1>6, <1>7 DEF SameRr, SameMm, SameApp

(* Of a call as the user has just dialled it *)
IsNew(c, r) == c \in Call /\ c.ref = r /\ c.init /\ ~c.ring

(* The list of the user with the call dialled, by references. *)
LEMMA CallGrown ==
  ASSUME NEW calls \in Seq(Call), Distinct(calls), NEW r, ~Listed(calls, r), NEW c, IsNew(c, r),
         NEW v, Grown(v, calls, c)
  PROVE  /\ v \in Seq(Call) /\ Distinct(v)
         /\ \A q : Listed(v, q) <=> Listed(calls, q) \/ q = r
         /\ \A q : Young(v, q) <=> Young(calls, q) \/ q = r
         /\ \A q : Rings(v, q) <=> Rings(calls, q)
<1>1. c \in Call /\ ~Listed(calls, c.ref)
  BY DEF IsNew
<1>2. v = Append(calls, c)
  BY DEF Grown
<1>3. /\ v \in Seq(Call) /\ Distinct(v)
      /\ \A q : Listed(v, q) <=> Listed(calls, q) \/ q = c.ref
      /\ \A q : Young(v, q) <=> Young(calls, q) \/ (q = c.ref /\ c.init)
      /\ \A q : Rings(v, q) <=> Rings(calls, q) \/ (q = c.ref /\ c.ring)
  BY <1>1, <1>2, CallAdded
<1> QED
  BY <1>3 DEF IsNew

(* The call is entered and its transaction made. *)
LEMMA CallDialled ==
  ASSUME NEW s, NEW a, Inv(s, a), s.moRef \in MoRefs, NEW r, r = s.moRef,
         NEW c, IsNew(c, r), NEW v, Grown(v, s.calls, c),
         NEW t, Booked(s, t, v, r), NEW u, Begins(t, u, r)
  PROVE  Dialled(s, u, r)
<1>1. /\ s \in Phones /\ s.calls \in Seq(Call) /\ Distinct(s.calls) /\ r \in Refs
      /\ ~Listed(s.calls, r) /\ r \notin DOMAIN s.trans /\ r \in Nat
  BY NextUnused, PhoneTypes DEF Inv, Books, Unused
<1>2. /\ v \in Seq(Call) /\ Distinct(v)
      /\ \A q : Listed(v, q) <=> Listed(s.calls, q) \/ q = r
      /\ \A q : Young(v, q) <=> Young(s.calls, q) \/ q = r
      /\ \A q : Rings(v, q) <=> Rings(s.calls, q)
  BY <1>1, CallGrown
<1>3. /\ t \in Phones /\ SameRr(s, t) /\ SameMm(s, t) /\ SameCc(s, t) /\ t.set = s.set
      /\ t.moRef = r + 1 /\ t.calls = v
  BY <1>1, <1>2, CallKept
<1>4. /\ u \in Phones /\ SameRr(t, u) /\ SameApp(t, u) /\ SameMm(t, u)
      /\ u.mncc = t.mncc /\ u.mmxx = t.mmxx
      /\ Turned(t.trans, u.trans, r, "MM_CONNECTION_PEND", NoTi)
  BY <1>1, <1>3, TransMade
<1>5. /\ SameRr(s, u) /\ SameMm(s, u) /\ u.mncc = s.mncc /\ u.mmxx = s.mmxx
      /\ u.set = s.set /\ u.moRef = s.moRef + 1 /\ u.calls = v
      /\ Turned(s.trans, u.trans, r, "MM_CONNECTION_PEND", NoTi)
  BY <1>3, <1>4 DEF SameRr, SameMm, SameCc, SameApp
<1> QED
  BY <1>2, <1>4, <1>5 DEF Dialled

(* The new call, its transaction and its connection belong together; the
   others stay. *)
LEMMA DialledRow ==
  ASSUME NEW s, NEW a, Inv(s, a), AllGone(s), NEW r, Unused(s, r), r \in Refs,
         NEW u, Dialled(s, u, r), NEW x, Connects(s, x, r)
  PROVE  /\ Tie(u.trans, x.conns, x.mmxx, r) /\ Book(u.trans, u.calls, u.mncc, r)
         /\ \A q \in Refs : q # r =>
              /\ TransRow(s, u, q) /\ ConnRow(s, x, q) /\ CallRow(s, u, q)
              /\ Ups(x.mmxx, q) = Ups(s.mmxx, q)
         /\ Distinct(x.conns) /\ OneWaits(x.conns) /\ ToldOnce(x.mmxx)
         /\ \A q \in Refs : \A m \in Ups(x.mmxx, q) : m.prim \in Gone
<1> DEFINE n == Note("REL_IND", r, NoTi)
<1>1. /\ s \in Phones /\ Ties(s) /\ s.mmxx \in Seq(MmxxMsg) /\ s.conns \in Seq(Conn)
      /\ Distinct(s.conns) /\ OneWaits(s.conns) /\ ToldOnce(s.mmxx)
  BY PhoneTypes DEF Inv, Ties
<1>2. /\ r \notin DOMAIN s.trans /\ ~Joined(s.conns, r) /\ ~Listed(s.calls, r)
      /\ Ups(s.mmxx, r) = {} /\ Told(s.mncc, r) = {}
  BY DEF Unused
<1>3. /\ r \in DOMAIN u.trans /\ u.trans[r].state = "MM_CONNECTION_PEND" /\ u.trans[r].ti = NoTi
      /\ \A q : q # r => (q \in DOMAIN u.trans <=> q \in DOMAIN s.trans)
      /\ \A q : q # r /\ q \in DOMAIN s.trans => u.trans[q] = s.trans[q]
  BY DEF Dialled, Turned
<1>4. n \in MmxxMsg /\ n.prim = "REL_IND" /\ n.ref = r /\ n.ti = NoTi /\ n.prim \in Gone
  <2>1. "REL_IND" \in MmxxPrims /\ NoTi \in Tis \cup {NoTi}
    BY DEF MmxxPrims, Gone
  <2> QED
    BY <2>1, NoteFields DEF Gone
<1> HIDE DEF n
<1>5. ~Rings(s.calls, r) /\ ~Pend(s.conns, r)
  BY <1>2, PendJoined DEF Rings, Listed
<1>6. Book(u.trans, u.calls, u.mncc, r)
  <2>1. Listed(u.calls, r) /\ Young(u.calls, r) /\ ~Rings(u.calls, r) /\ Told(u.mncc, r) = {}
    BY <1>2, <1>5 DEF Dialled
  <2> QED
    BY <1>3, <2>1 DEF Book, Over, RingStates
<1>7. ASSUME NEW q \in Refs, q # r
      PROVE  TransRow(s, u, q) /\ CallRow(s, u, q)
  BY <1>3, <1>7 DEF TransRow, CallRow, Dialled
<1>8. CASE /\ x.mmxx = s.mmxx /\ \A q : ~Pend(s.conns, q)
           /\ Distinct(x.conns) /\ OneWaits(x.conns)
           /\ ConnRows(x.conns, s.conns, r, NoTi, "CONN_PEND")
  <2>1. Joined(x.conns, r) /\ Pend(x.conns, r) /\ TiOf(x.conns, r) = NoTi /\ Ups(x.mmxx, r) = {}
    BY <1>2, <1>8 DEF ConnRows
  <2>2. Tie(u.trans, x.conns, x.mmxx, r)
    BY <1>3, <2>1 DEF Tie
  <2>3. ASSUME NEW q \in Refs, q # r PROVE ConnRow(s, x, q) /\ Ups(x.mmxx, q) = Ups(s.mmxx, q)
    BY <1>8, <2>3 DEF ConnRows, ConnRow
  <2> QED
    BY <1>1, <1>6, <1>7, <1>8, <2>2, <2>3 DEF AllGone
<1>9. CASE x.conns = s.conns /\ Grown(x.mmxx, s.mmxx, n)
  <2> DEFINE v == x.mmxx
  <2>1. Grown(v, s.mmxx, n)
    BY <1>9
  <2> HIDE DEF v
  <2>2. /\ \A q : Ups(v, q) = IF q = n.ref THEN Ups(s.mmxx, q) \cup {n} ELSE Ups(s.mmxx, q)
        /\ ToldOnce(s.mmxx) /\ n.prim \in Gone => ToldOnce(v)
    BY <1>1, <1>4, <2>1, UpsAppend
  <2>3. Ups(v, r) = {n} /\ ToldOnce(v)
    BY <1>1, <1>2, <1>4, <2>2
  <2>4. Tie(u.trans, x.conns, v, r)
    BY <1>2, <1>3, <1>4, <1>5, <1>9, <2>3 DEF Tie
  <2>5. ASSUME NEW q \in Refs, q # r PROVE ConnRow(s, x, q) /\ Ups(v, q) = Ups(s.mmxx, q)
    BY <1>4, <1>9, <2>2, <2>5 DEF ConnRow
  <2>6. \A q \in Refs : \A m \in Ups(v, q) : m.prim \in Gone
    <3>1. \A q \in Refs : q = r \/ Ups(v, q) = Ups(s.mmxx, q)
      BY <2>5
    <3> QED
      BY <1>4, <2>3, <3>1 DEF AllGone
  <2> QED
    BY <1>1, <1>6, <1>7, <1>9, <2>3, <2>4, <2>5, <2>6 DEF v
<1> QED
  BY <1>8, <1>9 DEF Connects, n

(* What MM must show for the invariant, when a call was dialled. *)
LEMMA DialledHandled ==
  ASSUME NEW s, Inv(s, 1), s.moRef \in MoRefs, NEW u, Dialled(s, u, s.moRef),
         NEW x \in Phones, Connects(s, x, s.moRef),
         x.trans = u.trans, x.mncc = u.mncc, x.calls = u.calls, x.moRef = u.moRef,
         x.mtRef = u.mtRef, Signals(x, 1), Link(x, 1),
         x.rsl = s.rsl, x.rrUp = s.rrUp \/ ~News(x.rrUp)
  PROVE  Inv(x, 1)
<1> DEFINE r == s.moRef
<1>1. /\ s \in Phones /\ Ties(s) /\ Books(s) /\ Tied(s) /\ AllGone(s) /\ NoSetup(s) /\ Account(s)
  BY DEF Inv, Quiet
<1>2. /\ r \in Refs /\ Unused(s, r) /\ r \in Nat
      /\ \A q \in Refs : Later(s, q) => q = r \/ IF q \in MoRefs THEN q >= r + 1 ELSE q >= s.mtRef
      /\ r + 1 \in 1..MaxMo + 1
  BY NextUnused
<1>3. /\ x.moRef = r + 1 /\ x.mtRef = s.mtRef /\ x.mncc = s.mncc /\ Distinct(x.calls)
      /\ Turned(s.trans, x.trans, r, "MM_CONNECTION_PEND", NoTi)
  BY DEF Dialled, SameMm
<1> HIDE DEF r
<1>4. /\ Tie(u.trans, x.conns, x.mmxx, r) /\ Book(u.trans, u.calls, u.mncc, r)
      /\ \A q \in Refs : q # r =>
              /\ TransRow(s, u, q) /\ ConnRow(s, x, q) /\ CallRow(s, u, q)
              /\ Ups(x.mmxx, q) = Ups(s.mmxx, q)
      /\ Distinct(x.conns) /\ OneWaits(x.conns) /\ ToldOnce(x.mmxx)
      /\ \A q \in Refs : \A m \in Ups(x.mmxx, q) : m.prim \in Gone
  BY <1>1, <1>2, DialledRow DEF r
<1>5. ASSUME NEW q \in Refs, q # r
      PROVE  /\ TransRow(s, x, q) /\ ConnRow(s, x, q) /\ CallRow(s, x, q)
             /\ Ups(x.mmxx, q) = Ups(s.mmxx, q) /\ Told(x.mncc, q) = Told(s.mncc, q)
  BY <1>3, <1>4, <1>5 DEF TransRow, CallRow
<1>6. ASSUME NEW q \in Refs PROVE Tie(x.trans, x.conns, x.mmxx, q)
  <2>1. CASE q = r
    BY <1>4, <2>1
  <2>2. CASE q # r
    BY <1>1, <1>5, <2>2, TieRow DEF Ties
  <2> QED
    BY <2>1, <2>2
<1>7. ASSUME NEW q \in Refs PROVE Book(x.trans, x.calls, x.mncc, q)
  <2>1. CASE q = r
    BY <1>4, <2>1
  <2>2. CASE q # r
    BY <1>1, <1>5, <2>2, BookRow DEF Books
  <2> QED
    BY <2>1, <2>2
<1>8. OwnIdentifiers(x.trans)
  <2>1. OwnIdentifiers(s.trans) /\ r \notin DOMAIN s.trans
    BY <1>1, <1>2 DEF Ties, Unused
  <2> QED
    BY <1>3, <2>1 DEF OwnIdentifiers, Turned
<1>9. Ties(x)
  BY <1>4, <1>6, <1>8 DEF Ties
<1>10. Books(x)
  BY <1>1, <1>3, <1>7 DEF Books
<1>11. Quiet(x, 1)
  BY <1>1, <1>3, <1>4 DEF Quiet, AllGone, NoSetup
<1>12. Tied(x)
  <2> SUFFICES ASSUME NEW q \in DOMAIN x.trans, x.trans[q].ti # NoTi PROVE Joined(x.conns, q)
    BY DEF Tied
  <2>1. q # r /\ q \in DOMAIN s.trans /\ x.trans[q] = s.trans[q] /\ q \in Refs
    <3>1. q \in Refs
      BY PhoneTypes
    <3> QED
      BY <1>3, <3>1 DEF Turned
  <2>2. Joined(s.conns, q)
    BY <1>1, <2>1 DEF Tied
  <2> QED
    BY <1>5, <2>1, <2>2 DEF ConnRow
<1>13. ASSUME NEW q \in Refs, Later(x, q) PROVE Unused(x, q)
  <2>1. Later(s, q) /\ q # r
    BY <1>2, <1>3, <1>13, Identifiers DEF Later, MoRefs, r
  <2>2. Unused(s, q)
    BY <1>1, <2>1 DEF Account
  <2> QED
    BY <1>5, <2>1, <2>2, UnusedRow
<1>14. ASSUME NEW m, Placed(s, m) PROVE Placed(x, m)
  <2>1. ~Joined(s.conns, r)
    BY <1>2 DEF Unused
  <2>2. ASSUME NEW q \in Refs, Joined(s.conns, q), TiOf(s.conns, q) = m.ti
        PROVE  Joined(x.conns, q) /\ TiOf(x.conns, q) = m.ti
    <3>1. q # r
      BY <2>1, <2>2
    <3> QED
      BY <1>5, <2>2, <3>1 DEF ConnRow
  <2> QED
    BY <1>3, <1>14, <2>2 DEF Placed
<1>15. \A i \in DOMAIN x.rsl : Placed(x, x.rsl[i])
  BY <1>1, <1>14 DEF Account
<1>16. \A i \in DOMAIN x.rrUp : Placed(x, x.rrUp[i])
  <2>1. CASE x.rrUp = s.rrUp
    BY <1>1, <1>14, <2>1 DEF Account
  <2>2. CASE ~News(x.rrUp)
    BY <2>2 DEF News, Placed, Loss, CcMsgs
  <2> QED
    BY <2>1, <2>2
<1>17. Account(x)
  BY <1>1, <1>2, <1>3, <1>13, <1>15, <1>16 DEF Account
<1> QED
  BY <1>9, <1>10, <1>11, <1>12, <1>17 DEF Inv

(* Whether the cell is barred is forgotten, and nothing else changes. *)
LEMMA BarredOver ==
  ASSUME NEW y \in Phones, NEW x, x = [y EXCEPT !.barred = FALSE]
  PROVE  x \in Phones /\ SameRr(y, x) /\ SameUp(y, x)
<1>1. x \in Phones
  BY DEF Phones
<1> QED
  BY <1>1 DEF Phones, SameRr, SameUp, SameCc, SameMm

(* Only the state of MM is set. *)
LEMMA MmSet ==
  ASSUME NEW y \in Phones, NEW mm \in MmStates, NEW x, x = [y EXCEPT !.mm = mm]
  PROVE  /\ x \in Phones /\ SameRr(y, x) /\ SameCc(y, x) /\ SameApp(y, x)
         /\ x.mm = mm /\ x.conns = y.conns /\ x.mtRef = y.mtRef
<1>1. x \in Phones
  BY DEF Phones
<1> QED
  BY <1>1 DEF Phones, SameRr, SameCc, SameApp

(* MM waits for one more connection, with T3230. *)
LEMMA MmWaitsAdd ==
  ASSUME NEW y \in Phones, NEW x, x = [y EXCEPT !.mm = "WAIT_ADD_OUT_MM_CON", !.t3230 = TRUE]
  PROVE  /\ x \in Phones /\ SameRr(y, x) /\ SameCc(y, x) /\ SameApp(y, x)
         /\ x.mm = "WAIT_ADD_OUT_MM_CON" /\ x.conns = y.conns /\ x.mtRef = y.mtRef
<1>1. x \in Phones
  BY DEF Phones, MmStates
<1> QED
  BY <1>1 DEF Phones, SameRr, SameCc, SameApp

(* gsm48_rr_est_req: a channel is asked for. *)
LEMMA ChannelAsked ==
  ASSUME NEW y \in Phones, NEW x,
         x = [y EXCEPT !.rr = "CONN_PEND", !.rrEstReq = TRUE, !.camped = FALSE]
  PROVE  /\ x \in Phones /\ SameUp(y, x) /\ x.rr = "CONN_PEND" /\ x.rrEstReq /\ ~x.camped
         /\ x.relWait = y.relWait /\ x.rsl = y.rsl /\ x.rrUp = y.rrUp /\ x.events = y.events
<1>1. x \in Phones
  BY DEF Phones, RrStates
<1> QED
  BY <1>1 DEF Phones, SameUp, SameCc, SameMm

(* MM tells call control of an end, and nothing else changes. *)
LEMMA UpFields ==
  ASSUME NEW s \in Phones, NEW r \in Refs, NEW ti \in Tis \cup {NoTi}, NEW x,
         x = Up(s, "REL_IND", r, ti)
  PROVE  /\ x \in Phones /\ SameRr(s, x) /\ SameApp(s, x) /\ SameMm(s, x)
         /\ x.trans = s.trans /\ x.mncc = s.mncc
         /\ Grown(x.mmxx, s.mmxx, Note("REL_IND", r, ti))
<1> DEFINE n == Note("REL_IND", r, ti)
           v == Append(s.mmxx, n)
<1>1. s.mmxx \in Seq(MmxxMsg)
  BY PhoneTypes
<1>2. n \in MmxxMsg
  BY NoteFields DEF MmxxPrims, Gone
<1>3. v \in Seq(MmxxMsg)
  BY <1>1, <1>2
<1>4. x = [s EXCEPT !.mmxx = v]
  BY DEF Up, Note, Phones
<1>5. Grown(v, s.mmxx, n)
  BY DEF Grown
<1> HIDE DEF v, n
<1>6. x \in Phones /\ x.mmxx = v
  BY <1>3, <1>4, ZenonT(60) DEF Phones
<1>7. SameRr(s, x) /\ SameApp(s, x) /\ SameMm(s, x) /\ x.trans = s.trans /\ x.mncc = s.mncc
  BY <1>4 DEF Phones, SameRr, SameApp, SameMm
<1> QED
  BY <1>5, <1>6, <1>7 DEF n

(* MM has a new connection that it waits for, and nobody waits for another. *)
LEMMA OpenDone ==
  ASSUME NEW s, Inv(s, 1), s.moRef \in MoRefs, NEW u, Dialled(s, u, s.moRef), ~HasPending(u),
         NEW open, open = NewConn(u, s.moRef, NoTi, "CONN_PEND")
  PROVE  /\ open \in Phones /\ SameRr(s, open) /\ SameApp(u, open) /\ open.mm = s.mm
         /\ open.mtRef = u.mtRef /\ open.trans = u.trans /\ open.mncc = u.mncc
         /\ Connects(s, open, s.moRef)
         /\ AllPending(s) => AllPending(open)
         /\ open.mmxx = s.mmxx
<1> DEFINE r == s.moRef
<1>1. /\ u \in Phones /\ r \in Refs /\ Distinct(u.conns) /\ ~Joined(u.conns, r)
      /\ NoTi \in Tis \cup {NoTi} /\ u.conns = s.conns /\ u.mmxx = s.mmxx /\ u.mm = s.mm
      /\ SameRr(s, u)
  <2>1. Unused(s, r) /\ r \in Refs
    BY NextUnused
  <2>2. Distinct(s.conns)
    BY DEF Inv, Ties
  <2> QED
    BY <2>1, <2>2 DEF Dialled, SameMm, Unused
<1>2. \A q : ~Pend(s.conns, q)
  BY <1>1, NonePending
<1> DEFINE st == "CONN_PEND"
<1>3. st \in {"IDLE", "CONN_PEND", "DEDICATED"}
  OBVIOUS
<1>4. open = NewConn(u, r, NoTi, st)
  OBVIOUS
<1> HIDE DEF st, r
<1>5. /\ open \in Phones /\ SameRr(u, open) /\ SameApp(u, open)
      /\ open.mm = u.mm /\ open.mtRef = u.mtRef /\ open.trans = u.trans
      /\ open.mncc = u.mncc /\ open.mmxx = u.mmxx /\ Distinct(open.conns)
      /\ ConnRows(open.conns, u.conns, r, NoTi, st)
      /\ (\A q : ~Pend(u.conns, q)) => OneWaits(open.conns)
  BY <1>1, <1>3, <1>4, NewConnFields
<1>6. SameRr(s, open)
  BY <1>1, <1>5 DEF SameRr
<1>7. Connects(s, open, r)
  BY <1>1, <1>2, <1>5 DEF Connects, st
<1>8. AllPending(s) => AllPending(open)
  BY <1>1, <1>5 DEF AllPending, ConnRows, st
<1> QED
  BY <1>1, <1>5, <1>6, <1>7, <1>8 DEF r

(* The connection of the call, when connections and messages stay. *)
LEMMA ConnectsSame ==
  ASSUME NEW s, NEW y, NEW x, NEW r, Connects(s, y, r), x.conns = y.conns, x.mmxx = y.mmxx
  PROVE  Connects(s, x, r)
  BY DEF Connects

(* A call dialled when MM is idle: a channel is asked for. *)
LEMMA AskedRr ==
  ASSUME NEW s, Fresh(s), s.moRef \in MoRefs, NEW u, Dialled(s, u, s.moRef), ~HasPending(u),
         u.mm = "MM_IDLE", NEW open, open = NewConn(u, s.moRef, NoTi, "CONN_PEND"),
         NEW x, x = [[RrEstReq(open) EXCEPT !.mm = "WAIT_RR_CONN_MM_CON"] EXCEPT !.barred = FALSE]
  PROVE  Inv(x, 1)
<1> DEFINE z == RrEstReq(open)
           y == [z EXCEPT !.mm = "WAIT_RR_CONN_MM_CON"]
<1>1. /\ Inv(s, 1) /\ ~News(s.rrUp) /\ s \in Phones /\ Signals(s, 1) /\ Link(s, 1) /\ ~Paged(s.rrUp)
      /\ s.camped => s.rrUp = <<>> /\ \A i \in DOMAIN s.rsl : s.rsl[i].type # "CELL"
  BY PagedNews DEF Fresh, Inv
<1>2. /\ open \in Phones /\ SameRr(s, open) /\ SameApp(u, open) /\ open.mm = s.mm
      /\ open.mtRef = u.mtRef /\ open.trans = u.trans /\ open.mncc = u.mncc
      /\ Connects(s, open, s.moRef) /\ open.mmxx = s.mmxx
      /\ AllPending(s) => AllPending(open)
  BY <1>1, OpenDone
<1>3. /\ s.mm = "MM_IDLE" /\ s.rr # "DEDICATED" /\ AllPending(open)
      /\ s.rr = "CONN_PEND" => ~s.rrEstReq
  <2>1. s.mm = "MM_IDLE"
    BY DEF Dialled, SameMm
  <2> QED
    BY <1>1, <1>2, <2>1 DEF Link
<1> SUFFICES ASSUME z \in Phones, SameUp(open, z), z.rsl = s.rsl, z.events = s.events,
                    z.relWait = s.relWait, z.rr # "DEDICATED",
                    z.rrUp = s.rrUp \/ ~News(z.rrUp), ~Paged(z.rrUp), ~News(z.rrUp),
                    Signals(z, 1)
             PROVE  Inv(x, 1)
  <2>1. /\ open.rr = s.rr /\ open.rrEstReq = s.rrEstReq /\ open.relWait = s.relWait
        /\ open.camped = s.camped /\ open.rsl = s.rsl /\ open.rrUp = s.rrUp
        /\ open.events = s.events
    BY <1>2 DEF SameRr
  <2>2. CASE s.rr # "IDLE" \/ ~s.camped \/ open.barred
    <3> DEFINE n == Msg("REL_IND")
    <3>1. z = RrUp(open, n)
      BY <2>1, <2>2 DEF RrEstReq
    <3>2. n \in UpRrMsg /\ n.type = "REL_IND" /\ n.type \in Loss
      BY UpMsgs DEF UpTypes, Loss
    <3> HIDE DEF n, z
    <3>3. /\ z \in Phones /\ SameUp(open, z) /\ z.rr = open.rr /\ z.rrEstReq = open.rrEstReq
          /\ z.relWait = open.relWait /\ z.camped = open.camped /\ z.events = open.events
          /\ z.rsl = open.rsl /\ Grown(z.rrUp, open.rrUp, n) /\ z.rrUp # <<>>
      BY <1>2, <3>1, <3>2, RrUpFields
    <3> DEFINE v == z.rrUp
    <3>4. s.rrUp \in Seq(UpRrMsg) /\ Grown(v, s.rrUp, n)
      BY <1>1, <2>1, <3>3, PhoneTypes
    <3> HIDE DEF v
    <3>5. /\ News(v) <=> News(s.rrUp) \/ n.type \notin Loss
          /\ Paged(v) <=> Paged(s.rrUp) \/ n.type = "EST_IND"
          /\ ~News(s.rrUp) => \A i \in 1..Len(v) - 1 : v[i].type \in Loss
      BY <3>2, <3>4, UpGrown
    <3>6. ~News(v) /\ ~Paged(v) /\ \A i \in 1..Len(v) - 1 : v[i].type \in Loss
      BY <1>1, <3>2, <3>5
    <3>7. Signals(z, 1)
      BY <1>1, <1>3, <2>1, <3>3, <3>6 DEF Signals, v
    <3> QED
      BY <1>3, <2>1, <3>3, <3>6, <3>7 DEF v
  <2>3. CASE ~(s.rr # "IDLE" \/ ~s.camped \/ open.barred)
    <3>1. z = [open EXCEPT !.rr = "CONN_PEND", !.rrEstReq = TRUE, !.camped = FALSE]
      BY <2>1, <2>3 DEF RrEstReq
    <3> HIDE DEF z
    <3>2. /\ z \in Phones /\ SameUp(open, z) /\ z.rr = "CONN_PEND" /\ z.rrEstReq /\ ~z.camped
          /\ z.relWait = open.relWait /\ z.rsl = open.rsl /\ z.rrUp = open.rrUp
          /\ z.events = open.events
      BY <1>2, <3>1, ChannelAsked, ZenonT(60)
    <3>3. s.rr = "IDLE" /\ s.camped /\ ~s.relWait /\ s.rrUp = <<>>
      BY <1>1, <2>3 DEF Signals
    <3>4. z.rrUp = <<>> /\ z.rsl = s.rsl /\ ~z.relWait
      BY <2>1, <3>2, <3>3
    <3>5. ~News(z.rrUp) /\ ~Paged(z.rrUp) /\ DOMAIN z.rrUp = {}
      BY <3>4, EmptyQueue
    <3>6. Signals(z, 1)
      BY <1>1, <3>2, <3>3, <3>4, <3>5 DEF Signals
    <3> QED
      BY <2>1, <3>2, <3>4, <3>5, <3>6
  <2> QED
    BY <2>2, <2>3
<1>14. x = [y EXCEPT !.barred = FALSE]
  OBVIOUS
<1>4. y \in Phones
  <2>1. "WAIT_RR_CONN_MM_CON" \in MmStates
    BY DEF MmStates
  <2> HIDE DEF z
  <2> QED
    BY <2>1, MmSet
<1>5. /\ SameRr(z, y) /\ SameCc(z, y) /\ SameApp(z, y)
      /\ y.mm = "WAIT_RR_CONN_MM_CON" /\ y.conns = z.conns /\ y.mtRef = z.mtRef
  <2>1. "WAIT_RR_CONN_MM_CON" \in MmStates
    BY DEF MmStates
  <2> HIDE DEF z
  <2> QED
    BY <2>1, MmSet
<1> HIDE DEF y, z
<1>6. x \in Phones /\ SameRr(y, x) /\ SameUp(y, x)
  BY <1>4, <1>14, BarredOver
<1>7. SameRr(z, x)
  BY <1>5, <1>6 DEF SameRr
<1>8. /\ x.conns = open.conns /\ x.mmxx = open.mmxx /\ x.trans = u.trans /\ x.mncc = u.mncc
      /\ x.calls = u.calls /\ x.moRef = u.moRef /\ x.mtRef = u.mtRef
      /\ x.mm = "WAIT_RR_CONN_MM_CON"
  BY <1>2, <1>5, <1>6 DEF SameUp, SameCc, SameMm, SameApp
<1>9. x.rsl = s.rsl /\ ~News(x.rrUp) /\ ~Paged(x.rrUp) /\ x.rr # "DEDICATED"
  BY <1>7 DEF SameRr
<1>10. Signals(x, 1)
  BY <1>7, SignalsSame
<1>11. AllPending(x)
  BY <1>3, <1>8 DEF AllPending
<1>12. Link(x, 1)
  BY <1>8, <1>9, <1>11 DEF Link
<1>13. Connects(s, x, s.moRef)
  BY <1>2, <1>8, ConnectsSame, ZenonT(60)
<1> QED
  BY <1>1, <1>6, <1>8, <1>9, <1>10, <1>12, <1>13, DialledHandled

(* A call dialled on a channel that is had: one more connection is asked
   for. *)
LEMMA AskedMore ==
  ASSUME NEW s, Fresh(s), s.moRef \in MoRefs, NEW u, Dialled(s, u, s.moRef), ~HasPending(u),
         u.mm = "MM_CONN_ACTIVE", NEW open, open = NewConn(u, s.moRef, NoTi, "CONN_PEND"),
         NEW x, x = [[open EXCEPT !.mm = "WAIT_ADD_OUT_MM_CON", !.t3230 = TRUE] EXCEPT !.barred = FALSE]
  PROVE  Inv(x, 1)
<1> DEFINE y == [open EXCEPT !.mm = "WAIT_ADD_OUT_MM_CON", !.t3230 = TRUE]
<1>1. /\ Inv(s, 1) /\ ~News(s.rrUp) /\ s \in Phones /\ Signals(s, 1) /\ Link(s, 1) /\ ~Paged(s.rrUp)
  BY PagedNews DEF Fresh, Inv
<1>2. /\ open \in Phones /\ SameRr(s, open) /\ SameApp(u, open) /\ open.mm = s.mm
      /\ open.mtRef = u.mtRef /\ open.trans = u.trans /\ open.mncc = u.mncc
      /\ Connects(s, open, s.moRef) /\ open.mmxx = s.mmxx
      /\ AllPending(s) => AllPending(open)
  BY <1>1, OpenDone
<1>3. s.mm = "MM_CONN_ACTIVE"
  BY DEF Dialled, SameMm
<1>4. /\ y \in Phones /\ SameRr(open, y) /\ SameCc(open, y) /\ SameApp(open, y)
      /\ y.mm = "WAIT_ADD_OUT_MM_CON" /\ y.conns = open.conns /\ y.mtRef = open.mtRef
  BY <1>2, MmWaitsAdd
<1>5. x = [y EXCEPT !.barred = FALSE]
  OBVIOUS
<1> HIDE DEF y
<1>6. x \in Phones /\ SameRr(y, x) /\ SameUp(y, x)
  BY <1>4, <1>5, BarredOver
<1>7. SameRr(s, x)
  BY <1>2, <1>4, <1>6 DEF SameRr
<1>8. /\ x.conns = open.conns /\ x.mmxx = open.mmxx /\ x.trans = u.trans /\ x.mncc = u.mncc
      /\ x.calls = u.calls /\ x.moRef = u.moRef /\ x.mtRef = u.mtRef
      /\ x.mm = "WAIT_ADD_OUT_MM_CON"
  BY <1>2, <1>4, <1>6 DEF SameUp, SameCc, SameMm, SameApp
<1>9. Signals(x, 1)
  BY <1>1, <1>7, SignalsSame
<1>10. AllPending(s) => AllPending(x)
  BY <1>2, <1>8 DEF AllPending
<1>11. Link(x, 1)
  BY <1>1, <1>3, <1>7, <1>8, <1>10 DEF Link, SameRr
<1>12. Connects(s, x, s.moRef)
  BY <1>2, <1>8, ConnectsSame, ZenonT(60)
<1>13. x.rsl = s.rsl /\ x.rrUp = s.rrUp
  BY <1>7 DEF SameRr
<1> QED
  BY <1>1, <1>6, <1>8, <1>9, <1>11, <1>12, <1>13, DialledHandled

(* A call dialled when MM cannot open a connection: its end is told. *)
LEMMA AskedInVain ==
  ASSUME NEW s, Fresh(s), s.moRef \in MoRefs, NEW u, Dialled(s, u, s.moRef),
         NEW y, y = Up(u, "REL_IND", s.moRef, NoTi), NEW x, x = [y EXCEPT !.barred = FALSE]
  PROVE  Inv(x, 1)
<1> DEFINE r == s.moRef
<1>1. /\ Inv(s, 1) /\ ~News(s.rrUp) /\ s \in Phones /\ Signals(s, 1) /\ Link(s, 1)
      /\ r \in Refs /\ NoTi \in Tis \cup {NoTi} /\ u \in Phones
      /\ SameRr(s, u) /\ SameMm(s, u) /\ u.mmxx = s.mmxx
  BY NextUnused DEF Fresh, Inv, Dialled
<1>2. y = Up(u, "REL_IND", r, NoTi)
  OBVIOUS
<1> HIDE DEF r
<1>3. /\ y \in Phones /\ SameRr(u, y) /\ SameApp(u, y) /\ SameMm(u, y)
      /\ y.trans = u.trans /\ y.mncc = u.mncc
      /\ Grown(y.mmxx, u.mmxx, Note("REL_IND", r, NoTi))
  BY <1>1, <1>2, UpFields
<1>4. x \in Phones /\ SameRr(y, x) /\ SameUp(y, x)
  BY <1>3, BarredOver
<1>5. SameRr(s, x)
  BY <1>1, <1>3, <1>4 DEF SameRr
<1>6. /\ x.conns = s.conns /\ x.mmxx = y.mmxx /\ x.trans = u.trans /\ x.mncc = u.mncc
      /\ x.calls = u.calls /\ x.moRef = u.moRef /\ x.mtRef = u.mtRef /\ x.mm = s.mm
  BY <1>1, <1>3, <1>4 DEF SameUp, SameCc, SameMm, SameApp
<1>7. Connects(s, x, r)
  BY <1>1, <1>3, <1>6 DEF Connects
<1>8. Signals(x, 1)
  BY <1>1, <1>5, SignalsSame
<1>9. AllPending(s) => AllPending(x)
  BY <1>6 DEF AllPending
<1>10. Link(x, 1)
  BY <1>1, <1>5, <1>6, <1>9 DEF Link, SameRr
<1>11. x.rsl = s.rsl /\ x.rrUp = s.rrUp
  BY <1>5 DEF SameRr
<1> QED
  BY <1>1, <1>4, <1>6, <1>7, <1>8, <1>10, <1>11, DialledHandled DEF r

(* mncc_call: the invariant holds on. *)
LEMMA DialStep ==
  ASSUME NEW s, Fresh(s), s.moRef \in MoRefs, NEW b \in BOOLEAN,
         NEW t, t = [s EXCEPT !.calls = Append(@, [ref |-> s.moRef, init |-> TRUE, hold |-> FALSE,
                                                   ring |-> FALSE]),
                              !.moRef = @ + 1, !.barred = b]
  PROVE  Inv([SetupReq(t, s.moRef) EXCEPT !.barred = FALSE], 1)
<1> DEFINE r == s.moRef
           c == [ref |-> r, init |-> TRUE, hold |-> FALSE, ring |-> FALSE]
           v == Append(s.calls, c)
           u == Keep(Alloc(t, r, NoTi), r, "MM_CONNECTION_PEND")
           x == [SetupReq(t, r) EXCEPT !.barred = FALSE]
           open == NewConn(u, r, NoTi, "CONN_PEND")
<1>1. Inv(s, 1) /\ s \in Phones /\ r \in Refs
  BY NextUnused DEF Fresh, Inv
<1>2. IsNew(c, r)
  BY <1>1 DEF Call, IsNew
<1>3. Booked(s, t, v, r)
  BY <1>1 DEF Phones, Booked
<1>4. Grown(v, s.calls, c) /\ Begins(t, u, r)
  BY DEF Begins, Grown
<1>5. x = [EstReq(u, r, NoTi) EXCEPT !.barred = FALSE]
  BY DEF SetupReq
<1> HIDE DEF x, u, c, v
<1>6. r = s.moRef /\ r \in MoRefs
  OBVIOUS
<1> HIDE DEF r
<1>7. Dialled(s, u, r)
  BY <1>1, <1>2, <1>3, <1>4, <1>6, CallDialled
<1>8. CASE MayOpen(u) /\ u.mm = "MM_IDLE"
  <2>1. x = [[RrEstReq(open) EXCEPT !.mm = "WAIT_RR_CONN_MM_CON"] EXCEPT !.barred = FALSE]
    BY <1>5, <1>8 DEF EstReq
  <2>2. open = NewConn(u, s.moRef, NoTi, "CONN_PEND")
    BY <1>6
  <2> HIDE DEF open
  <2> QED
    BY <1>6, <1>7, <1>8, <2>1, <2>2, AskedRr DEF r, x, MayOpen
<1>9. CASE MayOpen(u) /\ u.mm = "MM_CONN_ACTIVE"
  <2>1. x = [[open EXCEPT !.mm = "WAIT_ADD_OUT_MM_CON", !.t3230 = TRUE] EXCEPT !.barred = FALSE]
    BY <1>5, <1>9 DEF EstReq
  <2>2. open = NewConn(u, s.moRef, NoTi, "CONN_PEND")
    BY <1>6
  <2> HIDE DEF open
  <2> QED
    BY <1>6, <1>7, <1>9, <2>1, <2>2, AskedMore DEF r, x, MayOpen
<1>10. CASE ~MayOpen(u) \/ u.mm \notin {"MM_IDLE", "MM_CONN_ACTIVE"}
  <2> DEFINE y == Up(u, "REL_IND", r, NoTi)
  <2>1. x = [y EXCEPT !.barred = FALSE]
    BY <1>5, <1>10 DEF EstReq
  <2>2. y = Up(u, "REL_IND", s.moRef, NoTi)
    BY <1>6
  <2> HIDE DEF y
  <2> QED
    BY <1>6, <1>7, <2>1, <2>2, AskedInVain DEF r, x
<1> QED
  BY <1>8, <1>9, <1>10

-----------------------------------------------------------------------------
(* The queues in their order *)

(* The queues, in the order of mobile_work. *)
LEMMA QueuesAre ==
  /\ Len(Queues) = 5 /\ DOMAIN Queues = 1..5
  /\ Queues[1] = "rsl" /\ Queues[2] = "rrUp" /\ Queues[3] = "mmxx" /\ Queues[4] = "events"
  /\ Queues[5] = "mncc"
  BY DEF Queues

(* When the phone is idle, every queue is empty. *)
LEMMA IdleIs ==
  ASSUME NEW s, Idle(s)
  PROVE  s.rsl = <<>> /\ s.rrUp = <<>> /\ s.mmxx = <<>> /\ s.events = <<>> /\ s.mncc = <<>>
<1>1. \A i \in 1..5 : s[Queues[i]] = <<>>
  BY QueuesAre DEF Idle
<1>2. 1 \in 1..5 /\ 2 \in 1..5 /\ 3 \in 1..5 /\ 4 \in 1..5 /\ 5 \in 1..5
  OBVIOUS
<1> QED
  BY <1>1, <1>2, QueuesAre

(* Empty queues tell nothing. *)
LEMMA NoneTold ==
  ASSUME NEW s
  PROVE  /\ s.mmxx = <<>> => \A q : Ups(s.mmxx, q) = {}
         /\ s.mncc = <<>> => \A q : Told(s.mncc, q) = {}
<1>1. s.mmxx = <<>> => DOMAIN s.mmxx = {}
  OBVIOUS
<1>2. s.mncc = <<>> => DOMAIN s.mncc = {}
  OBVIOUS
<1> QED
  BY <1>1, <1>2 DEF Ups, Told

(* When nothing is left, the loop waits; the invariant is the one of a
   round's end. *)
LEMMA TurnOver ==
  ASSUME NEW s, NEW n \in 1..5, Inv(s, n)
  PROVE  Inv(s, Turn(s, n))
<1>1. CASE ~Idle(s)
  BY <1>1 DEF Turn
<1>2. CASE Idle(s)
  <2>1. /\ s.rsl = <<>> /\ s.rrUp = <<>> /\ s.mmxx = <<>> /\ s.events = <<>> /\ s.mncc = <<>>
    BY <1>2, IdleIs
  <2>2. ~News(s.rrUp)
    BY <2>1, EmptyQueue
  <2>3. Signals(s, 0)
    BY <2>1, <2>2 DEF Inv, Signals
  <2>4. AllGone(s) /\ NoSetup(s)
    BY <2>1, NoneTold DEF AllGone, NoSetup
  <2>5. Link(s, 0)
    BY <2>1 DEF Inv, Link
  <2>6. Tied(s)
    <3> SUFFICES ASSUME NEW r \in DOMAIN s.trans PROVE Joined(s.conns, r)
      BY DEF Tied
    <3>1. r \in Refs /\ Ups(s.mmxx, r) = {}
      BY <2>1, NoneTold, PhoneTypes DEF Inv
    <3> QED
      BY <3>1 DEF Inv, Ties, Tie
  <2>7. Inv(s, 0)
    BY <2>3, <2>4, <2>5, <2>6 DEF Inv, Quiet
  <2> QED
    BY <1>2, <2>7 DEF Turn
<1> QED
  BY <1>1, <1>2

(* A queue that is empty hands its turn on. *)
LEMMA TurnGoes ==
  ASSUME NEW s, NEW a \in 1..5, NEW n \in 1..5, Inv(s, a), n = 1 => a = 1,
         n >= 2 => s.rsl = <<>>, n >= 3 => s.rrUp = <<>>, n >= 4 => s.mmxx = <<>> \/ a >= 4,
         n >= 5 => s.events = <<>>
  PROVE  Inv(s, n)
<1>1. Signals(s, n)
  BY DEF Inv, Signals
<1>2. n >= 4 => AllGone(s)
  <2>1. s.mmxx = <<>> => AllGone(s)
    BY NoneTold DEF AllGone
  <2> QED
    BY <2>1 DEF Inv, Quiet
<1>3. Quiet(s, n)
  BY <1>2 DEF Inv, Quiet
<1>4. Link(s, n)
  BY DEF Inv, Link
<1>5. n <= 1 \/ News(s.rrUp) => Tied(s)
  BY DEF Inv
<1> QED
  BY <1>1, <1>3, <1>4, <1>5 DEF Inv

(* The queue whose turn it is finds the invariant of its turn. *)
LEMMA TurnIs ==
  ASSUME Inv(ms, at), NEW n \in 1..5, InTurn(n)
  PROVE  Inv(ms, n) /\ ms[Queues[n]] # <<>>
<1>1. at \in 1..5 /\ ms[Queues[n]] # <<>>
  BY DEF InTurn, Inv
<1>2. \A i \in 1..5 : ms[Queues[i]] # <<>> => (n - at) % 5 <= (i - at) % 5
  BY QueuesAre DEF InTurn
<1>3. ASSUME NEW i \in 1..5, at <= i, i < n PROVE ms[Queues[i]] = <<>>
  <2>1. n - at \in 0..4 /\ i - at \in 0..4 /\ i - at < n - at
    BY <1>1, <1>3
  <2>2. (n - at) % 5 = n - at /\ (i - at) % 5 = i - at
    BY <2>1
  <2> QED
    BY <1>2, <2>1, <2>2
<1>4. Signals(ms, at)
  BY DEF Inv
<1>5. 1 \in 1..5 /\ 2 \in 1..5 /\ 3 \in 1..5 /\ 4 \in 1..5
  OBVIOUS
<1>6. n >= 2 => ms.rsl = <<>>
  <2>1. CASE at = 1
    BY <1>3, <1>5, <2>1, QueuesAre
  <2>2. CASE at # 1
    BY <1>1, <1>4, <2>2 DEF Signals
  <2> QED
    BY <2>1, <2>2
<1>7. n >= 3 => ms.rrUp = <<>>
  <2>1. CASE at <= 2
    BY <1>1, <1>3, <1>5, <2>1, QueuesAre
  <2>2. CASE ~(at <= 2)
    BY <1>1, <1>4, <2>2 DEF Signals
  <2> QED
    BY <2>1, <2>2
<1>8. n >= 4 => ms.mmxx = <<>> \/ at >= 4
  BY <1>1, <1>3, <1>5, QueuesAre
<1>9. n >= 5 => ms.events = <<>>
  <2>1. CASE at <= 4
    BY <1>1, <1>3, <1>5, <2>1, QueuesAre
  <2>2. CASE ~(at <= 4)
    BY <1>1, <1>4, <2>2 DEF Signals
  <2> QED
    BY <2>1, <2>2
<1>10. n = 1 => at = 1
  BY <1>1, <1>4, QueuesAre DEF Signals
<1> QED
  BY <1>1, <1>6, <1>7, <1>8, <1>9, <1>10, TurnGoes

(* mobile_work: handling one message keeps the invariant. *)
LEMMA WorkStep ==
  ASSUME Inv(ms, at), Work
  PROVE  Inv(ms', at')
<1>1. PICK n \in 1..5 : InTurn(n) /\ ms' = Handle(ms, Queues[n]) /\ at' = Turn(ms', n)
  BY QueuesAre DEF Work
<1>2. Inv(ms, n) /\ ms[Queues[n]] # <<>>
  BY <1>1, TurnIs
<1> DEFINE t == Handle(ms, Queues[n])
<1>3. Inv(t, n)
  <2>1. CASE n = 1
    BY <1>2, <2>1, QueuesAre, L2Step
  <2>2. CASE n = 2
    BY <1>2, <2>2, QueuesAre, RrStep
  <2>3. CASE n = 3
    BY <1>2, <2>3, QueuesAre, MmStep
  <2>4. CASE n = 4
    BY <1>2, <2>4, QueuesAre, CellStep
  <2>5. CASE n = 5
    BY <1>2, <2>5, QueuesAre, CcTaken
  <2> QED
    BY <2>1, <2>2, <2>3, <2>4, <2>5
<1> HIDE DEF t
<1>4. Inv(t, Turn(t, n))
  BY <1>3, TurnOver
<1> QED
  BY <1>1, <1>4 DEF t

(* The user's command was taken, and the queues are to be emptied. *)
LEMMA DrainStep ==
  ASSUME NEW s, Drain(s), Inv(s, 1)
  PROVE  Inv(ms', at')
<1>1. 1 \in 1..5
  OBVIOUS
<1>2. Inv(s, Turn(s, 1))
  BY <1>1, TurnOver
<1> QED
  BY <1>2 DEF Drain

-----------------------------------------------------------------------------
(* Timers and commands *)

(* The expiry of any timer keeps the invariant. *)
LEMMA TimerStep ==
  ASSUME Inv(ms, at), Timer
  PROVE  Inv(ms', at')
<1>1. CASE T3230
  BY <1>1, T3230Step DEF T3230, Before
<1>2. CASE T3240
  BY <1>2, T3240Step DEF T3240, Before
<1>3. CASE T3126
  BY <1>3, T3126Step DEF T3126, Before
<1>4. CASE TRelWait
  BY <1>4, RelWaitStep DEF TRelWait, Before
<1>5. CASE \E r \in Refs : CcTimer(r)
  <2>1. PICK r \in Refs : CcTimer(r)
    BY <1>5
  <2>2. r \in DOMAIN ms.trans /\ at = 0 /\ ms' = Expired(ms, r) /\ at' = at
    BY <2>1 DEF CcTimer, CcRuns, Has, Before
  <2>3. Inv(Expired(ms, r), 0)
    BY <2>2, CcTimerStep
  <2> QED
    BY <2>2, <2>3
<1> QED
  BY <1>1, <1>2, <1>3, <1>4, <1>5 DEF Timer

(* The SIM is updated again: no layer changes. *)
LEMMA RegistersStep ==
  ASSUME Inv(ms, at), Registers
  PROVE  Inv(ms', at')
<1>1. ms' = [ms EXCEPT !.updated = TRUE] /\ at' = at
  BY DEF Registers, Before
<1>2. ms \in Phones
  BY DEF Inv
<1>3. ms' \in Phones /\ SameLayers(ms, ms')
  BY <1>1, <1>2, UpdatedSet
<1> QED
  BY <1>1, <1>3, TimerStopped

(* What the user's commands find. *)
LEMMA FreshGone ==
  ASSUME NEW s, Fresh(s)
  PROVE  /\ Inv(s, 1) /\ AllGone(s) /\ NoSetup(s)
         /\ s.calls \in Seq(Call) /\ Distinct(s.calls)
  BY PhoneTypes DEF Fresh, Inv, Quiet, Books

(* mncc_hangup: the invariant holds on. *)
LEMMA HangUpStep ==
  ASSUME NEW s, Fresh(s), NEW i \in DOMAIN s.calls,
         NEW t, t = FromL4(s, IF s.calls[i].init THEN "REL_REQ" ELSE "DISC_REQ", s.calls[i].ref)
  PROVE  Inv(t, 1)
<1> DEFINE r == s.calls[i].ref
<1>1. /\ Inv(s, 1) /\ AllGone(s) /\ NoSetup(s) /\ r \in Refs /\ Listed(s.calls, r)
      /\ Young(s.calls, r) <=> s.calls[i].init
  BY FreshGone, CallIs
<1>2. CASE s.calls[i].init
  <2>1. t = FromL4(s, "REL_REQ", r)
    BY <1>2
  <2> HIDE DEF r
  <2> QED
    BY <1>1, <2>1, Asked
<1>3. CASE ~s.calls[i].init
  <2>1. t = FromL4(s, "DISC_REQ", r) /\ ~Young(s.calls, r)
    BY <1>1, <1>3
  <2> HIDE DEF r
  <2> QED
    BY <1>1, <2>1, Asked
<1> QED
  BY <1>2, <1>3

(* mncc_hold and mncc_retrieve: the invariant holds on. *)
LEMMA HoldStep ==
  ASSUME NEW s, Fresh(s), NEW i \in DOMAIN s.calls, NEW prim \in {"HOLD_REQ", "RETRIEVE_REQ"},
         NEW t, t = FromL4(s, prim, s.calls[i].ref)
  PROVE  Inv(t, 1)
<1> DEFINE r == s.calls[i].ref
<1>1. Inv(s, 1) /\ AllGone(s) /\ r \in Refs /\ Listed(s.calls, r)
  BY FreshGone, CallIs
<1>2. t = FromL4(s, prim, r)
  OBVIOUS
<1> HIDE DEF r
<1> QED
  BY <1>1, <1>2, Asked

(* A round, with or without a command, keeps the invariant. *)
LEMMA CommandStep ==
  ASSUME Inv(ms, at), Receive \/ Dial \/ HangUp \/ AnswerCall \/ Hold \/ Retrieve
  PROVE  Inv(ms', at')
<1>1. CASE Receive
  <2>1. PICK s \in Read : Drain(s)
    BY <1>1 DEF Receive
  <2>2. Fresh(s)
    BY <2>1, ReadFresh DEF Drain
  <2> QED
    BY <2>1, <2>2, DrainStep DEF Fresh
<1>2. CASE Dial
  <2>1. PICK s \in Read, b \in BOOLEAN :
          LET call == [ref |-> s.moRef, init |-> TRUE, hold |-> FALSE, ring |-> FALSE]
              t == [s EXCEPT !.calls = Append(@, call), !.moRef = @ + 1, !.barred = b] IN
          /\ Unheld(s) = {} /\ s.moRef \in MoRefs
          /\ Drain([SetupReq(t, s.moRef) EXCEPT !.barred = FALSE])
    BY <1>2 DEF Dial
  <2> DEFINE call == [ref |-> s.moRef, init |-> TRUE, hold |-> FALSE, ring |-> FALSE]
             t == [s EXCEPT !.calls = Append(@, call), !.moRef = @ + 1, !.barred = b]
             x == [SetupReq(t, s.moRef) EXCEPT !.barred = FALSE]
  <2>2. s.moRef \in MoRefs /\ Drain(x)
    BY <2>1
  <2>3. Fresh(s)
    BY <2>2, ReadFresh DEF Drain
  <2>4. t = [s EXCEPT !.calls = Append(@, [ref |-> s.moRef, init |-> TRUE, hold |-> FALSE,
                                           ring |-> FALSE]),
                      !.moRef = @ + 1, !.barred = b]
    OBVIOUS
  <2> HIDE DEF t
  <2>5. Inv(x, 1)
    BY <2>2, <2>3, <2>4, DialStep
  <2> HIDE DEF x
  <2> QED
    BY <2>2, <2>5, DrainStep
<1>3. CASE HangUp
  <2>0. PICK s \in Read : \E i \in Unheld(s) :
          Drain(FromL4(s, IF s.calls[i].init THEN "REL_REQ" ELSE "DISC_REQ", s.calls[i].ref))
    BY <1>3 DEF HangUp
  <2>1. PICK i \in Unheld(s) :
          Drain(FromL4(s, IF s.calls[i].init THEN "REL_REQ" ELSE "DISC_REQ", s.calls[i].ref))
    BY <2>0
  <2>2. Fresh(s) /\ i \in DOMAIN s.calls
    BY <2>1, ReadFresh DEF Drain, Unheld
  <2> DEFINE t == FromL4(s, IF s.calls[i].init THEN "REL_REQ" ELSE "DISC_REQ", s.calls[i].ref)
  <2>3. Inv(t, 1) /\ Drain(t)
    BY <2>1, <2>2, HangUpStep
  <2> HIDE DEF t
  <2> QED
    BY <2>3, DrainStep
<1>4. CASE AnswerCall
  <2>1. PICK s \in Read : Drain(Answer(s))
    BY <1>4 DEF AnswerCall
  <2>2. Fresh(s)
    BY <2>1, ReadFresh DEF Drain
  <2> DEFINE t == Answer(s)
  <2>3. Inv(t, 1) /\ Drain(t)
    BY <2>1, <2>2, FreshGone, Answered
  <2> HIDE DEF t
  <2> QED
    BY <2>3, DrainStep
<1>5. CASE Hold
  <2>0. PICK s \in Read : \E i \in Unheld(s) : Drain(FromL4(s, "HOLD_REQ", s.calls[i].ref))
    BY <1>5 DEF Hold
  <2>1. PICK i \in Unheld(s) : Drain(FromL4(s, "HOLD_REQ", s.calls[i].ref))
    BY <2>0
  <2>2. Fresh(s) /\ i \in DOMAIN s.calls
    BY <2>1, ReadFresh DEF Drain, Unheld
  <2> DEFINE t == FromL4(s, "HOLD_REQ", s.calls[i].ref)
  <2>3. Inv(t, 1) /\ Drain(t)
    BY <2>1, <2>2, HoldStep
  <2> HIDE DEF t
  <2> QED
    BY <2>3, DrainStep
<1>6. CASE Retrieve
  <2>0. PICK s \in Read : \E i \in DOMAIN s.calls : Drain(FromL4(s, "RETRIEVE_REQ", s.calls[i].ref))
    BY <1>6 DEF Retrieve
  <2>1. PICK i \in DOMAIN s.calls : Drain(FromL4(s, "RETRIEVE_REQ", s.calls[i].ref))
    BY <2>0
  <2>2. Fresh(s)
    BY <2>1, ReadFresh DEF Drain
  <2> DEFINE t == FromL4(s, "RETRIEVE_REQ", s.calls[i].ref)
  <2>3. Inv(t, 1) /\ Drain(t)
    BY <2>1, <2>2, HoldStep
  <2> HIDE DEF t
  <2> QED
    BY <2>3, DrainStep
<1> QED
  BY <1>1, <1>2, <1>3, <1>4, <1>5, <1>6

-----------------------------------------------------------------------------
(* The theorems *)

(* The invariant holds of the phone when it starts. *)
LEMMA Starts ==
  ASSUME Init
  PROVE  Inv(ms, at)
<1> DEFINE e == <<>>
<1>1. PICK set \in Settings :
        ms = [mm |-> "MM_IDLE", conns |-> e, t3230 |-> FALSE, t3240 |-> FALSE,
              rr |-> "IDLE", rrEstReq |-> FALSE, relWait |-> FALSE, camped |-> TRUE,
              barred |-> FALSE, updated |-> TRUE, rsl |-> e, rrUp |-> e, mmxx |-> e,
              events |-> e, mncc |-> e, mtRef |-> MtBase + 1, trans |-> e,
              calls |-> e, moRef |-> 1, set |-> set]
  BY DEF Init
<1>2. /\ DOMAIN e = {} /\ e = <<>> /\ \A S : e \in Seq(S)
  OBVIOUS
<1>3. e \in TransMaps
  <2>1. e = [r \in DOMAIN e |-> e[r]] /\ DOMAIN e \subseteq Refs /\ \A r \in DOMAIN e : e[r] \in Trans
    OBVIOUS
  <2> HIDE DEF e
  <2> QED
    BY <2>1, TransMapsAre
<1> HIDE DEF e
<1>4. MtBase + 1 \in Nat /\ 1 \in Nat /\ "MM_IDLE" \in MmStates /\ "IDLE" \in RrStates
  BY MmAssumption DEF MtBase, MmStates, RrStates
<1>5. ms \in Phones
  BY <1>1, <1>2, <1>3, <1>4 DEF Phones
<1>6. /\ ms.mm = "MM_IDLE" /\ ms.rr = "IDLE" /\ ~ms.rrEstReq /\ ~ms.relWait /\ ms.camped
      /\ ms.rsl = e /\ ms.rrUp = e /\ ms.mmxx = e /\ ms.events = e /\ ms.mncc = e
      /\ ms.conns = e /\ ms.trans = e /\ ms.calls = e /\ ms.moRef = 1 /\ ms.mtRef = MtBase + 1
  BY <1>1
<1>7. ~News(ms.rrUp) /\ ~Paged(ms.rrUp) /\ DOMAIN ms.rrUp = {}
  BY <1>2, <1>6, EmptyQueue
<1>8. Len(ms.rrUp) = 0
  BY <1>2, <1>6
<1>9. /\ \A q : Ups(ms.mmxx, q) = {} /\ Told(ms.mncc, q) = {}
      /\ \A q : ~Joined(ms.conns, q) /\ ~Pend(ms.conns, q) /\ ~Listed(ms.calls, q)
                /\ ~Rings(ms.calls, q)
  BY <1>2, <1>6, NoneTold DEF Joined, Pend, Listed, Rings
<1>10. Signals(ms, 0)
  BY <1>2, <1>6, <1>7, <1>8 DEF Signals
<1>11. Quiet(ms, 0)
  BY <1>9 DEF Quiet, AllGone, NoSetup
<1>12. Link(ms, 0)
  BY <1>6, <1>7, <1>9 DEF Link, AllPending
<1>13. Account(ms)
  <2>1. ms.moRef \in 1..MaxMo + 1 /\ ms.mtRef \in MtBase + 1..MtBase + MaxMt + 1
    BY <1>6, MmAssumption DEF MtBase
  <2>2. \A r \in Refs : Unused(ms, r)
    BY <1>2, <1>6, <1>9 DEF Unused
  <2> QED
    BY <1>2, <1>6, <2>1, <2>2 DEF Account
<1>14. Ties(ms) /\ Tied(ms)
  BY <1>2, <1>6, <1>9 DEF Ties, Tied, Tie, Distinct, OneWaits, OwnIdentifiers, ToldOnce
<1>15. Books(ms)
  BY <1>2, <1>6, <1>9 DEF Books, Book, Distinct, OneSetup
<1>16. at = 0
  BY DEF Init
<1> QED
  BY <1>5, <1>10, <1>11, <1>12, <1>13, <1>14, <1>15, <1>16 DEF Inv

(* Every step keeps the invariant. *)
LEMMA Steps ==
  ASSUME Inv(ms, at), [Next]_vars
  PROVE  Inv(ms', at')
<1>1. CASE UNCHANGED vars
  BY <1>1 DEF vars
<1>2. CASE Work
  BY <1>2, WorkStep
<1>3. CASE Timer
  BY <1>3, TimerStep
<1>4. CASE Receive \/ Dial \/ HangUp \/ AnswerCall \/ Hold \/ Retrieve
  BY <1>4, CommandStep
<1>5. CASE Registers
  BY <1>5, RegistersStep
<1> QED
  BY <1>1, <1>2, <1>3, <1>4, <1>5 DEF Next

(* The invariant of the phone: what holds of the layers while the queue at
   is emptied, between two messages of mobile_work, and when the loop waits. *)
Sound == Inv(ms, at)

(* Whatever layer 1, the network, the timers and the user do, mobile_work finds
   the layers as the queue it is at demands. *)
THEOREM Soundness == Spec => []Sound
<1>1. Init => Sound
  BY Starts DEF Sound
<1>2. Sound /\ [Next]_vars => Sound'
  BY Steps DEF Sound
<1> QED
  BY <1>1, <1>2, PTL DEF Spec

(* The invariant gives the types. *)
LEMMA SoundTyped ==
  ASSUME Sound
  PROVE  TypeOK
<1>1. ms \in Phones
  BY DEF Sound, Inv
<1> QED
  BY <1>1, PhoneTypes DEF TypeOK, Phones

(* The invariant gives the agreement of the layers: at the end of a round
   nothing is queued. *)
LEMMA SoundAgree ==
  ASSUME Sound
  PROVE  LayersAgree
<1> SUFFICES ASSUME Idle(ms)
             PROVE  TransHaveConns /\ CallsHaveTrans /\ TransHaveCalls /\ ConnsHaveChannel
  BY DEF LayersAgree
<1>1. /\ ms \in Phones /\ Ties(ms) /\ Books(ms) /\ Link(ms, at) /\ Distinct(ms.conns)
      /\ Distinct(ms.calls) /\ ms.conns \in Seq(Conn) /\ ms.calls \in Seq(Call)
      /\ DOMAIN ms.trans \subseteq Refs
  BY PhoneTypes DEF Sound, Inv, Ties, Books
<1>2. ms.rrUp = <<>> /\ \A q : Ups(ms.mmxx, q) = {} /\ Told(ms.mncc, q) = {}
  BY IdleIs, NoneTold
<1>3. TransHaveConns
  <2>1. \A r \in DOMAIN ms.trans : Joined(ms.conns, r)
    BY <1>1, <1>2 DEF Ties, Tie
  <2> QED
    BY <1>1, <2>1 DEF TransHaveConns, HasConn, Joined, Ties, OneWaits, OwnIdentifiers
<1>4. ASSUME NEW c \in AllCalls
      PROVE  /\ c.ref \in Refs /\ Listed(ms.calls, c.ref)
             /\ Young(ms.calls, c.ref) <=> c.init
             /\ Rings(ms.calls, c.ref) <=> c.ring
  <2>1. PICK i \in DOMAIN ms.calls : c = ms.calls[i]
    BY DEF AllCalls, Range
  <2> QED
    BY <1>1, <2>1, CallIs
<1>5. CallsHaveTrans
  <2> SUFFICES ASSUME NEW c \in AllCalls
               PROVE  /\ c.ref \in DOMAIN ms.trans \/ c.init
                      /\ c.ring => c.ref \in DOMAIN ms.trans /\ ms.trans[c.ref].state \in RingStates
    BY DEF CallsHaveTrans, Has, RingStates
  <2>1. Book(ms.trans, ms.calls, ms.mncc, c.ref) /\ Told(ms.mncc, c.ref) = {}
    BY <1>1, <1>2, <1>4 DEF Books
  <2> QED
    BY <1>4, <2>1 DEF Book
<1>6. TransHaveCalls
  <2> SUFFICES ASSUME NEW r \in DOMAIN ms.trans
               PROVE  Listed(ms.calls, r) \/ ms.trans[r].state \in {"NULL", "RELEASE_REQ"}
    BY DEF TransHaveCalls, HasCall, Listed
  <2>1. Book(ms.trans, ms.calls, ms.mncc, r) /\ Told(ms.mncc, r) = {}
    BY <1>1, <1>2 DEF Books
  <2> QED
    BY <2>1 DEF Book
<1>7. ConnsHaveChannel
  <2> SUFFICES ASSUME ms.rr = "IDLE", NEW c \in AllConns PROVE c.state = "CONN_PEND"
    BY DEF ConnsHaveChannel
  <2>1. PICK i \in DOMAIN ms.conns : c = ms.conns[i]
    BY DEF AllConns, Range
  <2>2. Joined(ms.conns, c.ref) /\ (Pend(ms.conns, c.ref) <=> c.state = "CONN_PEND")
    BY <1>1, <2>1, ConnIs
  <2>3. AllPending(ms) /\ c.ref \in Refs
    BY <1>1, <1>2, <2>2, JoinedRefs DEF Link
  <2> QED
    BY <2>2, <2>3 DEF AllPending
<1> QED
  BY <1>3, <1>5, <1>6, <1>7

(* TypeOK, for any number of calls, identifiers and settings: no operation of
   a layer makes a value out of its range, the circle of trans_assign_trans_id
   among them, and none leaves a transaction of a reference nobody has. *)
THEOREM TypeCorrect == Spec => []TypeOK
BY Soundness, SoundTyped, PTL

(* LayersAgree: when mobile_work has emptied the queues, every transaction has
   its connection and its call, every call its transaction, and no connection
   outlives its channel, in whatever order the messages, timers and commands
   of the rounds came.  A call that is still being initiated need not have a
   transaction, nor a transaction being released a call; a connection may have
   no transaction; and t_rel_wait expires before the next cell is found. *)
THEOREM Agreement == Spec => []LayersAgree
BY Soundness, SoundAgree, PTL
=============================================================================
