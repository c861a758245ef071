---------------------------- MODULE StationsProofs ----------------------------
(***************************************************************************)
(* Proofs about the data of PyCatcher, for any settings, sightings and     *)
(* number of sweep threads, with handlers one after the other and          *)
(* overlapping.                                                            *)
(***************************************************************************)
EXTENDS Stations, SequenceTheorems, FiniteSetTheorems, FunctionTheorems, TLAPS

-----------------------------------------------------------------------------
(* The context rules. *)

(* Stations that no context rule can tell apart. *)
Alike(s, u) ==
  /\ s.arfcn = u.arfcn /\ s.provider = u.provider /\ s.country = u.country
  /\ s.lac = u.lac /\ s.cell = u.cell /\ s.neighbours = u.neighbours

(* Station i of m stands at p[i] in l. *)
Rearranged(l, m, p) ==
  /\ p \in Bijection(DOMAIN m, DOMAIN l)
  /\ \A i \in DOMAIN m : Alike(m[i], l[p[i]])

(* Rearranging counts nothing twice and forgets nothing. *)
LEMMA SameCount ==
  ASSUME NEW I, NEW J, IsFiniteSet(J), NEW p \in Bijection(I, J),
         NEW A \in SUBSET J, NEW B \in SUBSET I, \A i \in I : i \in B <=> p[i] \in A
  PROVE  Cardinality(B) = Cardinality(A)
<1> DEFINE f == [i \in B |-> p[i]]
<1>1. /\ p \in [I -> J]
      /\ \A i, j \in I : p[i] = p[j] => i = j
      /\ \A j \in J : \E i \in I : p[i] = j
  BY DEF Bijection, Injection, Surjection, IsInjective
<1>2. f \in [B -> A] /\ \A i, j \in B : f[i] = f[j] => i = j
  BY <1>1
<1>3. \A a \in A : \E i \in B : f[i] = a
  BY <1>1
<1> HIDE DEF f
<1>4. f \in Bijection(B, A)
  BY <1>2, <1>3 DEF Bijection, Injection, Surjection, IsInjective
<1>5. IsFiniteSet(A)
  BY FS_Subset
<1>6. ExistsBijection(A, B)
  <2>1. ExistsBijection(B, A)
    BY <1>4 DEF ExistsBijection
  <2> QED
    BY <2>1, Fun_ExistsBijSymmetric
<1> QED
  BY <1>5, <1>6, FS_Bijection

(* Each ARFCN has one entry. *)
Single(l) == \A i, j \in DOMAIN l : l[i].arfcn = l[j].arfcn => i = j

(* Loops that stop at the first entry of an ARFCN and loops that keep the last  *)
(* one then take the same.                                                     *)
LEMMA OnePlace ==
  ASSUME NEW l, DOMAIN l \subseteq Nat, Single(l), NEW i \in DOMAIN l
  PROVE  /\ Places(l[i].arfcn, l) = {i}
         /\ Extracted(l[i].arfcn, l) = l[i] /\ Latest(l[i].arfcn, l) = l[i]
<1>1. Places(l[i].arfcn, l) = {i}
  BY DEF Places, Single
<1>2. i \in Nat
  OBVIOUS
<1>3. \A j \in {i} : i <= j /\ j <= i
  BY <1>2
<1>4. FirstOf({i}) \in {i} /\ LastOf({i}) \in {i}
  BY <1>3, Zenon DEF FirstOf, LastOf
<1> QED
  BY <1>1, <1>4 DEF Extracted, Latest

(* What a context rule finds depends on the stations only, not on their order. *)
LEMMA CheckRearranged ==
  ASSUME NEW l, NEW m, NEW p, IsFiniteSet(DOMAIN l), DOMAIN l \subseteq Nat, DOMAIN m \subseteq Nat,
         Rearranged(l, m, p), Single(l), NEW k \in DOMAIN m
  PROVE  \A r \in ContextRules : Check(r, m[k].arfcn, m) = Check(r, l[p[k]].arfcn, l)
<1> DEFINE u == m[k]
           s == l[p[k]]
           a == u.arfcn
<1>1. /\ \A i \in DOMAIN m : p[i] \in DOMAIN l /\ Alike(m[i], l[p[i]])
      /\ \A j \in DOMAIN l : \E i \in DOMAIN m : p[i] = j
      /\ \A i, j \in DOMAIN m : p[i] = p[j] => i = j
      /\ p \in Bijection(DOMAIN m, DOMAIN l)
  BY DEF Rearranged, Bijection, Injection, Surjection, IsInjective
<1>2. Single(m)
  BY <1>1 DEF Single, Alike
<1>3. /\ Places(a, m) = {k} /\ Extracted(a, m) = u /\ Latest(a, m) = u
      /\ Places(a, l) = {p[k]} /\ Extracted(a, l) = s /\ Latest(a, l) = s
      /\ s.arfcn = a /\ Alike(u, s)
  <2>1. p[k] \in DOMAIN l /\ Alike(u, s)
    BY <1>1
  <2>2. s.arfcn = a
    BY <2>1 DEF Alike
  <2>3. Places(a, m) = {k} /\ Extracted(a, m) = u /\ Latest(a, m) = u
    BY <1>2, OnePlace
  <2>4. Places(s.arfcn, l) = {p[k]} /\ Extracted(s.arfcn, l) = s /\ Latest(s.arfcn, l) = s
    BY <2>1, OnePlace
  <2> HIDE DEF a, s, u
  <2> QED
    BY <2>1, <2>2, <2>3, <2>4
<1> HIDE DEF a, s, u
<1>4. /\ ProviderRule(a, m) = ProviderRule(a, l)
      /\ CountryMappingRule(a, m) = CountryMappingRule(a, l)
      /\ ARFCNMappingRule(a, m) = ARFCNMappingRule(a, l)
      /\ LACMappingRule(a, m) = LACMappingRule(a, l)
  BY <1>3 DEF Alike, ProviderRule, CountryMappingRule, ARFCNMappingRule, LACMappingRule, u, s
<1>5. UniqueCellIDRule(a, m) = UniqueCellIDRule(a, l)
  <2>1. (\E i \in DOMAIN m : m[i].arfcn # a /\ m[i].cell = u.cell)
        <=> (\E j \in DOMAIN l : l[j].arfcn # a /\ l[j].cell = s.cell)
    BY <1>1, <1>3 DEF Alike
  <2> QED
    BY <1>3, <2>1 DEF UniqueCellIDRule
<1>6. LACMedianRule(a, m) = LACMedianRule(a, l)
  <2> DEFINE Own(q, x) == {i \in DOMAIN q : q[i].provider = x.provider}
             Below(q, x, n) == {i \in Own(q, x) : q[i].lac < n}
             UpTo(q, x, n) == {i \in Own(q, x) : q[i].lac <= n}
             Half(q, x) == Cardinality(Own(q, x)) \div 2
             Median(q, x, n) == Cardinality(Below(q, x, n)) <= Half(q, x) /\ Half(q, x) < Cardinality(UpTo(q, x, n))
             Near(q, x) == \E i \in Own(q, x) : Median(q, x, q[i].lac) /\ Within(x.lac, q[i].lac, LAC_threshold)
  <2>0. u.provider = s.provider /\ u.lac = s.lac
    BY <1>3 DEF Alike
  <2>1. \A i \in DOMAIN m : i \in Own(m, u) <=> p[i] \in Own(l, s)
    BY <1>1, <2>0 DEF Alike
  <2>2. Cardinality(Own(m, u)) = Cardinality(Own(l, s))
    <3>1. Own(m, u) \subseteq DOMAIN m /\ Own(l, s) \subseteq DOMAIN l
      OBVIOUS
    <3> QED
      BY <1>1, <2>1, <3>1, SameCount
  <2>3. ASSUME NEW n PROVE Cardinality(Below(m, u, n)) = Cardinality(Below(l, s, n))
    <3>1. Below(m, u, n) \subseteq DOMAIN m /\ Below(l, s, n) \subseteq DOMAIN l
      OBVIOUS
    <3>2. \A i \in DOMAIN m : i \in Below(m, u, n) <=> p[i] \in Below(l, s, n)
      BY <1>1, <2>0 DEF Alike
    <3> QED
      BY <1>1, <3>1, <3>2, SameCount
  <2>4. ASSUME NEW n PROVE Cardinality(UpTo(m, u, n)) = Cardinality(UpTo(l, s, n))
    <3>1. UpTo(m, u, n) \subseteq DOMAIN m /\ UpTo(l, s, n) \subseteq DOMAIN l
      OBVIOUS
    <3>2. \A i \in DOMAIN m : i \in UpTo(m, u, n) <=> p[i] \in UpTo(l, s, n)
      BY <1>1, <2>0 DEF Alike
    <3> QED
      BY <1>1, <3>1, <3>2, SameCount
  <2>5. \A n : Median(m, u, n) <=> Median(l, s, n)
    BY <2>2, <2>3, <2>4
  <2>6. \A i \in Own(m, u) : p[i] \in Own(l, s) /\ m[i].lac = l[p[i]].lac
    BY <1>1, <2>1 DEF Alike
  <2>7. \A j \in Own(l, s) : \E i \in Own(m, u) : p[i] = j
    BY <1>1, <2>1
  <2>9. LACMedianRule(a, m) = IF Cardinality(Own(m, u)) < 2 THEN "Ignore" ELSE Verdict(Near(m, u))
    BY <1>3 DEF LACMedianRule
  <2>10. LACMedianRule(a, l) = IF Cardinality(Own(l, s)) < 2 THEN "Ignore" ELSE Verdict(Near(l, s))
    BY <1>3 DEF LACMedianRule
  <2>11. Near(m, u) <=> Near(l, s)
    <3> HIDE DEF Own, Median
    <3> QED
      BY <2>0, <2>5, <2>6, <2>7
  <2> HIDE DEF Near, Own
  <2> QED
    BY <2>2, <2>9, <2>10, <2>11 DEF Verdict
<1>7. /\ \A i \in DOMAIN m : i \in Hits(u, m) <=> p[i] \in Hits(s, l)
      /\ Hits(u, m) \subseteq DOMAIN m /\ Hits(s, l) \subseteq DOMAIN l
      /\ Hits(u, m) = {} <=> Hits(s, l) = {}
  <2>1. \A i \in DOMAIN m : i \in Hits(u, m) <=> p[i] \in Hits(s, l)
    BY <1>1, <1>3 DEF Alike, Hits
  <2>2. Hits(u, m) \subseteq DOMAIN m /\ Hits(s, l) \subseteq DOMAIN l
    BY DEF Hits
  <2> QED
    BY <1>1, <2>1, <2>2
<1>8. NeighbourhoodStructureRule(a, m) = NeighbourhoodStructureRule(a, l)
  <2> DEFINE Indirect(q, x) == {i \in Passed(x, q) : q[i].arfcn # a /\ q[i].neighbours \cap x.neighbours # {}}
             Incoming(q, x) == {i \in DOMAIN q : q[i].provider = x.provider /\ a \in q[i].neighbours}
  <2>1. u.neighbours = s.neighbours /\ u.provider = s.provider
    BY <1>3 DEF Alike
  <2>2. Incoming(m, u) = {} <=> Incoming(l, s) = {}
    BY <1>1, <2>1 DEF Alike
  (* The loop that finds no neighbour passes all stations. *)
  <2>3. Hits(u, m) = {} => Passed(u, m) = DOMAIN m /\ Passed(s, l) = DOMAIN l
    BY <1>7 DEF Passed
  <2>4. Hits(u, m) = {} => (Indirect(m, u) = {} <=> Indirect(l, s) = {})
    <3> SUFFICES ASSUME Hits(u, m) = {}
                 PROVE  Indirect(m, u) = {} <=> Indirect(l, s) = {}
      OBVIOUS
    <3>1. /\ Indirect(m, u) = {i \in DOMAIN m : m[i].arfcn # a /\ m[i].neighbours \cap u.neighbours # {}}
          /\ Indirect(l, s) = {j \in DOMAIN l : l[j].arfcn # a /\ l[j].neighbours \cap s.neighbours # {}}
      BY <2>3
    <3> HIDE DEF Indirect
    <3> QED
      BY <1>1, <2>1, <3>1 DEF Alike
  <2>5. NeighbourhoodStructureRule(a, m) =
          IF u.neighbours = {} THEN "Critical"
          ELSE IF Hits(u, m) # {} /\ Incoming(m, u) # {} THEN "Ok"
          ELSE IF Hits(u, m) # {} \/ Indirect(m, u) # {} THEN "Warning"
          ELSE "Critical"
    BY <1>3 DEF NeighbourhoodStructureRule
  <2>6. NeighbourhoodStructureRule(a, l) =
          IF s.neighbours = {} THEN "Critical"
          ELSE IF Hits(s, l) # {} /\ Incoming(l, s) # {} THEN "Ok"
          ELSE IF Hits(s, l) # {} \/ Indirect(l, s) # {} THEN "Warning"
          ELSE "Critical"
    BY <1>3 DEF NeighbourhoodStructureRule
  <2> HIDE DEF Indirect, Incoming
  <2> QED
    BY <1>7, <2>1, <2>2, <2>4, <2>5, <2>6
<1>9. PureNeighbourhoodRule(a, m) = PureNeighbourhoodRule(a, l)
  <2>1. (\A i \in Hits(u, m) : m[i].provider = u.provider)
        <=> (\A j \in Hits(s, l) : l[j].provider = s.provider)
    BY <1>1, <1>3, <1>7 DEF Alike
  <2> QED
    BY <1>3, <2>1 DEF PureNeighbourhoodRule
<1>10. DiscoveredNeighboursRule(a, m) = DiscoveredNeighboursRule(a, l)
  <2>1. Cardinality(Hits(u, m)) = Cardinality(Hits(s, l))
    BY <1>1, <1>7, SameCount
  <2> QED
    BY <1>3, <2>1 DEF DiscoveredNeighboursRule
<1>11. \A r \in ContextRules : Check(r, a, m) = Check(r, a, l)
  BY <1>4, <1>5, <1>6, <1>8, <1>9, <1>10 DEF ContextRules, Check
<1> QED
  BY <1>3, <1>11 DEF a, u, s

(* Read from its end, a list is rearranged. *)
LEMMA ReverseRearranges ==
  ASSUME NEW S, NEW l \in Seq(S)
  PROVE  \E p : Rearranged(l, Reverse(l), p)
<1> DEFINE n == Len(l)
           p == [i \in 1 .. n |-> (n - i) + 1]
<1>1. n \in Nat /\ DOMAIN l = 1 .. n /\ DOMAIN Reverse(l) = 1 .. n
  BY DEF Reverse
<1>2. \A i \in 1 .. n : Reverse(l)[i] = l[p[i]]
  BY <1>1 DEF Reverse
<1> HIDE DEF n
<1>3. /\ p \in [1 .. n -> 1 .. n]
      /\ \A i, j \in 1 .. n : p[i] = p[j] => i = j
      /\ \A j \in 1 .. n : (n - j) + 1 \in 1 .. n /\ p[(n - j) + 1] = j
  BY <1>1
<1> HIDE DEF p
<1>4. p \in Bijection(1 .. n, 1 .. n)
  BY <1>3 DEF Bijection, Injection, Surjection, IsInjective
<1>5. Rearranged(l, Reverse(l), p)
  BY <1>1, <1>2, <1>4 DEF Rearranged, Alike
<1> QED
  BY <1>5

(* A list of which only counts, verdicts and what the PCH scan found changed. *)
LEMMA CheckUnchanged ==
  ASSUME NEW S, NEW l \in Seq(S), NEW m, DOMAIN m = DOMAIN l, Single(l),
         \A i \in DOMAIN l : Alike(m[i], l[i]), NEW k \in DOMAIN l
  PROVE  \A r \in ContextRules : Check(r, m[k].arfcn, m) = Check(r, l[k].arfcn, l)
<1> DEFINE p == [i \in DOMAIN l |-> i]
<1>1. p \in Bijection(DOMAIN l, DOMAIN l)
  BY DEF Bijection, Injection, Surjection, IsInjective
<1>2. Rearranged(l, m, p)
  BY <1>1 DEF Rearranged
<1>3. IsFiniteSet(DOMAIN l) /\ DOMAIN l \subseteq Nat
  BY FS_Interval
<1>4. p[k] = k
  OBVIOUS
<1> HIDE DEF p
<1> QED
  BY <1>2, <1>3, <1>4, CheckRearranged

LEMMA CheckFindings ==
  ASSUME NEW r \in ContextRules \cup {"PCH Scan"}, NEW a, NEW l
  PROVE  Check(r, a, l) \in Findings
  BY DEF Check, ContextRules, Findings, Verdict, ProviderRule, CountryMappingRule, ARFCNMappingRule,
         LACMappingRule, UniqueCellIDRule, LACMedianRule, NeighbourhoodStructureRule,
         PureNeighbourhoodRule, DiscoveredNeighboursRule, PCHRule

LEMMA Evaluations == \A e, report : Evaluate(e, report) \in {"Ok", "Warning", "Critical"}
  BY DEF Evaluate, GroupEvaluator, ConservativeEvaluator
-----------------------------------------------------------------------------
(* Types. *)

Reports == UNION {[R -> Findings] : R \in RuleSets \cup {{}}}

Entries ==
  [arfcn : {x.arfcn : x \in Sightings}, provider : {x.provider : x \in Sightings},
   country : {x.country : x \in Sightings}, lac : Int, cell : {x.cell : x \in Sightings},
   rxlev : Int, neighbours : {x.neighbours : x \in Sightings}, times_scanned : Nat \ {0},
   pch : Counts \cup {NotScanned}, report : Reports,
   evaluation : {"NYE", "Ok", "Warning", "Critical"}]

Positions ==
  [at : {"idle", "append", "refresh", "check", "write", "store"}, i : Nat, new : SUBSET Sightings,
   report : Reports]

Memories == [value : Int, scanned : Nat \ {0}, result : Findings]

Busy(t) == proc[t].at # "idle"
AtEntry(t) == proc[t].at \notin {"idle", "append"}

ListTypes ==
  /\ overlap \/ OneEntry
  /\ {list[i].arfcn : i \in DOMAIN list} = DOMAIN seen
  /\ scans \in Nat
  /\ list \in Seq(Entries) /\ \A i \in DOMAIN list : list[i].times_scanned <= scans

ProcTypes ==
  /\ proc \in [Threads -> Positions]
  /\ \A t \in Threads : AtEntry(t) => proc[t].i \in DOMAIN list
  /\ \A t \in Threads : proc[t].at = "append" => scans >= 1
  /\ \A t \in Threads : proc[t].at = "refresh" =>
       \A x \in proc[t].new : list[proc[t].i].arfcn = x.arfcn

(* Where handlers take turns, one thread runs, and the station it is about to *)
(* append is still missing.                                                   *)
Alone ==
  ~overlap =>
    /\ \A t, u \in Threads : Busy(t) /\ Busy(u) => t = u
    /\ \A t \in Threads : proc[t].at = "append" =>
         \A x \in proc[t].new : \A i \in DOMAIN list : list[i].arfcn # x.arfcn

MemoryTypes ==
  /\ \A a \in DOMAIN lacs : lacs[a] \in Memories
  /\ \A a \in DOMAIN rxs : rxs[a] \in Memories
  /\ DOMAIN lacs \subseteq DOMAIN seen /\ DOMAIN rxs \subseteq DOMAIN seen

DatabaseTypes ==
  /\ \A c \in DOMAIN db : db[c] \in Rows
  /\ \A c \in DOMAIN cache : cache[c] \in Rows

SettingTypes == overlap \in BOOLEAN /\ active \in RuleSets /\ evaluator \in Evaluators

Types == ListTypes /\ ProcTypes /\ Alone /\ MemoryTypes /\ DatabaseTypes /\ SettingTypes

LEMMA NothingReported == NoReport \in Reports
<1>1. NoReport \in [{} -> Findings]
  BY DEF NoReport
<1> QED
  BY <1>1 DEF Reports

(* What is read becomes an entry, and an entry takes over what is read, is   *)
(* counted, judged, or given what a PCH scan found.                          *)
LEMMA NewEntry ==
  ASSUME NEW x \in Sightings
  PROVE  /\ Station(x) \in Entries /\ Station(x).arfcn = x.arfcn /\ Station(x).lac = x.lac
         /\ Station(x).times_scanned = 1 /\ Station(x).report = NoReport
  BY NothingReported, StationsAssumption DEF Station, Entries, NotScanned

Read(s, x) ==
  [s EXCEPT !.provider = x.provider, !.country = x.country, !.lac = x.lac,
            !.cell = x.cell, !.rxlev = x.rxlev, !.neighbours = x.neighbours]

LEMMA ReadEntry ==
  ASSUME NEW s \in Entries, NEW x \in Sightings
  PROVE  /\ Read(s, x) \in Entries
         /\ Read(s, x).arfcn = s.arfcn /\ Read(s, x).times_scanned = s.times_scanned
         /\ Read(s, x).lac = x.lac /\ Read(s, x).report = s.report
  BY StationsAssumption DEF Read, Entries

CountedOnce(s) == [s EXCEPT !.times_scanned = @ + 1]

LEMMA CountEntry ==
  ASSUME NEW s \in Entries
  PROVE  /\ CountedOnce(s) \in Entries /\ Alike(CountedOnce(s), s)
         /\ CountedOnce(s).times_scanned = s.times_scanned + 1
         /\ CountedOnce(s).report = s.report /\ CountedOnce(s).evaluation = s.evaluation
  BY DEF CountedOnce, Entries, Alike

Judge(s, report) == [s EXCEPT !.report = report, !.evaluation = Evaluate(evaluator, report)]

LEMMA JudgedEntry ==
  ASSUME NEW s \in Entries, NEW report \in Reports
  PROVE  /\ Judge(s, report) \in Entries /\ Alike(Judge(s, report), s)
         /\ Judge(s, report).times_scanned = s.times_scanned
         /\ Judge(s, report).report = report
         /\ Judge(s, report).evaluation = Evaluate(evaluator, report)
  BY Evaluations DEF Judge, Entries, Alike

Paged(s, c) == [s EXCEPT !.pch = c]

LEMMA PagedEntry ==
  ASSUME NEW s \in Entries, NEW c \in Counts
  PROVE  /\ Paged(s, c) \in Entries /\ Alike(Paged(s, c), s)
         /\ Paged(s, c).times_scanned = s.times_scanned
         /\ Paged(s, c).report = s.report /\ Paged(s, c).evaluation = s.evaluation
  BY DEF Paged, Entries, Alike

(* One entry of a list is replaced. *)
LEMMA Replaced ==
  ASSUME NEW S, NEW l \in Seq(S), NEW i \in DOMAIN l, NEW e \in S
  PROVE  /\ [l EXCEPT ![i] = e] \in Seq(S) /\ DOMAIN [l EXCEPT ![i] = e] = DOMAIN l
         /\ \A j \in DOMAIN l : [l EXCEPT ![i] = e][j] = IF j = i THEN e ELSE l[j]
  OBVIOUS

LEMMA GoesFacts ==
  ASSUME Types, NEW t \in Threads, NEW p, Goes(t, p)
  PROVE  proc'[t] = p /\ \A u \in Threads : u # t => proc'[u] = proc[u]
  BY DEF Goes, Types, ProcTypes

LEMMA IdlePosition == Idle \in Positions /\ Idle.at = "idle"
  BY NothingReported DEF Idle, At, Positions

LEMMA AtPosition ==
  ASSUME NEW where \in {"append", "refresh", "check", "write", "store"}, NEW i \in Nat
  PROVE  At(where, i) \in Positions /\ At(where, i).at = where /\ At(where, i).i = i
  BY NothingReported DEF At, Positions

LEMMA EnterPosition ==
  ASSUME NEW i \in Nat, NEW x \in Sightings, NEW where \in {"append", "refresh"},
         NEW p, p = [At(where, i) EXCEPT !.new = {x}]
  PROVE  p \in Positions /\ p.at = where /\ p.i = i /\ p.new = {x}
  BY NothingReported DEF At, Positions

LEMMA WritePosition ==
  ASSUME NEW i \in Nat, NEW r \in Reports, NEW p, p = [At("write", i) EXCEPT !.report = r]
  PROVE  p \in Positions /\ p.at = "write" /\ p.i = i /\ p.report = r
  BY DEF At, Positions

-----------------------------------------------------------------------------
(* What a step makes of the list and of the threads. *)

LEMMA EntryFacts ==
  ASSUME Types, NEW i \in DOMAIN list
  PROVE  list[i] \in Entries /\ list[i].arfcn \in DOMAIN seen /\ i \in Nat /\ i >= 1 /\ i <= Len(list)
  BY DEF Types, ListTypes

(* Loops that stop at a match stop at the first one. *)
LEMMA FirstIn ==
  ASSUME NEW S, S \subseteq Nat, S # {}
  PROVE  FirstOf(S) \in S
<1>1. PICK k \in S : \A j \in S : <<j, k>> \notin OpToRel(<, Nat)
  BY NatLessThanWellFounded, WFMin, Zenon
<1>2. \A j \in S : ~(j < k)
  BY <1>1, Zenon DEF OpToRel
<1>3. k \in Nat /\ \A j \in S : j \in Nat
  BY <1>1
<1>4. \A j \in S : k <= j
  BY <1>2, <1>3
<1> QED
  BY <1>1, <1>4, Zenon DEF FirstOf

LEMMA ExtractedIn ==
  ASSUME Types, NEW i \in DOMAIN list
  PROVE  \E k \in DOMAIN list : /\ Extracted(list[i].arfcn, list) = list[k]
                                /\ list[k].arfcn = list[i].arfcn /\ (~overlap => k = i)
<1> DEFINE S == Places(list[i].arfcn, list)
<1>1. S \subseteq Nat /\ S # {}
  BY DEF Places, Types, ListTypes
<1>2. FirstOf(S) \in S
  <2> HIDE DEF S
  <2> QED
    BY <1>1, FirstIn
<1>3. \A k \in S : k \in DOMAIN list /\ list[k].arfcn = list[i].arfcn /\ (~overlap => k = i)
  BY DEF Places, Types, ListTypes, OneEntry
<1> QED
  BY <1>2, <1>3 DEF Extracted

(* The list keeps its ARFCNs. *)
LEMMA SameArfcns ==
  ASSUME Types, DOMAIN list' = DOMAIN list, \A j \in DOMAIN list : list'[j].arfcn = list[j].arfcn,
         DOMAIN seen' = DOMAIN seen, overlap' = overlap
  PROVE  (overlap' \/ OneEntry') /\ {list'[i].arfcn : i \in DOMAIN list'} = DOMAIN seen'
<1>1. {list'[j].arfcn : j \in DOMAIN list'} = {list[j].arfcn : j \in DOMAIN list}
  OBVIOUS
<1> QED
  BY <1>1 DEF OneEntry, Types, ListTypes

(* An entry is replaced by one for the same ARFCN. *)
Changes(i, e) == list' = [list EXCEPT ![i] = e]

LEMMA ChangeKeeps ==
  ASSUME Types, NEW i \in DOMAIN list, NEW e \in Entries, Changes(i, e),
         e.arfcn = list[i].arfcn, DOMAIN seen' = DOMAIN seen, scans' \in Nat, scans' >= scans,
         e.times_scanned <= scans', overlap' = overlap
  PROVE  /\ ListTypes' /\ DOMAIN list' = DOMAIN list
         /\ list'[i] = e /\ \A j \in DOMAIN list : j # i => list'[j] = list[j]
<1>1. /\ list' \in Seq(Entries) /\ DOMAIN list' = DOMAIN list
      /\ \A j \in DOMAIN list : list'[j] = IF j = i THEN e ELSE list[j]
  BY Replaced DEF Types, ListTypes, Changes
<1>2. \A j \in DOMAIN list : list'[j].arfcn = list[j].arfcn
  BY <1>1
<1>3. \A j \in DOMAIN list' : list'[j].times_scanned <= scans'
  <2>1. \A j \in DOMAIN list : list[j].times_scanned \in Nat /\ list[j].times_scanned <= scans /\ scans \in Nat
    BY EntryFacts DEF Types, ListTypes, Entries
  <2> QED
    BY <1>1, <2>1
<1> QED
  BY <1>1, <1>2, <1>3, SameArfcns DEF ListTypes

(* A station is appended. *)
LEMMA AppendKeeps ==
  ASSUME Types, NEW x \in Sightings, list' = Append(list, Station(x)), overlap' = overlap,
         ~overlap => \A i \in DOMAIN list : list[i].arfcn # x.arfcn,
         DOMAIN seen' = DOMAIN seen \cup {x.arfcn}, scans' = scans, scans >= 1
  PROVE  /\ ListTypes' /\ DOMAIN list' = 1 .. Len(list) + 1 /\ DOMAIN list = 1 .. Len(list)
         /\ Len(list) \in Nat /\ list'[Len(list) + 1] = Station(x)
         /\ \A j \in DOMAIN list : j \in DOMAIN list' /\ list'[j] = list[j]
<1> DEFINE n == Len(list)
<1>1. /\ list' \in Seq(Entries) /\ DOMAIN list' = 1 .. n + 1 /\ DOMAIN list = 1 .. n /\ n \in Nat
      /\ \A j \in DOMAIN list : j \in DOMAIN list' /\ list'[j] = list[j]
      /\ list'[n + 1] = Station(x)
  BY NewEntry DEF Types, ListTypes
<1>2. Station(x).arfcn = x.arfcn /\ Station(x).times_scanned = 1
  BY NewEntry
<1> HIDE DEF n
<1>3. \A j \in DOMAIN list' : j \in DOMAIN list \/ j = n + 1
  BY <1>1
<1>4. overlap' \/ OneEntry'
  BY <1>1, <1>2, <1>3 DEF Types, ListTypes, OneEntry
<1>5. {list'[i].arfcn : i \in DOMAIN list'} = DOMAIN seen'
  <2>1. n + 1 \in DOMAIN list'
    BY <1>1
  <2> QED
    BY <1>1, <1>2, <1>3, <2>1 DEF Types, ListTypes
<1>6. \A j \in DOMAIN list' : list'[j].times_scanned <= scans'
  <2>1. \A j \in DOMAIN list : list[j].times_scanned \in Nat /\ list[j].times_scanned <= scans
    BY EntryFacts DEF Types, ListTypes, Entries
  <2> QED
    BY <1>1, <1>2, <1>3, <2>1 DEF Types, ListTypes
<1> QED
  BY <1>1, <1>4, <1>5, <1>6 DEF ListTypes, Types, n

(* A thread goes on, or none does. *)
LEMMA GoesAlone ==
  ASSUME Types, NEW t \in Threads, NEW p, Goes(t, p), overlap' = overlap, Busy(t) \/ MayStart(t),
         p.at = "append" => \A x \in p.new : \A i \in DOMAIN list' : list'[i].arfcn # x.arfcn
  PROVE  Alone'
<1> SUFFICES ASSUME ~overlap
             PROVE  /\ \A u, v \in Threads : proc'[u].at # "idle" /\ proc'[v].at # "idle" => u = v
                    /\ \A u \in Threads : proc'[u].at = "append" =>
                         \A x \in proc'[u].new : \A i \in DOMAIN list' : list'[i].arfcn # x.arfcn
  BY DEF Alone, Busy
<1>1. \A u \in Threads : u # t => proc[u].at = "idle"
  BY DEF MayStart, AllIdle, Types, Alone, Busy
<1>2. proc'[t] = p /\ \A u \in Threads : u # t => proc'[u].at = "idle"
  BY <1>1, GoesFacts
<1> QED
  BY <1>2

LEMMA WaitsAlone ==
  ASSUME Types, UNCHANGED <<proc, overlap>>, DOMAIN list' = DOMAIN list,
         \A j \in DOMAIN list : list'[j].arfcn = list[j].arfcn
  PROVE  Alone'
  BY DEF Types, Alone, Busy

LEMMA GoesKeeps ==
  ASSUME Types, NEW t \in Threads, NEW p \in Positions, Goes(t, p), DOMAIN list \subseteq DOMAIN list',
         \A j \in DOMAIN list : list'[j].arfcn = list[j].arfcn, scans' \in Nat, scans' >= scans,
         p.at \notin {"idle", "append"} => p.i \in DOMAIN list', p.at = "append" => scans' >= 1,
         p.at = "refresh" => \A x \in p.new : list'[p.i].arfcn = x.arfcn
  PROVE  ProcTypes'
<1>1. proc' \in [Threads -> Positions] /\ proc'[t] = p /\ \A u \in Threads : u # t => proc'[u] = proc[u]
  BY DEF Goes, Types, ProcTypes
<1>2. \A u \in Threads : proc'[u].at \notin {"idle", "append"} => proc'[u].i \in DOMAIN list'
  BY <1>1 DEF Types, ProcTypes, AtEntry
<1>3. \A u \in Threads : proc'[u].at = "append" => scans' >= 1
  BY <1>1 DEF Types, ProcTypes, ListTypes
<1>4. \A u \in Threads : proc'[u].at = "refresh" => \A x \in proc'[u].new : list'[proc'[u].i].arfcn = x.arfcn
  BY <1>1 DEF Types, ProcTypes, AtEntry
<1> QED
  BY <1>1, <1>2, <1>3, <1>4 DEF ProcTypes, AtEntry

LEMMA WaitsKeeps ==
  ASSUME Types, UNCHANGED <<proc, scans>>, DOMAIN list \subseteq DOMAIN list',
         \A j \in DOMAIN list : list'[j].arfcn = list[j].arfcn
  PROVE  ProcTypes'
  BY DEF Types, ProcTypes, AtEntry

(* An evaluation begins. *)
LEMMA Starts ==
  ASSUME NEW S, NEW l \in Seq(S)
  PROVE  /\ StartsEvaluation(Len(l)) \in Positions
         /\ StartsEvaluation(Len(l)).at = IF l = <<>> THEN "idle" ELSE "check"
         /\ l # <<>> => 1 \in DOMAIN l /\ StartsEvaluation(Len(l)).i = 1
         /\ l # <<>> => StartsEvaluation(1).at = "check" /\ StartsEvaluation(1).i = 1 /\ StartsEvaluation(1) \in Positions
<1>1. Len(l) \in Nat /\ DOMAIN l = 1 .. Len(l) /\ (Len(l) = 0 <=> l = <<>>)
  BY EmptySeq
<1> QED
  BY <1>1, IdlePosition, AtPosition DEF StartsEvaluation

LEMMA FirstEvaluation ==
  StartsEvaluation(1) \in Positions /\ StartsEvaluation(1).at = "check" /\ StartsEvaluation(1).i = 1
  BY AtPosition DEF StartsEvaluation

(* The next station of a loop. *)
LEMMA Nexts ==
  ASSUME Types, NEW i \in DOMAIN list, NEW where \in {"check", "store"},
         NEW p, p = IF i < Len(list) THEN At(where, i + 1) ELSE Idle
  PROVE  /\ p \in Positions
         /\ i < Len(list) => p.at = where /\ p.i = i + 1 /\ i + 1 \in DOMAIN list
         /\ ~(i < Len(list)) => p.at = "idle" /\ i = Len(list)
<1>1. i \in Nat /\ Len(list) \in Nat /\ DOMAIN list = 1 .. Len(list) /\ i <= Len(list) /\ i >= 1
  BY DEF Types, ListTypes
<1> QED
  BY <1>1, IdlePosition, AtPosition

-----------------------------------------------------------------------------
(* Types are kept. *)

LEMMA RememberedTypes ==
  ASSUME Types, NEW s \in Entries
  PROVE  LacMemory(s) \in Memories /\ RxMemory(s) \in Memories
<1>1. /\ s.lac \in Int /\ s.rxlev \in Int /\ s.times_scanned \in Nat \ {0}
      /\ {"Ignore", "Ok", "Critical"} \subseteq Findings
  BY DEF Entries, Findings
<1>2. \A v \in Int, f \in {"Ignore", "Ok", "Critical"} : Entry(v, s, f) \in Memories
  BY <1>1 DEF Entry, Memories
<1>3. \A h : Verdict(h) \in {"Ignore", "Ok", "Critical"}
  BY DEF Verdict
<1>4. Remembered(lacs, s, s.lac) \in Memories
  BY <1>1, <1>2 DEF Remembered, Types, MemoryTypes
<1>5. Remembered(rxs, s, s.rxlev) \in Memories
  BY <1>1, <1>2 DEF Remembered, Types, MemoryTypes
<1>6. \A old \in Memories : old.value \in Int
  BY DEF Memories
<1> QED
  BY <1>1, <1>2, <1>3, <1>4, <1>5, <1>6 DEF LacMemory, RxMemory, LACChangeRule, RxChangeRule

LEMMA ReportType ==
  ASSUME Types, NEW s \in Entries
  PROVE  Report(s) \in Reports /\ DOMAIN Report(s) = active
<1>1. LacMemory(s).result \in Findings /\ RxMemory(s).result \in Findings
  BY RememberedTypes DEF Memories
<1>2. LocationAreaDatabaseRule(s, cache) \in Findings
  BY DEF LocationAreaDatabaseRule, Verdict, Findings
<1>3. active \in RuleSets /\ active \subseteq RuleNames
  BY StationsAssumption DEF Types, SettingTypes
<1>4. \A r \in active : Report(s)[r] \in Findings
  <2> SUFFICES ASSUME NEW r \in active PROVE Report(s)[r] \in Findings
    OBVIOUS
  <2>1. CASE r \in {"LAC Change Rule", "rx Change Rule", "Local Area Database"}
    BY <1>1, <1>2, <2>1 DEF Report
  <2>2. CASE r \in ContextRules \cup {"PCH Scan"}
    <3>1. Report(s)[r] = Check(r, s.arfcn, list)
      BY <2>2 DEF Report, ContextRules
    <3> QED
      BY <2>2, <3>1, CheckFindings
  <2> QED
    BY <1>3, <2>1, <2>2 DEF RuleNames
<1>5. Report(s) \in [active -> Findings]
  BY <1>4 DEF Report
<1> QED
  BY <1>3, <1>5 DEF Reports

(* A sweep thread looks for a station: it goes on to append it, or counts it. *)
LEMMA FoundFacts ==
  ASSUME Types, NEW t \in Sweepers, Found(t)
  PROVE  \E x \in Sightings, p \in Positions :
           /\ MayStart(t) /\ UNCHANGED <<settings, memory, database, seen>> /\ Goes(t, p) /\ p.new = {x}
           /\ ListTypes' /\ scans' \in Nat /\ scans' >= 1 /\ scans' >= scans /\ DOMAIN list' = DOMAIN list
           /\ \/ /\ p.at = "append" /\ UNCHANGED list
                 /\ \A j \in DOMAIN list : list[j].arfcn # x.arfcn
              \/ /\ p.at = "refresh" /\ p.i \in DOMAIN list /\ list[p.i].arfcn = x.arfcn
                 /\ list'[p.i] = CountedOnce(list[p.i])
                 /\ \A j \in DOMAIN list : j # p.i => list'[j] = list[j]
<1>1. PICK x \in Sightings :
        /\ scans' = scans + 1
        /\ \/ /\ IndexOf(x) = {}
              /\ Goes(t, [At("append", 0) EXCEPT !.new = {x}])
              /\ UNCHANGED list
           \/ /\ IndexOf(x) # {}
              /\ list' = [list EXCEPT ![FirstOf(IndexOf(x))].times_scanned = @ + 1]
              /\ Goes(t, [At("refresh", FirstOf(IndexOf(x))) EXCEPT !.new = {x}])
  BY DEF Found
<1>2. MayStart(t) /\ UNCHANGED <<settings, memory, database, seen>> /\ overlap' = overlap
  BY DEF Found, settings
<1>3. scans' \in Nat /\ scans' >= 1 /\ scans' >= scans /\ scans \in Nat
  BY <1>1 DEF Types, ListTypes
<1>4. CASE IndexOf(x) = {} /\ Goes(t, [At("append", 0) EXCEPT !.new = {x}]) /\ UNCHANGED list
  <2>1. \A j \in DOMAIN list : list[j].arfcn # x.arfcn
    BY <1>4 DEF IndexOf, Places
  <2>2. ListTypes'
    <3>1. \A i \in DOMAIN list : list[i].times_scanned \in Nat /\ list[i].times_scanned <= scans
      BY EntryFacts DEF Types, ListTypes, Entries
    <3>2. \A i \in DOMAIN list : list[i].times_scanned <= scans'
      BY <1>3, <3>1
    <3> QED
      BY <1>2, <1>3, <1>4, <3>2, SameArfcns DEF Types, ListTypes
  <2>3. PICK p \in Positions : Goes(t, p) /\ p.at = "append" /\ p.new = {x}
    BY <1>4, EnterPosition
  <2> QED
    BY <1>2, <1>3, <1>4, <2>1, <2>2, <2>3
<1>5. ASSUME NEW i, i = FirstOf(IndexOf(x)), IndexOf(x) # {},
             list' = [list EXCEPT ![i].times_scanned = @ + 1],
             Goes(t, [At("refresh", i) EXCEPT !.new = {x}])
      PROVE  \E p \in Positions :
               /\ Goes(t, p) /\ ListTypes' /\ p.at = "refresh" /\ p.new = {x} /\ p.i \in DOMAIN list
               /\ list[p.i].arfcn = x.arfcn
               /\ DOMAIN list' = DOMAIN list /\ list'[p.i] = CountedOnce(list[p.i])
               /\ \A j \in DOMAIN list : j # p.i => list'[j] = list[j]
  <2>0. i \in IndexOf(x)
    <3>1. IndexOf(x) \subseteq Nat
      BY DEF IndexOf, Places, Types, ListTypes
    <3> QED
      BY <1>5, <3>1, FirstIn
  <2>1. i \in DOMAIN list /\ list[i].arfcn = x.arfcn /\ i \in Nat /\ list[i] \in Entries
    BY <2>0, EntryFacts DEF IndexOf, Places
  <2>2. Changes(i, CountedOnce(list[i]))
    BY <1>5 DEF Changes, CountedOnce
  <2>3. scans' = scans + 1 /\ DOMAIN seen' = DOMAIN seen
    BY <1>1, <1>2
  <2>4. /\ CountedOnce(list[i]) \in Entries /\ CountedOnce(list[i]).arfcn = list[i].arfcn
        /\ CountedOnce(list[i]).times_scanned = list[i].times_scanned + 1
    BY <2>1, CountEntry DEF Alike
  <2>5. scans \in Nat /\ list[i].times_scanned \in Nat /\ list[i].times_scanned <= scans
    BY <2>1 DEF Types, ListTypes, Entries
  <2>6. /\ ListTypes' /\ DOMAIN list' = DOMAIN list
        /\ list'[i] = CountedOnce(list[i]) /\ \A j \in DOMAIN list : j # i => list'[j] = list[j]
    BY <1>2, <2>1, <2>2, <2>3, <2>4, <2>5, ChangeKeeps
  <2>7. PICK p \in Positions : Goes(t, p) /\ p.at = "refresh" /\ p.i = i /\ p.new = {x}
    BY <1>5, <2>1, EnterPosition
  <2> QED
    BY <2>1, <2>6, <2>7
<1>6. CASE /\ IndexOf(x) # {}
           /\ list' = [list EXCEPT ![FirstOf(IndexOf(x))].times_scanned = @ + 1]
           /\ Goes(t, [At("refresh", FirstOf(IndexOf(x))) EXCEPT !.new = {x}])
  BY <1>2, <1>3, <1>5, <1>6
<1> QED
  BY <1>1, <1>4, <1>6

LEMMA Entered ==
  ASSUME NEW x, Enters(x)
  PROVE  DOMAIN seen' = DOMAIN seen \cup {x.arfcn}
<1>1. PICK S : seen' = Put(seen, x.arfcn, S)
  BY DEF Enters
<1> QED
  BY <1>1 DEF Put

(* It appends the station. *)
LEMMA AppendFacts ==
  ASSUME Types, NEW t \in Sweepers, AppendStation(t)
  PROVE  /\ t \in Threads /\ proc[t].at = "append" /\ Goes(t, StartsEvaluation(1))
         /\ UNCHANGED <<settings, memory, database, bounds>>
         /\ ListTypes' /\ DOMAIN list \subseteq DOMAIN list' /\ 1 \in DOMAIN list'
         /\ \E x \in proc[t].new :
              /\ x \in Sightings /\ Enters(x)
              /\ ~overlap => \A j \in DOMAIN list : list[j].arfcn # x.arfcn
              /\ DOMAIN list' = DOMAIN list \cup {Len(list) + 1} /\ list'[Len(list) + 1] = Station(x)
              /\ \A j \in DOMAIN list : list'[j] = list[j]
<1>1. t \in Threads
  BY DEF Threads
<1>2. PICK x \in proc[t].new : list' = Append(list, Station(x)) /\ Enters(x)
  BY DEF AppendStation
<1>3. /\ proc[t].at = "append" /\ Goes(t, StartsEvaluation(1))
      /\ UNCHANGED <<settings, memory, database, bounds>>
  BY DEF AppendStation
<1>4. x \in Sightings /\ scans >= 1 /\ (~overlap => \A j \in DOMAIN list : list[j].arfcn # x.arfcn)
  BY <1>1, <1>2, <1>3 DEF Types, ProcTypes, Positions, Alone
<1>5. scans' = scans /\ overlap' = overlap /\ DOMAIN seen' = DOMAIN seen \cup {x.arfcn}
  BY <1>2, <1>3, Entered DEF bounds, settings
<1>6. /\ ListTypes' /\ DOMAIN list' = 1 .. Len(list) + 1 /\ DOMAIN list = 1 .. Len(list)
      /\ Len(list) \in Nat /\ list'[Len(list) + 1] = Station(x)
      /\ \A j \in DOMAIN list : list'[j] = list[j]
  BY <1>2, <1>4, <1>5, AppendKeeps
<1>7. DOMAIN list' = DOMAIN list \cup {Len(list) + 1} /\ 1 \in DOMAIN list'
  BY <1>6
<1> QED
  BY <1>1, <1>2, <1>3, <1>4, <1>6, <1>7

(* An entry takes over what was read. *)
LEMMA RefreshFacts ==
  ASSUME Types, NEW t \in Sweepers, Refresh(t)
  PROVE  /\ t \in Threads /\ proc[t].at = "refresh" /\ Goes(t, StartsEvaluation(1))
         /\ UNCHANGED <<settings, memory, database, bounds>>
         /\ ListTypes' /\ DOMAIN list' = DOMAIN list /\ 1 \in DOMAIN list'
         /\ \E x \in proc[t].new : LET i == proc[t].i IN
              /\ x \in Sightings /\ i \in DOMAIN list /\ list'[i] = Read(list[i], x) /\ Enters(x)
              /\ list[i].arfcn = x.arfcn /\ list'[i].arfcn = list[i].arfcn
              /\ \A j \in DOMAIN list : j # i => list'[j] = list[j]
<1> DEFINE i == proc[t].i
<1>1. t \in Threads
  BY DEF Threads
<1>2. PICK x \in proc[t].new : Changes(i, Read(list[i], x)) /\ Enters(x)
  BY DEF Refresh, Changes, Read
<1>3. /\ proc[t].at = "refresh" /\ Goes(t, StartsEvaluation(1))
      /\ UNCHANGED <<settings, memory, database, bounds>>
  BY DEF Refresh
<1>4. x \in Sightings /\ i \in DOMAIN list /\ list[i] \in Entries /\ list[i].arfcn = x.arfcn
  BY <1>1, <1>2, <1>3, EntryFacts DEF Types, ProcTypes, Positions, AtEntry
<1>5. /\ Read(list[i], x) \in Entries /\ Read(list[i], x).arfcn = list[i].arfcn
      /\ Read(list[i], x).times_scanned = list[i].times_scanned
  BY <1>4, ReadEntry
<1>6. scans' = scans /\ scans \in Nat /\ list[i].times_scanned <= scans /\ overlap' = overlap
  BY <1>3, <1>4 DEF Types, ListTypes, bounds, settings
<1>7. DOMAIN seen' = DOMAIN seen
  BY <1>2, <1>4, Entered, EntryFacts
<1>8. /\ ListTypes' /\ DOMAIN list' = DOMAIN list /\ list'[i] = Read(list[i], x)
      /\ \A j \in DOMAIN list : j # i => list'[j] = list[j]
  <2> HIDE DEF i
  <2> QED
    BY <1>2, <1>4, <1>5, <1>6, <1>7, ChangeKeeps
<1>9. 1 \in DOMAIN list'
  BY <1>4, <1>8 DEF Types, ListTypes
<1> QED
  BY <1>1, <1>2, <1>3, <1>4, <1>5, <1>8, <1>9

(* A station is checked, and the rules with memory remember it: the entry they *)
(* stop at, which is the one checked where each ARFCN has one.                 *)
LEMMA CheckFacts ==
  ASSUME Types, NEW t \in Threads, CheckStation(t)
  PROVE  \E k \in DOMAIN list :
         LET i == proc[t].i
             s == list[k]
         IN /\ proc[t].at = "check" /\ i \in DOMAIN list
            /\ s.arfcn = list[i].arfcn /\ (~overlap => k = i)
            /\ UNCHANGED <<settings, list, database, bounds, seen>>
            /\ lacs' = IF "LAC Change Rule" \in active THEN Put(lacs, s.arfcn, LacMemory(s)) ELSE lacs
            /\ rxs' = IF "rx Change Rule" \in active THEN Put(rxs, s.arfcn, RxMemory(s)) ELSE rxs
            /\ \E p \in Positions : Goes(t, p) /\ p.at = "write" /\ p.i = i /\ p.report = Report(s)
<1>0. PICK i : i = proc[t].i
  OBVIOUS
<1>1. proc[t].at = "check" /\ UNCHANGED <<settings, list, database, bounds, seen>>
  BY DEF CheckStation
<1>2. i \in DOMAIN list /\ i \in Nat
  BY <1>0, <1>1, EntryFacts DEF Types, ProcTypes, AtEntry
<1>3. PICK k \in DOMAIN list : /\ Extracted(list[i].arfcn, list) = list[k]
                               /\ list[k].arfcn = list[i].arfcn /\ (~overlap => k = i)
  BY <1>2, ExtractedIn
<1> DEFINE s == list[k]
           r == Report(s)
           p == [At("write", i) EXCEPT !.report = r]
<1>4. /\ Goes(t, p)
      /\ lacs' = IF "LAC Change Rule" \in active THEN Put(lacs, s.arfcn, LacMemory(s)) ELSE lacs
      /\ rxs' = IF "rx Change Rule" \in active THEN Put(rxs, s.arfcn, RxMemory(s)) ELSE rxs
  BY <1>0, <1>3 DEF CheckStation
<1>5. r \in Reports
  BY <1>3, EntryFacts, ReportType
<1>6. p \in Positions /\ p.at = "write" /\ p.i = i /\ p.report = r
  <2>1. p = [At("write", i) EXCEPT !.report = r]
    OBVIOUS
  <2> HIDE DEF p, r, s
  <2>2. \A q : q = [At("write", i) EXCEPT !.report = r] =>
          q \in Positions /\ q.at = "write" /\ q.i = i /\ q.report = r
    BY <1>2, <1>5, WritePosition
  <2> QED
    BY <2>1, <2>2
<1> HIDE DEF p
<1> QED
  BY <1>0, <1>1, <1>2, <1>3, <1>4, <1>6

(* What was found is stored in the entry. *)
LEMMA WriteFacts ==
  ASSUME Types, NEW t \in Threads, WriteStation(t)
  PROVE  LET i == proc[t].i
         IN /\ proc[t].at = "write" /\ i \in DOMAIN list /\ proc[t].report \in Reports
            /\ Goes(t, NextStation(i)) /\ UNCHANGED <<settings, memory, database, bounds, seen>>
            /\ ListTypes' /\ DOMAIN list' = DOMAIN list
            /\ list'[i] = Judge(list[i], proc[t].report)
            /\ \A j \in DOMAIN list : j # i => list'[j] = list[j]
<1> DEFINE i == proc[t].i
           e == Judge(list[i], proc[t].report)
<1>1. /\ proc[t].at = "write" /\ Goes(t, NextStation(i)) /\ Changes(i, e)
      /\ UNCHANGED <<settings, memory, database, bounds, seen>>
  BY DEF WriteStation, Judge, Changes
<1>2. i \in DOMAIN list /\ list[i] \in Entries /\ proc[t].report \in Reports
  BY <1>1, EntryFacts DEF Types, ProcTypes, AtEntry, Positions
<1>3. e \in Entries /\ e.arfcn = list[i].arfcn /\ e.times_scanned = list[i].times_scanned
  BY <1>2, JudgedEntry DEF Alike
<1>4. scans' = scans /\ scans \in Nat /\ list[i].times_scanned <= scans /\ overlap' = overlap
  BY <1>1, <1>2 DEF Types, ListTypes, bounds, settings
<1>5. /\ ListTypes' /\ DOMAIN list' = DOMAIN list
      /\ list'[i] = e /\ \A j \in DOMAIN list : j # i => list'[j] = list[j]
  <2> HIDE DEF i, e
  <2> QED
    BY <1>1, <1>2, <1>3, <1>4, ChangeKeeps
<1> QED
  BY <1>1, <1>2, <1>5

LEMMA PagedFacts ==
  ASSUME Types, PchDone
  PROVE  /\ UNCHANGED <<settings, memory, database, proc, scans, choices, seen>>
         /\ ListTypes' /\ DOMAIN list' = DOMAIN list
         /\ \A j \in DOMAIN list :
              /\ Alike(list'[j], list[j]) /\ list'[j].times_scanned = list[j].times_scanned
              /\ list'[j].report = list[j].report /\ list'[j].evaluation = list[j].evaluation
<1>1. PICK i \in DOMAIN list, c \in Counts :
        list' = [j \in DOMAIN list |-> IF list[j].arfcn = list[i].arfcn THEN Paged(list[j], c) ELSE list[j]]
  BY DEF PchDone, Paged
<1>2. UNCHANGED <<settings, memory, database, proc, scans, choices, seen>> /\ overlap' = overlap
  BY DEF PchDone, settings
<1>3. ASSUME NEW j \in DOMAIN list
      PROVE  /\ list'[j] \in Entries
             /\ Alike(list'[j], list[j]) /\ list'[j].times_scanned = list[j].times_scanned
             /\ list'[j].report = list[j].report /\ list'[j].evaluation = list[j].evaluation
  <2>1. list[j] \in Entries /\ (list'[j] = list[j] \/ list'[j] = Paged(list[j], c))
    BY <1>1, EntryFacts
  <2> QED
    BY <2>1, PagedEntry DEF Alike
<1>4. list' \in Seq(Entries) /\ DOMAIN list' = DOMAIN list
  BY <1>1, <1>3 DEF Types, ListTypes
<1>5. \A j \in DOMAIN list : list'[j].arfcn = list[j].arfcn
  BY <1>3 DEF Alike
<1>6. ListTypes'
  BY <1>2, <1>3, <1>4, <1>5, SameArfcns DEF Types, ListTypes
<1> QED
  BY <1>2, <1>3, <1>4, <1>6

LEMMA StoredType ==
  ASSUME Types, StoreStation
  PROVE  DatabaseTypes'
<1> DEFINE i == proc["gui"].i
           s == list[i]
<1>1. i \in DOMAIN list /\ UNCHANGED cache
  BY DEF StoreStation, Types, ProcTypes, AtEntry, Threads
<1>2. s.rxlev \in Int /\ s.times_scanned \in Nat
  BY <1>1, EntryFacts DEF Entries
<1>3. NewRow(s) \in Rows
  BY <1>2 DEF NewRow, Rows
<1>4. \A row \in Rows : Altered(row, s) \in Rows
  BY <1>2 DEF Altered, Rows
<1>5. PICK row \in Rows : db' = Put(db, s.cell, row)
  <2>1. CASE s.cell \in DOMAIN db
    BY <1>4, <2>1 DEF StoreStation, Types, DatabaseTypes
  <2>2. CASE s.cell \notin DOMAIN db
    BY <1>3, <2>2 DEF StoreStation
  <2> QED
    BY <2>1, <2>2
<1> HIDE DEF s, i
<1>6. \A c \in DOMAIN db' : db'[c] \in Rows
  BY <1>5 DEF Put, Types, DatabaseTypes
<1> QED
  BY <1>1, <1>6 DEF Types, DatabaseTypes

(* What was read is entered; the rest of the types stays. *)
LEMMA RestKeeps ==
  ASSUME Types, UNCHANGED <<settings, memory, database>>, DOMAIN seen \subseteq DOMAIN seen'
  PROVE  MemoryTypes' /\ DatabaseTypes' /\ SettingTypes'
  BY DEF Types, MemoryTypes, DatabaseTypes, SettingTypes, memory, database, settings

LEMMA TypesStep ==
  ASSUME Types, [Next]_vars
  PROVE  Types'
<1>0. overlap' = overlap
  BY DEF Next, vars, settings, Found, AppendStation, Refresh, CheckStation, WriteStation, UpdateRules,
         SetEvaluator, SetLocation, UpdateLocationDatabase, StoreStation, PchDone
<1>1. ASSUME NEW t \in Sweepers, Found(t)
      PROVE  Types'
  <2>1. PICK x \in Sightings, p \in Positions :
          /\ MayStart(t) /\ UNCHANGED <<settings, memory, database, seen>> /\ Goes(t, p) /\ p.new = {x}
          /\ ListTypes' /\ scans' \in Nat /\ scans' >= 1 /\ scans' >= scans /\ DOMAIN list' = DOMAIN list
          /\ \/ /\ p.at = "append" /\ UNCHANGED list
                /\ \A j \in DOMAIN list : list[j].arfcn # x.arfcn
             \/ /\ p.at = "refresh" /\ p.i \in DOMAIN list /\ list[p.i].arfcn = x.arfcn
                /\ list'[p.i] = CountedOnce(list[p.i])
                /\ \A j \in DOMAIN list : j # p.i => list'[j] = list[j]
    BY <1>1, FoundFacts
  <2>2. t \in Threads
    BY DEF Threads
  <2>3. \A j \in DOMAIN list : list'[j].arfcn = list[j].arfcn
    BY <2>1, EntryFacts, CountEntry DEF Alike
  <2>4. ProcTypes'
    BY <2>1, <2>2, <2>3, GoesKeeps
  <2>5. Alone'
    BY <1>0, <2>1, <2>2, GoesAlone
  <2> QED
    BY <2>1, <2>4, <2>5, RestKeeps DEF Types
<1>2. ASSUME NEW t \in Sweepers, AppendStation(t)
      PROVE  Types'
  <2>1. /\ t \in Threads /\ proc[t].at = "append" /\ Goes(t, StartsEvaluation(1))
        /\ UNCHANGED <<settings, memory, database, scans>>
        /\ ListTypes' /\ DOMAIN list \subseteq DOMAIN list' /\ 1 \in DOMAIN list'
        /\ \A j \in DOMAIN list : list'[j].arfcn = list[j].arfcn
    BY <1>2, AppendFacts DEF bounds
  <2>2. DOMAIN seen \subseteq DOMAIN seen'
    BY <1>2, AppendFacts, Entered
  <2>3. ProcTypes'
    BY <2>1, GoesKeeps, FirstEvaluation DEF Types, ListTypes
  <2>4. Alone'
    BY <1>0, <2>1, GoesAlone, FirstEvaluation DEF Busy
  <2> QED
    BY <2>1, <2>2, <2>3, <2>4, RestKeeps DEF Types
<1>3. ASSUME NEW t \in Sweepers, Refresh(t)
      PROVE  Types'
  <2>1. /\ t \in Threads /\ proc[t].at = "refresh" /\ Goes(t, StartsEvaluation(1))
        /\ UNCHANGED <<settings, memory, database, scans>>
        /\ ListTypes' /\ DOMAIN list' = DOMAIN list /\ 1 \in DOMAIN list'
        /\ \A j \in DOMAIN list : list'[j].arfcn = list[j].arfcn
    BY <1>3, RefreshFacts DEF bounds
  <2>2. DOMAIN seen \subseteq DOMAIN seen'
    BY <1>3, RefreshFacts, Entered
  <2>3. ProcTypes'
    BY <2>1, GoesKeeps, FirstEvaluation DEF Types, ListTypes
  <2>4. Alone'
    BY <1>0, <2>1, GoesAlone, FirstEvaluation DEF Busy
  <2> QED
    BY <2>1, <2>2, <2>3, <2>4, RestKeeps DEF Types
<1>4. ASSUME NEW t \in Threads, CheckStation(t)
      PROVE  Types'
  <2>1. PICK k \in DOMAIN list :
          /\ proc[t].at = "check" /\ UNCHANGED <<settings, list, database, bounds, seen>>
          /\ lacs' = IF "LAC Change Rule" \in active THEN Put(lacs, list[k].arfcn, LacMemory(list[k])) ELSE lacs
          /\ rxs' = IF "rx Change Rule" \in active THEN Put(rxs, list[k].arfcn, RxMemory(list[k])) ELSE rxs
          /\ \E p \in Positions : Goes(t, p) /\ p.at = "write" /\ p.i \in DOMAIN list
    BY <1>4, CheckFacts
  <2> DEFINE s == list[k]
  <2>2. s \in Entries /\ s.arfcn \in DOMAIN seen
    BY EntryFacts
  <2>3. LacMemory(s) \in Memories /\ RxMemory(s) \in Memories
    BY <2>2, RememberedTypes
  <2>4. ProcTypes'
    <3>1. scans' = scans /\ scans \in Nat /\ list' = list
      BY <2>1 DEF bounds, Types, ListTypes
    <3>2. PICK p \in Positions : Goes(t, p) /\ p.at = "write" /\ p.i \in DOMAIN list
      BY <2>1
    <3> QED
      BY <3>1, <3>2, GoesKeeps
  <2>5. Alone'
    BY <1>0, <2>1, GoesAlone DEF Busy
  <2>6. MemoryTypes'
    <3>1. ASSUME NEW f, NEW v \in Memories, \A a \in DOMAIN f : f[a] \in Memories, DOMAIN f \subseteq DOMAIN seen
          PROVE  LET g == Put(f, s.arfcn, v) IN
                   (\A a \in DOMAIN g : g[a] \in Memories) /\ DOMAIN g \subseteq DOMAIN seen
      <4> HIDE DEF s
      <4> QED
        BY <2>2, <3>1, SMT DEF Put
    <3>2. UNCHANGED seen
      BY <2>1
    <3>3. (\A a \in DOMAIN lacs' : lacs'[a] \in Memories) /\ DOMAIN lacs' \subseteq DOMAIN seen
      BY <2>1, <2>3, <3>1 DEF Types, MemoryTypes
    <3>4. (\A a \in DOMAIN rxs' : rxs'[a] \in Memories) /\ DOMAIN rxs' \subseteq DOMAIN seen
      BY <2>1, <2>3, <3>1 DEF Types, MemoryTypes
    <3> QED
      BY <3>2, <3>3, <3>4 DEF MemoryTypes
  <2> QED
    BY <2>1, <2>4, <2>5, <2>6 DEF Types, ListTypes, OneEntry, DatabaseTypes, SettingTypes, database, settings, bounds
<1>5. ASSUME NEW t \in Threads, WriteStation(t)
      PROVE  Types'
  <2>1. /\ proc[t].at = "write" /\ proc[t].i \in DOMAIN list /\ proc[t].report \in Reports
        /\ Goes(t, NextStation(proc[t].i)) /\ UNCHANGED <<settings, memory, database, scans, seen>>
        /\ ListTypes' /\ DOMAIN list' = DOMAIN list
        /\ list'[proc[t].i] = Judge(list[proc[t].i], proc[t].report)
        /\ \A j \in DOMAIN list : j # proc[t].i => list'[j] = list[j]
    BY <1>5, WriteFacts DEF bounds
  <2>2. \A j \in DOMAIN list : list'[j].arfcn = list[j].arfcn
    BY <2>1, EntryFacts, JudgedEntry DEF Alike
  <2>3. PICK p \in Positions : Goes(t, p) /\ (p.at = "idle" \/ (p.at = "check" /\ p.i \in DOMAIN list))
    BY <2>1, Nexts DEF NextStation
  <2>4. ProcTypes'
    BY <2>1, <2>2, <2>3, GoesKeeps DEF Types, ListTypes
  <2>5. Alone'
    BY <1>0, <2>1, <2>3, GoesAlone DEF Busy
  <2> QED
    BY <2>1, <2>4, <2>5, RestKeeps DEF Types
<1>6. CASE UpdateRules \/ SetEvaluator
  <2>1. /\ Goes("gui", StartsEvaluation(Len(list))) /\ MayStart("gui")
        /\ UNCHANGED <<overlap, list, memory, database, scans, seen>>
    BY <1>6 DEF UpdateRules, SetEvaluator, Chooses
  <2>2. active' \in RuleSets /\ evaluator' \in Evaluators
    BY <1>6 DEF UpdateRules, SetEvaluator, Types, SettingTypes
  <2>3. PICK p \in Positions : Goes("gui", p) /\ (p.at = "idle" \/ (p.at = "check" /\ p.i \in DOMAIN list))
    BY <2>1, Starts DEF Types, ListTypes
  <2>4. scans' = scans /\ scans \in Nat /\ list' = list /\ "gui" \in Threads
    BY <2>1 DEF Threads, Types, ListTypes
  <2>5. ProcTypes'
    BY <2>1, <2>3, <2>4, GoesKeeps
  <2>6. Alone'
    BY <2>1, <2>3, <2>4, GoesAlone
  <2> QED
    BY <2>1, <2>2, <2>5, <2>6 DEF Types, ListTypes, OneEntry, MemoryTypes, DatabaseTypes, SettingTypes, memory, database
<1>7. CASE SetLocation
  <2>1. UNCHANGED <<settings, list, memory, db, proc, scans, seen>> /\ cache' = db
    BY <1>7 DEF SetLocation
  <2>2. ProcTypes' /\ Alone'
    BY <1>0, <2>1, WaitsKeeps, WaitsAlone
  <2> QED
    BY <2>1, <2>2 DEF Types, ListTypes, OneEntry, MemoryTypes, DatabaseTypes, SettingTypes, memory, settings
<1>8. CASE UpdateLocationDatabase
  <2>1. /\ Goes("gui", At("store", 1)) /\ MayStart("gui") /\ list # <<>> /\ cache' = db
        /\ UNCHANGED <<settings, list, memory, db, stored, scans, pchs, seen>>
    BY <1>8 DEF UpdateLocationDatabase, Chooses
  <2>2. 1 \in DOMAIN list
    BY <2>1, EmptySeq DEF Types, ListTypes
  <2>3. PICK p \in Positions : Goes("gui", p) /\ p.at = "store" /\ p.i = 1
    BY <2>1, AtPosition
  <2>4. ProcTypes' /\ Alone'
    BY <1>0, <2>1, <2>2, <2>3, GoesKeeps, GoesAlone DEF Threads, Types, ListTypes
  <2> QED
    BY <2>1, <2>4 DEF Types, ListTypes, OneEntry, MemoryTypes, DatabaseTypes, SettingTypes, memory, settings
<1>9. CASE StoreStation
  <2> DEFINE i == proc["gui"].i
  <2>1. /\ Goes("gui", IF i < Len(list) THEN At("store", i + 1) ELSE Idle) /\ proc["gui"].at = "store"
        /\ UNCHANGED <<settings, list, memory, cache, bounds, seen>>
    BY <1>9 DEF StoreStation
  <2>2. i \in DOMAIN list /\ "gui" \in Threads
    BY <2>1 DEF Types, ProcTypes, AtEntry, Threads
  <2>3. PICK p : p = IF i < Len(list) THEN At("store", i + 1) ELSE Idle
    OBVIOUS
  <2>4. p \in Positions /\ (p.at = "idle" \/ (p.at = "store" /\ p.i \in DOMAIN list))
    BY <2>2, <2>3, Nexts
  <2>5. ProcTypes' /\ Alone'
    BY <1>0, <2>1, <2>2, <2>3, <2>4, GoesKeeps, GoesAlone DEF Busy, bounds, Types, ListTypes
  <2> QED
    BY <1>9, <2>1, <2>5, StoredType DEF Types, ListTypes, OneEntry, MemoryTypes, SettingTypes, memory, settings, bounds
<1>10. CASE PchDone
  <2>1. /\ UNCHANGED <<settings, memory, database, proc, scans, seen>> /\ ListTypes' /\ DOMAIN list' = DOMAIN list
        /\ \A j \in DOMAIN list : list'[j].arfcn = list[j].arfcn
    BY <1>10, PagedFacts DEF Alike
  <2>2. ProcTypes' /\ Alone'
    BY <1>0, <2>1, WaitsKeeps, WaitsAlone
  <2> QED
    BY <2>1, <2>2, RestKeeps DEF Types
<1>11. CASE UNCHANGED vars
  <2>1. UNCHANGED <<settings, list, memory, database, proc, scans, seen>>
    BY <1>11 DEF vars, bounds
  <2>2. ProcTypes' /\ Alone'
    BY <1>0, <2>1, WaitsKeeps, WaitsAlone
  <2> QED
    BY <2>1, <2>2, RestKeeps DEF Types, ListTypes, OneEntry, settings
<1> QED
  BY <1>1, <1>2, <1>3, <1>4, <1>5, <1>6, <1>7, <1>8, <1>9, <1>10, <1>11 DEF Next

LEMMA InitTypes ==
  ASSUME Init
  PROVE  Types
<1>1. /\ list = <<>> /\ lacs = Empty /\ rxs = Empty /\ db = Empty /\ cache = Empty /\ seen = Empty
      /\ proc = [t \in Threads |-> Idle] /\ scans = 0
      /\ overlap \in BOOLEAN /\ active \in RuleSets /\ evaluator \in Evaluators
  BY StationsAssumption DEF Init, Evaluators
<1>2. DOMAIN Empty = {}
  BY DEF Empty
<1>3. <<>> \in Seq(Entries) /\ DOMAIN <<>> = {}
  OBVIOUS
<1>4. ListTypes
  BY <1>1, <1>2, <1>3 DEF ListTypes, OneEntry
<1>5. ProcTypes /\ Alone
  BY <1>1, IdlePosition DEF ProcTypes, Alone, AtEntry, Busy
<1> QED
  BY <1>1, <1>2, <1>4, <1>5 DEF Types, MemoryTypes, DatabaseTypes, SettingTypes

LEMMA TypeInvariant == Spec => []Types
<1>1. Init => Types
  BY InitTypes
<1>2. Types /\ [Next]_vars => Types'
  BY TypesStep
<1> QED
  BY <1>1, <1>2, PTL DEF Spec

(* However the handlers of any number of sweep threads, the GUI and the PCH    *)
(* thread overlap, the list holds the ARFCNs read and no other, no loop stands *)
(* beside it and all is of its type; and where handlers take turns each ARFCN  *)
(* has one entry, although it is looked for in one step and appended in the    *)
(* next (pyCatcherModel.py:101-120).                                           *)
THEOREM TypeCorrect == Spec => []TypeOK
<1>1. Types => TypeOK
  <2> SUFFICES ASSUME Types PROVE TypeOK
    OBVIOUS
  <2>1. \A f \in Reports : IsReport(f)
    BY DEF Reports, IsReport
  <2>2. \A i \in DOMAIN list :
          /\ list[i].times_scanned \in 1 .. scans
          /\ IsReport(list[i].report)
          /\ list[i].evaluation \in {"NYE", "Ok", "Warning", "Critical"}
          /\ list[i].pch \in Counts \cup {NotScanned}
    <3> SUFFICES ASSUME NEW i \in DOMAIN list
                 PROVE  /\ list[i].times_scanned \in 1 .. scans
                        /\ IsReport(list[i].report)
                        /\ list[i].evaluation \in {"NYE", "Ok", "Warning", "Critical"}
                        /\ list[i].pch \in Counts \cup {NotScanned}
      OBVIOUS
    <3>1. list[i] \in Entries /\ list[i].times_scanned <= scans /\ scans \in Nat
      BY EntryFacts DEF Types, ListTypes
    <3> QED
      BY <2>1, <3>1 DEF Entries
  <2> QED
    BY <2>2 DEF TypeOK, Types, ListTypes, ProcTypes, MemoryTypes, DatabaseTypes, SettingTypes, AtEntry
<1> QED
  BY <1>1, TypeInvariant, PTL

(* As long as each ARFCN has one entry, what a context rule finds does not     *)
(* depend on the order in which the stations were read: loops that stop at the *)
(* first match and loops that keep the last one take the same entry, and the   *)
(* loop that breaks at a neighbour passes all stations unless it finds one.    *)
THEOREM FindingsOrderFree == Spec => []OrderFree
<1>1. Types => OrderFree
  <2> SUFFICES ASSUME Types, OneEntry, NEW r \in ContextRules, NEW i \in DOMAIN list
               PROVE  Check(r, list[i].arfcn, list) = Check(r, list[i].arfcn, Reverse(list))
    BY DEF OrderFree
  <2>1. PICK p : Rearranged(list, Reverse(list), p)
    BY ReverseRearranges DEF Types, ListTypes
  <2>2. IsFiniteSet(DOMAIN list) /\ DOMAIN list \subseteq Nat /\ DOMAIN Reverse(list) \subseteq Nat
    BY FS_Interval DEF Types, ListTypes, Reverse
  <2>3. Single(list)
    BY DEF Single, OneEntry
  <2>4. PICK k \in DOMAIN Reverse(list) : p[k] = i /\ Reverse(list)[k].arfcn = list[i].arfcn
    BY <2>1 DEF Rearranged, Bijection, Surjection, Alike
  <2>5. Check(r, Reverse(list)[k].arfcn, Reverse(list)) = Check(r, list[p[k]].arfcn, list)
    BY <2>1, <2>2, <2>3, CheckRearranged
  <2> QED
    BY <2>4, <2>5
<1> QED
  BY <1>1, TypeInvariant, PTL

-----------------------------------------------------------------------------
(* The local area database. *)

(* A row spans the levels stored of its cell, and ends at two of them. *)
Spans(row, levels) ==
  /\ \A lev \in levels : lev \in Int /\ row.rxmin <= lev /\ lev <= row.rxmax
  /\ {row.rxmin, row.rxmax} \subseteq levels

Learned == DOMAIN db = DOMAIN stored /\ \A c \in DOMAIN db : Spans(db[c], stored[c])

LEMMA LearnedStep ==
  ASSUME Types, Learned, [Next]_vars
  PROVE  Learned'
<1>1. CASE StoreStation
  <2> DEFINE s == list[proc["gui"].i]
             c == s.cell
             old == IF c \in DOMAIN stored THEN stored[c] ELSE {}
             levels == {s.rxlev} \cup old
             row == IF c \in DOMAIN db THEN Altered(db[c], s) ELSE NewRow(s)
  <2>1. db' = Put(db, c, row) /\ stored' = Put(stored, c, levels)
    BY <1>1 DEF StoreStation
  <2>2. s.rxlev \in Int
    <3>1. proc["gui"].i \in DOMAIN list
      BY <1>1 DEF StoreStation, Types, ProcTypes, AtEntry, Threads
    <3> QED
      BY <3>1, EntryFacts DEF Entries
  <2>3. Spans(row, levels)
    <3>1. CASE c \in DOMAIN db
      <4>1. db[c] \in Rows /\ Spans(db[c], stored[c]) /\ old = stored[c]
        BY <3>1 DEF Types, DatabaseTypes, Learned
      <4>2. row = Altered(db[c], s)
        BY <3>1
      <4> HIDE DEF row, old, s, c
      <4>3. /\ row.rxmin = IF s.rxlev < db[c].rxmin THEN s.rxlev ELSE db[c].rxmin
            /\ row.rxmax = IF s.rxlev > db[c].rxmax THEN s.rxlev ELSE db[c].rxmax
        BY <4>2 DEF Altered
      <4>4. db[c].rxmin \in Int /\ db[c].rxmax \in Int
        BY <4>1 DEF Rows
      <4> QED
        BY <2>2, <4>1, <4>3, <4>4 DEF Spans
    <3>2. CASE c \notin DOMAIN db
      <4>1. old = {} /\ row = NewRow(s)
        BY <3>2 DEF Learned
      <4> HIDE DEF row, old, s, c
      <4>2. row.rxmin = s.rxlev /\ row.rxmax = s.rxlev
        BY <4>1 DEF NewRow
      <4> QED
        BY <2>2, <4>1, <4>2 DEF Spans
    <3> QED
      BY <3>1, <3>2
  <2> HIDE DEF row, levels, c
  <2> QED
    BY <2>1, <2>3 DEF Put, Learned
<1>2. CASE UNCHANGED <<db, stored>>
  BY <1>2 DEF Learned
<1>3. \A t : Found(t) \/ AppendStation(t) \/ Refresh(t) \/ CheckStation(t) \/ WriteStation(t)
        => UNCHANGED <<db, stored>>
  BY DEF Found, AppendStation, Refresh, CheckStation, WriteStation, database
<1>4. UpdateRules \/ SetEvaluator \/ SetLocation \/ UpdateLocationDatabase \/ PchDone \/ UNCHANGED vars
        => UNCHANGED <<db, stored>>
  BY DEF UpdateRules, SetEvaluator, SetLocation, UpdateLocationDatabase, PchDone, database, vars
<1> QED
  BY <1>1, <1>2, <1>3, <1>4 DEF Next

(* The range a tolerance adds to a row is at its ends. *)
LEMMA Tolerance ==
  ASSUME NEW row \in Rows, NEW lev \in Int, row.rxmin <= lev, lev <= row.rxmax
  PROVE  InRange(lev, row)
<1>1. row.rxmin \in Int /\ row.rxmax \in Int /\ DB_RX_threshold \in Nat
  BY RulesAssumption DEF Rows
<1>2. \A n \in Int : Abs(n) \in Nat
  BY DEF Abs
<1>3. \A m, n \in Nat : m * n \in Nat
  OBVIOUS
<1>4. /\ Abs(row.rxmin) * DB_RX_threshold \in Nat
      /\ Abs(row.rxmax) * DB_RX_threshold \in Nat
  BY <1>1, <1>2, <1>3
<1> DEFINE lo == Abs(row.rxmin) * DB_RX_threshold
           hi == Abs(row.rxmax) * DB_RX_threshold
           a == row.rxmin
           b == row.rxmax
<1>5. lo \in Nat /\ hi \in Nat /\ a \in Int /\ b \in Int /\ a <= lev /\ lev <= b
  BY <1>1, <1>4
<1> HIDE DEF lo, hi, a, b
<1>6. 100 * lev >= 100 * a - lo /\ 100 * lev <= 100 * b + hi
  BY <1>5
<1> QED
  BY <1>6 DEF InRange, lo, hi, a, b

(* A level that was stored for a cell is within what its row allows, for any *)
(* levels, in whatever order they are stored.                                *)
THEOREM LevelsAreLearned == Spec => []LevelsLearned
<1>1. Init => Learned
  BY DEF Init, Learned, Empty
<1>2. Types /\ Learned => LevelsLearned
  BY Tolerance DEF Types, DatabaseTypes, Learned, Spans, LevelsLearned
<1>3. Types /\ Learned /\ [Next]_vars => Learned'
  BY LearnedStep
<1> QED
  BY <1>1, <1>2, <1>3, TypeInvariant, PTL DEF Spec

-----------------------------------------------------------------------------
(* Changed location areas. *)

(* The report says that the LAC changed. *)
Blames(report) ==
  "LAC Change Rule" \in DOMAIN report /\ report["LAC Change Rule"] = "Critical"

Several(S) == \E m, n \in S : m # n

Seen ==
  /\ \A a \in DOMAIN seen : IsFiniteSet(seen[a])
  /\ \A i \in DOMAIN list : LET s == list[i] IN
       s.lac \in seen[s.arfcn] /\ (Blames(s.report) => Several(seen[s.arfcn]))
  /\ \A t \in Threads :
       proc[t].at = "write" /\ Blames(proc[t].report) => Several(seen[list[proc[t].i].arfcn])
  /\ \A a \in DOMAIN lacs :
       lacs[a].value \in seen[a] /\ (lacs[a].result = "Critical" => Several(seen[a]))

(* What was seen is not forgotten. *)
LEMMA SeenGrows ==
  ASSUME NEW x, Types, Seen, Enters(x)
  PROVE  /\ DOMAIN seen' = DOMAIN seen \cup {x.arfcn} /\ x.lac \in seen'[x.arfcn]
         /\ \A a \in DOMAIN seen : seen[a] \subseteq seen'[a] /\ (Several(seen[a]) => Several(seen'[a]))
         /\ \A a \in DOMAIN seen' : IsFiniteSet(seen'[a])
<1> DEFINE old == IF x.arfcn \in DOMAIN seen THEN seen[x.arfcn] ELSE {}
           new == {x.lac} \cup old
<1>1. seen' = Put(seen, x.arfcn, new)
  BY DEF Enters
<1>2. x.lac \in new /\ (x.arfcn \in DOMAIN seen => seen[x.arfcn] \subseteq new)
  OBVIOUS
<1>3. IsFiniteSet(new)
  <2>1. IsFiniteSet(old)
    BY FS_EmptySet DEF Seen
  <2>2. IsFiniteSet(old \cup {x.lac})
    BY <2>1, FS_AddElement
  <2>3. new = old \cup {x.lac}
    OBVIOUS
  <2> QED
    BY <2>2, <2>3
<1> HIDE DEF new
<1>4. /\ DOMAIN seen' = DOMAIN seen \cup {x.arfcn} /\ seen'[x.arfcn] = new
      /\ \A a \in DOMAIN seen : a # x.arfcn => seen'[a] = seen[a]
  BY <1>1 DEF Put
<1>5. \A a \in DOMAIN seen : seen[a] \subseteq seen'[a]
  BY <1>2, <1>4
<1>6. \A a \in DOMAIN seen : Several(seen[a]) => Several(seen'[a])
  BY <1>5 DEF Several
<1>7. \A a \in DOMAIN seen' : IsFiniteSet(seen'[a])
  BY <1>3, <1>4 DEF Seen
<1> QED
  BY <1>2, <1>4, <1>5, <1>6, <1>7

(* What the rule remembers of a station, and finds. *)
LEMMA LacRemembered ==
  ASSUME Types, Seen, NEW s \in Entries, s.arfcn \in DOMAIN seen, s.lac \in seen[s.arfcn]
  PROVE  LET m == LacMemory(s) IN
           m.value \in seen[s.arfcn] /\ (m.result = "Critical" => Several(seen[s.arfcn]))
<1> DEFINE old == Remembered(lacs, s, s.lac)
<1>1. old.value \in seen[s.arfcn] /\ (old.result = "Critical" => Several(seen[s.arfcn]))
  BY DEF Remembered, Entry, Seen
<1> HIDE DEF old
<1>2. LacMemory(s) = IF ~Fresh(s, old) THEN old ELSE Entry(old.value, s, Verdict(s.lac = old.value))
  BY DEF LacMemory, LACChangeRule, old
<1>3. LET e == Entry(old.value, s, Verdict(s.lac = old.value))
      IN e.value = old.value /\ (e.result = "Critical" => s.lac # old.value)
  BY DEF Entry, Verdict
<1> QED
  BY <1>1, <1>2, <1>3 DEF Several

(* A step after which every entry has a LAC that was seen, and is blamed only   *)
(* when several were; no thread but t is elsewhere.                            *)
LEMMA SeenKeeps ==
  ASSUME Types, Seen, NEW t \in Threads, \A u \in Threads : u # t => proc'[u] = proc[u],
         DOMAIN seen \subseteq DOMAIN seen',
         \A a \in DOMAIN seen : Several(seen[a]) => Several(seen'[a]),
         \A a \in DOMAIN seen' : IsFiniteSet(seen'[a]),
         \A j \in DOMAIN list : list'[j].arfcn = list[j].arfcn,
         \A j \in DOMAIN list' :
           /\ list'[j].lac \in seen'[list'[j].arfcn]
           /\ Blames(list'[j].report) => Several(seen'[list'[j].arfcn]),
         proc'[t].at = "write" /\ Blames(proc'[t].report) => Several(seen'[list'[proc'[t].i].arfcn]),
         \A a \in DOMAIN lacs' :
           lacs'[a].value \in seen'[a] /\ (lacs'[a].result = "Critical" => Several(seen'[a]))
  PROVE  Seen'
<1>1. ASSUME NEW u \in Threads, u # t, proc[u].at = "write", Blames(proc[u].report)
      PROVE  Several(seen'[list'[proc[u].i].arfcn])
  <2>1. proc[u].i \in DOMAIN list
    BY <1>1 DEF Types, ProcTypes, AtEntry
  <2>2. Several(seen[list[proc[u].i].arfcn]) /\ list[proc[u].i].arfcn \in DOMAIN seen
    BY <1>1, <2>1, EntryFacts DEF Seen
  <2> QED
    BY <2>1, <2>2
<1> QED
  BY <1>1 DEF Seen

(* A sighting is entered: what was blamed rightly still is. *)
LEMMA EntersKeeps ==
  ASSUME Types, Seen, NEW x, Enters(x), UNCHANGED lacs
  PROVE  /\ \A j \in DOMAIN list :
             list[j].lac \in seen'[list[j].arfcn] /\ (Blames(list[j].report) => Several(seen'[list[j].arfcn]))
         /\ \A a \in DOMAIN lacs' :
              lacs'[a].value \in seen'[a] /\ (lacs'[a].result = "Critical" => Several(seen'[a]))
<1>1. \A a \in DOMAIN seen : seen[a] \subseteq seen'[a] /\ (Several(seen[a]) => Several(seen'[a]))
  BY SeenGrows
<1>2. \A j \in DOMAIN list : list[j].arfcn \in DOMAIN seen
  BY EntryFacts
<1>3. DOMAIN lacs \subseteq DOMAIN seen
  BY DEF Types, MemoryTypes
<1> QED
  BY <1>1, <1>2, <1>3 DEF Seen

LEMMA SeenStep ==
  ASSUME Types, Seen, [Next]_vars
  PROVE  Seen'
<1>1. ASSUME UNCHANGED <<seen, lacs>>, DOMAIN list' = DOMAIN list, NEW t \in Threads,
             \A j \in DOMAIN list : /\ list'[j].arfcn = list[j].arfcn /\ list'[j].lac \in seen[list[j].arfcn]
                                    /\ Blames(list'[j].report) => Several(seen[list[j].arfcn]),
             \A u \in Threads : u # t => proc'[u] = proc[u],
             proc'[t].at # "write" \/ proc'[t] = proc[t]
      PROVE  Seen'
  <2>1. \A a \in DOMAIN seen' : IsFiniteSet(seen'[a])
    BY <1>1 DEF Seen
  <2>2. \A j \in DOMAIN list' : /\ list'[j].lac \in seen'[list'[j].arfcn]
                                /\ Blames(list'[j].report) => Several(seen'[list'[j].arfcn])
    BY <1>1
  <2>3. proc'[t].at = "write" /\ Blames(proc'[t].report) => Several(seen'[list'[proc'[t].i].arfcn])
    <3> SUFFICES ASSUME proc[t].at = "write", proc'[t] = proc[t], Blames(proc[t].report)
                 PROVE  Several(seen'[list'[proc[t].i].arfcn])
      BY <1>1
    <3>1. proc[t].i \in DOMAIN list
      BY DEF Types, ProcTypes, AtEntry
    <3> QED
      BY <1>1, <3>1 DEF Seen
  <2>4. \A a \in DOMAIN lacs' :
          lacs'[a].value \in seen'[a] /\ (lacs'[a].result = "Critical" => Several(seen'[a]))
    BY <1>1 DEF Seen
  <2> QED
    BY <1>1, <2>1, <2>2, <2>3, <2>4, SeenKeeps
<1>2. ASSUME NEW t \in Sweepers, Found(t)
      PROVE  Seen'
  <2>1. PICK x \in Sightings, p \in Positions :
          /\ UNCHANGED <<memory, seen>> /\ Goes(t, p) /\ DOMAIN list' = DOMAIN list
          /\ \/ p.at = "append" /\ UNCHANGED list
             \/ /\ p.at = "refresh" /\ p.i \in DOMAIN list /\ list'[p.i] = CountedOnce(list[p.i])
                /\ \A j \in DOMAIN list : j # p.i => list'[j] = list[j]
    BY <1>2, FoundFacts
  <2>2. \A j \in DOMAIN list :
          /\ list'[j].arfcn = list[j].arfcn /\ list'[j].lac = list[j].lac /\ list'[j].report = list[j].report
    BY <2>1, EntryFacts, CountEntry DEF Alike
  <2>3. \A j \in DOMAIN list : /\ list'[j].arfcn = list[j].arfcn /\ list'[j].lac \in seen[list[j].arfcn]
                               /\ Blames(list'[j].report) => Several(seen[list[j].arfcn])
    BY <2>2 DEF Seen
  <2>4. t \in Threads
    BY DEF Threads
  <2>5. proc'[t] = p /\ \A u \in Threads : u # t => proc'[u] = proc[u]
    BY <2>1, <2>4, GoesFacts
  <2> QED
    BY <1>1, <2>1, <2>3, <2>4, <2>5 DEF memory
<1>3. ASSUME NEW t \in Sweepers, AppendStation(t)
      PROVE  Seen'
  <2>1. /\ t \in Threads /\ Goes(t, StartsEvaluation(1)) /\ UNCHANGED memory
    BY <1>3, AppendFacts
  <2>2. PICK x \in proc[t].new :
          /\ x \in Sightings /\ Enters(x)
          /\ DOMAIN list' = DOMAIN list \cup {Len(list) + 1} /\ list'[Len(list) + 1] = Station(x)
          /\ \A j \in DOMAIN list : list'[j] = list[j]
    BY <1>3, AppendFacts
  <2>3. /\ DOMAIN seen' = DOMAIN seen \cup {x.arfcn} /\ x.lac \in seen'[x.arfcn]
        /\ \A a \in DOMAIN seen : Several(seen[a]) => Several(seen'[a])
        /\ \A a \in DOMAIN seen' : IsFiniteSet(seen'[a])
    BY <2>2, SeenGrows
  <2>4. Station(x).arfcn = x.arfcn /\ Station(x).lac = x.lac /\ ~Blames(Station(x).report)
    BY <2>2, NewEntry DEF Blames, NoReport
  <2>5. /\ \A j \in DOMAIN list :
             list[j].lac \in seen'[list[j].arfcn] /\ (Blames(list[j].report) => Several(seen'[list[j].arfcn]))
        /\ \A a \in DOMAIN lacs' :
             lacs'[a].value \in seen'[a] /\ (lacs'[a].result = "Critical" => Several(seen'[a]))
    BY <2>1, <2>2, EntersKeeps DEF memory
  <2>6. \A j \in DOMAIN list' : /\ list'[j].lac \in seen'[list'[j].arfcn]
                                /\ Blames(list'[j].report) => Several(seen'[list'[j].arfcn])
    <3> SUFFICES ASSUME NEW j \in DOMAIN list'
                 PROVE  /\ list'[j].lac \in seen'[list'[j].arfcn]
                        /\ Blames(list'[j].report) => Several(seen'[list'[j].arfcn])
      OBVIOUS
    <3>1. CASE j \in DOMAIN list
      <4>1. list'[j] = list[j]
        BY <2>2, <3>1
      <4>2. list[j].lac \in seen'[list[j].arfcn] /\ (Blames(list[j].report) => Several(seen'[list[j].arfcn]))
        BY <2>5, <3>1
      <4>3. list'[j].arfcn = list[j].arfcn /\ list'[j].lac = list[j].lac /\ list'[j].report = list[j].report
        BY <4>1
      <4> QED
        BY <4>2, <4>3
    <3>2. CASE j = Len(list) + 1
      BY <2>2, <2>3, <2>4, <3>2
    <3> QED
      BY <2>2, <3>1, <3>2
  <2>7. proc'[t].at = "check" /\ \A u \in Threads : u # t => proc'[u] = proc[u]
    BY <2>1, GoesFacts, FirstEvaluation
  <2> QED
    BY <2>1, <2>2, <2>3, <2>5, <2>6, <2>7, SeenKeeps
<1>4. ASSUME NEW t \in Sweepers, Refresh(t)
      PROVE  Seen'
  <2> DEFINE i == proc[t].i
  <2>1. /\ t \in Threads /\ Goes(t, StartsEvaluation(1)) /\ UNCHANGED memory /\ DOMAIN list' = DOMAIN list
    BY <1>4, RefreshFacts
  <2>2. PICK x \in proc[t].new :
          /\ x \in Sightings /\ i \in DOMAIN list /\ list'[i] = Read(list[i], x) /\ Enters(x)
          /\ list[i].arfcn = x.arfcn /\ \A j \in DOMAIN list : j # i => list'[j] = list[j]
    BY <1>4, RefreshFacts
  <2>3. /\ DOMAIN seen' = DOMAIN seen \cup {x.arfcn} /\ x.lac \in seen'[x.arfcn]
        /\ \A a \in DOMAIN seen : Several(seen[a]) => Several(seen'[a])
        /\ \A a \in DOMAIN seen' : IsFiniteSet(seen'[a])
    BY <2>2, SeenGrows
  <2>4. list'[i].arfcn = list[i].arfcn /\ list'[i].lac = x.lac /\ list'[i].report = list[i].report
    BY <2>2, EntryFacts, ReadEntry
  <2>5. /\ \A j \in DOMAIN list :
             list[j].lac \in seen'[list[j].arfcn] /\ (Blames(list[j].report) => Several(seen'[list[j].arfcn]))
        /\ \A a \in DOMAIN lacs' :
             lacs'[a].value \in seen'[a] /\ (lacs'[a].result = "Critical" => Several(seen'[a]))
    BY <2>1, <2>2, EntersKeeps DEF memory
  <2>6. \A j \in DOMAIN list : /\ list'[j].arfcn = list[j].arfcn
                               /\ list'[j].lac \in seen'[list[j].arfcn]
                               /\ Blames(list'[j].report) => Several(seen'[list[j].arfcn])
    <3> HIDE DEF i
    <3> SUFFICES ASSUME NEW j \in DOMAIN list
                 PROVE  /\ list'[j].arfcn = list[j].arfcn
                        /\ list'[j].lac \in seen'[list[j].arfcn]
                        /\ Blames(list'[j].report) => Several(seen'[list[j].arfcn])
      OBVIOUS
    <3>1. CASE j = i
      <4>1. list[i].arfcn = x.arfcn
        BY <2>2
      <4>2. list'[i].lac \in seen'[list[i].arfcn]
        BY <2>3, <2>4, <4>1
      <4>3. Blames(list[i].report) => Several(seen'[list[i].arfcn])
        BY <2>2, <2>5
      <4>4. Blames(list'[i].report) => Several(seen'[list[i].arfcn])
        BY <2>4, <4>3
      <4> QED
        BY <2>4, <3>1, <4>2, <4>4
    <3>2. CASE j # i
      <4>1. list'[j] = list[j]
        BY <2>2, <3>2
      <4>2. list[j].lac \in seen'[list[j].arfcn] /\ (Blames(list[j].report) => Several(seen'[list[j].arfcn]))
        BY <2>5
      <4>3. list'[j].arfcn = list[j].arfcn /\ list'[j].lac = list[j].lac /\ list'[j].report = list[j].report
        BY <4>1
      <4> QED
        BY <4>2, <4>3
    <3> QED
      BY <3>1, <3>2
  <2>7. proc'[t].at = "check" /\ \A u \in Threads : u # t => proc'[u] = proc[u]
    BY <2>1, GoesFacts, FirstEvaluation
  <2> QED
    BY <2>1, <2>3, <2>5, <2>6, <2>7, SeenKeeps
<1>5. ASSUME NEW t \in Threads, CheckStation(t)
      PROVE  Seen'
  <2>0. PICK i : i = proc[t].i
    OBVIOUS
  <2>1. PICK k \in DOMAIN list :
          /\ UNCHANGED <<list, seen>> /\ i \in DOMAIN list /\ list[k].arfcn = list[i].arfcn
          /\ lacs' = IF "LAC Change Rule" \in active THEN Put(lacs, list[k].arfcn, LacMemory(list[k])) ELSE lacs
          /\ \E p \in Positions : Goes(t, p) /\ p.at = "write" /\ p.i = i /\ p.report = Report(list[k])
    BY <1>5, <2>0, CheckFacts
  <2> DEFINE s == list[k]
  <2>2. PICK p \in Positions : Goes(t, p) /\ p.at = "write" /\ p.i = i /\ p.report = Report(s)
    BY <2>1
  <2>3. s \in Entries /\ s.arfcn \in DOMAIN seen /\ s.lac \in seen[s.arfcn]
    BY EntryFacts DEF Seen
  <2>4. LacMemory(s).value \in seen[s.arfcn] /\ (LacMemory(s).result = "Critical" => Several(seen[s.arfcn]))
    BY <2>3, LacRemembered
  <2>5. Blames(Report(s)) => Several(seen[s.arfcn])
    BY <2>4 DEF Blames, Report
  <2>6. \A a \in DOMAIN lacs' : lacs'[a].value \in seen[a] /\ (lacs'[a].result = "Critical" => Several(seen[a]))
    <3>1. \A a \in DOMAIN lacs : lacs[a].value \in seen[a] /\ (lacs[a].result = "Critical" => Several(seen[a]))
      BY DEF Seen
    <3> DEFINE m == LacMemory(s)
               a == s.arfcn
    <3>2. m.value \in seen[a] /\ (m.result = "Critical" => Several(seen[a]))
      BY <2>4
    <3>3. lacs' = lacs \/ lacs' = Put(lacs, a, m)
      BY <2>1
    <3> HIDE DEF m, a
    <3> QED
      BY <3>1, <3>2, <3>3 DEF Put
  <2>7. proc'[t] = p /\ \A u \in Threads : u # t => proc'[u] = proc[u]
    BY <2>2, GoesFacts
  <2>8. proc'[t].at = "write" /\ Blames(proc'[t].report) => Several(seen[list[proc'[t].i].arfcn])
    BY <2>1, <2>2, <2>5, <2>7
  <2>9. seen' = seen /\ list' = list /\ \A a \in DOMAIN seen : IsFiniteSet(seen[a])
    BY <2>1 DEF Seen
  <2>10. \A j \in DOMAIN list : list[j].lac \in seen[list[j].arfcn]
           /\ (Blames(list[j].report) => Several(seen[list[j].arfcn]))
    BY DEF Seen
  <2> HIDE DEF s
  <2> QED
    BY <2>6, <2>7, <2>8, <2>9, <2>10, SeenKeeps
<1>6. ASSUME NEW t \in Threads, WriteStation(t)
      PROVE  Seen'
  <2> DEFINE i == proc[t].i
  <2>1. /\ proc[t].at = "write" /\ i \in DOMAIN list /\ proc[t].report \in Reports
        /\ Goes(t, NextStation(i)) /\ UNCHANGED <<memory, seen>> /\ DOMAIN list' = DOMAIN list
        /\ list'[i] = Judge(list[i], proc[t].report)
        /\ \A j \in DOMAIN list : j # i => list'[j] = list[j]
    BY <1>6, WriteFacts
  <2>2. list'[i].arfcn = list[i].arfcn /\ list'[i].lac = list[i].lac /\ list'[i].report = proc[t].report
    BY <2>1, EntryFacts, JudgedEntry DEF Alike
  <2>3. \A j \in DOMAIN list : /\ list'[j].arfcn = list[j].arfcn /\ list'[j].lac \in seen[list[j].arfcn]
                               /\ Blames(list'[j].report) => Several(seen[list[j].arfcn])
    BY <2>1, <2>2 DEF Seen
  <2>4. NextStation(i).at \in {"check", "idle"}
    BY <2>1, Nexts DEF NextStation
  <2>5. proc'[t].at # "write" /\ \A u \in Threads : u # t => proc'[u] = proc[u]
    BY <2>1, <2>4, GoesFacts
  <2> QED
    BY <1>1, <2>1, <2>3, <2>5 DEF memory
<1>7. CASE UpdateRules \/ SetEvaluator \/ UpdateLocationDatabase \/ StoreStation
  <2>1. PICK p : Goes("gui", p) /\ p.at \in {"check", "store", "idle"}
    <3>1. StartsEvaluation(Len(list)).at \in {"check", "idle"}
      BY Starts DEF Types, ListTypes
    <3>2. At("store", 1).at = "store" /\ Idle.at = "idle" /\ \A n : At("store", n).at = "store"
      BY DEF At, Idle
    <3> QED
      BY <1>7, <3>1, <3>2 DEF UpdateRules, SetEvaluator, UpdateLocationDatabase, StoreStation
  <2>2. "gui" \in Threads /\ proc'["gui"].at # "write" /\ \A u \in Threads : u # "gui" => proc'[u] = proc[u]
    BY <2>1, GoesFacts DEF Threads
  <2>3. UNCHANGED <<list, seen, lacs>>
    BY <1>7 DEF UpdateRules, SetEvaluator, UpdateLocationDatabase, StoreStation, memory
  <2>4. \A j \in DOMAIN list : /\ list'[j].arfcn = list[j].arfcn /\ list'[j].lac \in seen[list[j].arfcn]
                               /\ Blames(list'[j].report) => Several(seen[list[j].arfcn])
    BY <2>3 DEF Seen
  <2> QED
    BY <1>1, <2>2, <2>3, <2>4
<1>8. CASE PchDone
  <2>1. /\ UNCHANGED <<memory, proc, seen>> /\ DOMAIN list' = DOMAIN list
        /\ \A j \in DOMAIN list : Alike(list'[j], list[j]) /\ list'[j].report = list[j].report
    BY <1>8, PagedFacts
  <2>2. \A j \in DOMAIN list : /\ list'[j].arfcn = list[j].arfcn /\ list'[j].lac \in seen[list[j].arfcn]
                               /\ Blames(list'[j].report) => Several(seen[list[j].arfcn])
    BY <2>1 DEF Seen, Alike
  <2> QED
    BY <1>1, <2>1, <2>2 DEF memory, Threads
<1>9. CASE SetLocation \/ UNCHANGED vars
  <2>1. UNCHANGED <<list, seen, lacs, proc>>
    BY <1>9 DEF SetLocation, memory, vars
  <2> QED
    BY <2>1 DEF Seen
<1> QED
  BY <1>2, <1>3, <1>4, <1>5, <1>6, <1>7, <1>8, <1>9 DEF Next

-----------------------------------------------------------------------------
(* Handlers one after the other. *)

(* report is what the active rules find of s now. *)
Finds(s, report) ==
  /\ DOMAIN report = active
  /\ \A r \in ContextRules \cap active : report[r] = Check(r, s.arfcn, list)
  /\ "LAC Change Rule" \in active =>
       /\ s.arfcn \in DOMAIN lacs /\ lacs[s.arfcn].scanned >= s.times_scanned
       /\ report["LAC Change Rule"] = lacs[s.arfcn].result

Judged(s) == Finds(s, s.report) /\ s.evaluation = Evaluate(evaluator, s.report)

(* One thread is in a loop; the stations behind it are judged, and all when *)
(* no evaluation is under way.                                              *)
Serial ==
  /\ \A t, u \in Threads : Busy(t) /\ Busy(u) => t = u
  /\ \A t \in Threads : proc[t].at \in {"check", "write"} =>
       \A j \in DOMAIN list : j < proc[t].i => Judged(list[j])
  /\ \A t \in Threads : proc[t].at = "write" => Finds(list[proc[t].i], proc[t].report)
  /\ (\A t \in Threads : proc[t].at \in {"idle", "store"}) => \A j \in DOMAIN list : Judged(list[j])

(* A memory as new as the last sighting of its station is right about it. *)
UpToDate(s, m) ==
  /\ m.scanned <= s.times_scanned
  /\ m.scanned = s.times_scanned => (m.result = "Critical" <=> s.lac # m.value)

Memory ==
  /\ \A i \in DOMAIN list : LET s == list[i] IN
       s.arfcn \in DOMAIN lacs => UpToDate(s, lacs[s.arfcn])
  /\ \A t \in Threads : LET s == list[proc[t].i] IN
       proc[t].at = "refresh" /\ s.arfcn \in DOMAIN lacs => lacs[s.arfcn].scanned < s.times_scanned

InOrder == ~overlap => Serial /\ Memory

(* What was found of a station is still what is found of it. *)
LEMMA FindsAgain ==
  ASSUME Types, ~overlap, UNCHANGED active, DOMAIN list' = DOMAIN list,
         \A k \in DOMAIN list : Alike(list'[k], list[k]),
         NEW j \in DOMAIN list, list'[j].times_scanned = list[j].times_scanned,
         list[j].arfcn \in DOMAIN lacs =>
           list[j].arfcn \in DOMAIN lacs' /\ lacs'[list[j].arfcn] = lacs[list[j].arfcn]
  PROVE  \A report : Finds(list[j], report) => (Finds(list[j], report))'
<1>1. \A r \in ContextRules : Check(r, list'[j].arfcn, list') = Check(r, list[j].arfcn, list)
  <2>1. Single(list)
    BY DEF Types, ListTypes, OneEntry, Single
  <2> QED
    BY <2>1, CheckUnchanged DEF Types, ListTypes
<1>2. list'[j].arfcn = list[j].arfcn
  BY DEF Alike
<1> SUFFICES ASSUME NEW report, Finds(list[j], report)
             PROVE  (Finds(list[j], report))'
  OBVIOUS
<1>3. \A r \in ContextRules \cap active' : report[r] = Check(r, list'[j].arfcn, list')
  BY <1>1 DEF Finds
<1>4. DOMAIN report = active'
  BY DEF Finds
<1>5. "LAC Change Rule" \in active' =>
        /\ list'[j].arfcn \in DOMAIN lacs' /\ lacs'[list'[j].arfcn].scanned >= list'[j].times_scanned
        /\ report["LAC Change Rule"] = lacs'[list'[j].arfcn].result
  BY <1>2 DEF Finds
<1>6. \A r \in ContextRules \cap active' : (Check(r, list[j].arfcn, list))' = Check(r, list'[j].arfcn, list')
  BY DEF Check, ContextRules
<1> QED
  BY <1>3, <1>4, <1>5, <1>6 DEF Finds

(* A station keeps its judgement when neither it, nor what the rule remembers *)
(* of it, nor anything a context rule looks at changes.                       *)
LEMMA JudgedAgain ==
  ASSUME Types, ~overlap, UNCHANGED <<active, evaluator>>, DOMAIN list' = DOMAIN list,
         \A k \in DOMAIN list : Alike(list'[k], list[k]),
         NEW j \in DOMAIN list, list'[j].times_scanned = list[j].times_scanned,
         list'[j].report = list[j].report, list'[j].evaluation = list[j].evaluation,
         list[j].arfcn \in DOMAIN lacs =>
           list[j].arfcn \in DOMAIN lacs' /\ lacs'[list[j].arfcn] = lacs[list[j].arfcn],
         Judged(list[j])
  PROVE  (Judged(list[j]))'
<1>1. \A report : Finds(list[j], report) => (Finds(list[j], report))'
  BY FindsAgain
<1>2. PICK report : report = list[j].report
  OBVIOUS
<1>3. (Finds(list[j], report))'
  BY <1>1, <1>2 DEF Judged
<1>4. list'[j].report = report /\ list'[j].evaluation = Evaluate(evaluator', report)
  <2>1. list[j].evaluation = Evaluate(evaluator, list[j].report)
    BY DEF Judged
  <2> QED
    BY <1>2, <2>1 DEF Evaluate, GroupEvaluator, ConservativeEvaluator
<1> QED
  BY <1>3, <1>4 DEF Judged

LEMMA AloneThenIdle ==
  ASSUME ~overlap, NEW t \in Threads, MayStart(t)
  PROVE  \A u \in Threads : proc[u].at = "idle"
  BY DEF MayStart, AllIdle

(* The rule remembers a station as it is now. *)
LEMMA LacUpToDate ==
  ASSUME Types, NEW s \in Entries, s.arfcn \in DOMAIN lacs => UpToDate(s, lacs[s.arfcn])
  PROVE  UpToDate(s, LacMemory(s)) /\ LacMemory(s).scanned = s.times_scanned
<1> DEFINE old == Remembered(lacs, s, s.lac)
<1>1. s.times_scanned \in Nat \ {0}
  BY DEF Entries
<1>2. /\ old.scanned \in Nat \ {0} /\ old.scanned <= s.times_scanned
      /\ old.scanned = s.times_scanned => (old.result = "Critical" <=> s.lac # old.value)
  <2>1. CASE s.arfcn \in DOMAIN lacs
    BY <2>1 DEF Remembered, UpToDate, Types, MemoryTypes, Memories
  <2>2. CASE s.arfcn \notin DOMAIN lacs
    BY <1>1, <2>2 DEF Remembered, Entry
  <2> QED
    BY <2>1, <2>2
<1> HIDE DEF old
<1>3. LacMemory(s) = IF ~Fresh(s, old) THEN old ELSE Entry(old.value, s, Verdict(s.lac = old.value))
  BY DEF LacMemory, LACChangeRule, old
<1>4. CASE Fresh(s, old)
  <2>1. LacMemory(s) = [value |-> old.value, scanned |-> s.times_scanned, result |-> Verdict(s.lac = old.value)]
    BY <1>3, <1>4 DEF Entry
  <2>2. /\ LacMemory(s).value = old.value /\ LacMemory(s).scanned = s.times_scanned
        /\ LacMemory(s).result = Verdict(s.lac = old.value)
    BY <2>1
  <2> QED
    BY <1>1, <2>2 DEF UpToDate, Verdict
<1>5. CASE ~Fresh(s, old)
  <2>1. old.scanned = s.times_scanned
    BY <1>1, <1>2, <1>5 DEF Fresh
  <2> QED
    BY <1>1, <1>2, <1>3, <1>5, <2>1 DEF UpToDate
<1> QED
  BY <1>4, <1>5

LEMMA FoundInOrder ==
  ASSUME Types, Types', ~overlap, Serial, Memory, NEW t \in Sweepers, Found(t)
  PROVE  Serial' /\ Memory'
<1>1. t \in Threads
  BY DEF Threads
<1>2. PICK x \in Sightings, p \in Positions :
        /\ MayStart(t) /\ UNCHANGED <<settings, memory>> /\ Goes(t, p) /\ DOMAIN list' = DOMAIN list
        /\ \/ p.at = "append" /\ UNCHANGED list
           \/ /\ p.at = "refresh" /\ p.i \in DOMAIN list /\ list'[p.i] = CountedOnce(list[p.i])
              /\ \A j \in DOMAIN list : j # p.i => list'[j] = list[j]
  BY FoundFacts
<1>3. proc'[t] = p /\ \A u \in Threads : u # t => proc'[u].at = "idle"
  BY <1>1, <1>2, AloneThenIdle, GoesFacts
<1>4. Serial'
  BY <1>1, <1>2, <1>3 DEF Serial, Busy
<1>5. CASE p.at = "append" /\ UNCHANGED list
  <2>1. \A u \in Threads : proc'[u].at # "refresh"
    BY <1>3, <1>5
  <2> QED
    BY <1>2, <1>4, <1>5, <2>1 DEF Memory, memory
<1>6. CASE /\ p.at = "refresh" /\ p.i \in DOMAIN list /\ list'[p.i] = CountedOnce(list[p.i])
           /\ \A j \in DOMAIN list : j # p.i => list'[j] = list[j]
  <2>1. list[p.i] \in Entries /\ list[p.i].times_scanned \in Nat
    BY <1>6, EntryFacts DEF Entries
  <2>2. list'[p.i].arfcn = list[p.i].arfcn /\ list'[p.i].times_scanned = list[p.i].times_scanned + 1
    BY <1>6, <2>1, CountEntry DEF Alike
  <2>3. \A a \in DOMAIN lacs : lacs[a].scanned \in Nat
    BY DEF Types, MemoryTypes, Memories
  <2>4. list[p.i].arfcn \in DOMAIN lacs => lacs[list[p.i].arfcn].scanned < list'[p.i].times_scanned
    BY <1>6, <2>1, <2>2, <2>3 DEF Memory, UpToDate
  <2>5. \A j \in DOMAIN list' : list'[j].arfcn \in DOMAIN lacs => UpToDate(list'[j], lacs[list'[j].arfcn])
    <3>1. list[p.i].arfcn \in DOMAIN lacs => UpToDate(list'[p.i], lacs[list[p.i].arfcn])
      BY <2>1, <2>2, <2>3, <2>4 DEF UpToDate
    <3> QED
      BY <1>2, <1>6, <2>2, <3>1 DEF Memory
  <2>6. \A u \in Threads : proc'[u].at = "refresh" => proc'[u].i = p.i
    BY <1>3
  <2>7. lacs' = lacs
    BY <1>2 DEF memory
  <2>8. \A u \in Threads : proc'[u].at = "refresh" /\ list'[proc'[u].i].arfcn \in DOMAIN lacs =>
          lacs[list'[proc'[u].i].arfcn].scanned < list'[proc'[u].i].times_scanned
    BY <2>2, <2>4, <2>6
  <2>9. (\A j \in DOMAIN list : list[j].arfcn \in DOMAIN lacs => UpToDate(list[j], lacs[list[j].arfcn]))'
    BY <2>5, <2>7 DEF UpToDate
  <2>10. (\A u \in Threads : proc[u].at = "refresh" /\ list[proc[u].i].arfcn \in DOMAIN lacs =>
            lacs[list[proc[u].i].arfcn].scanned < list[proc[u].i].times_scanned)'
    BY <2>7, <2>8
  <2> QED
    BY <1>4, <2>9, <2>10 DEF Memory
<1> QED
  BY <1>2, <1>4, <1>5, <1>6

(* The station appended is new, and nothing is remembered of it. *)
LEMMA AppendInOrder ==
  ASSUME Types, Types', ~overlap, Serial, Memory, NEW t \in Sweepers, AppendStation(t)
  PROVE  Serial' /\ Memory'
<1>1. /\ t \in Threads /\ proc[t].at = "append" /\ Goes(t, StartsEvaluation(1)) /\ UNCHANGED memory
  BY AppendFacts
<1>2. PICK x \in proc[t].new :
        /\ x \in Sightings /\ \A j \in DOMAIN list : list[j].arfcn # x.arfcn
        /\ DOMAIN list' = DOMAIN list \cup {Len(list) + 1} /\ list'[Len(list) + 1] = Station(x)
        /\ \A j \in DOMAIN list : list'[j] = list[j]
  BY AppendFacts
<1>3. \A u \in Threads : u # t => proc[u].at = "idle" /\ proc'[u] = proc[u]
  BY <1>1, GoesFacts DEF Serial, Busy
<1>4. proc'[t].at = "check" /\ proc'[t].i = 1
  BY <1>1, GoesFacts, FirstEvaluation
<1>5. Serial'
  <2>1. \A j \in DOMAIN list' : j \in Nat /\ j >= 1
    BY DEF Types, ListTypes
  <2> QED
    BY <1>1, <1>3, <1>4, <2>1 DEF Serial, Busy
<1>6. Station(x).arfcn \notin DOMAIN lacs
  <2>1. x.arfcn \notin DOMAIN seen
    BY <1>2 DEF Types, ListTypes
  <2> QED
    BY <1>2, <2>1, NewEntry DEF Types, MemoryTypes
<1>7. lacs' = lacs
  BY <1>1 DEF memory
<1>8. \A j \in DOMAIN list' : list'[j].arfcn \in DOMAIN lacs => UpToDate(list'[j], lacs[list'[j].arfcn])
  BY <1>2, <1>6 DEF Memory
<1>9. (\A j \in DOMAIN list : list[j].arfcn \in DOMAIN lacs => UpToDate(list[j], lacs[list[j].arfcn]))'
  BY <1>7, <1>8 DEF UpToDate
<1>10. \A u \in Threads : proc'[u].at # "refresh"
  BY <1>3, <1>4
<1> QED
  BY <1>5, <1>9, <1>10 DEF Memory

LEMMA RefreshInOrder ==
  ASSUME Types, Types', ~overlap, Serial, Memory, NEW t \in Sweepers, Refresh(t)
  PROVE  Serial' /\ Memory'
<1> DEFINE i == proc[t].i
<1>1. /\ t \in Threads /\ proc[t].at = "refresh" /\ Goes(t, StartsEvaluation(1))
      /\ UNCHANGED <<settings, memory>> /\ DOMAIN list' = DOMAIN list
  BY RefreshFacts
<1>2. PICK x \in proc[t].new :
        /\ x \in Sightings /\ i \in DOMAIN list /\ list'[i] = Read(list[i], x)
        /\ \A j \in DOMAIN list : j # i => list'[j] = list[j]
  BY RefreshFacts
<1>3. \A u \in Threads : u # t => proc[u].at = "idle" /\ proc'[u] = proc[u]
  BY <1>1, GoesFacts DEF Serial, Busy
<1>4. proc'[t].at = "check" /\ proc'[t].i = 1
  BY <1>1, GoesFacts, FirstEvaluation
<1>5. Serial'
  <2>1. \A j \in DOMAIN list' : j \in Nat /\ j >= 1
    BY DEF Types, ListTypes
  <2> QED
    BY <1>1, <1>3, <1>4, <2>1 DEF Serial, Busy
<1>6. list'[i].arfcn = list[i].arfcn /\ list'[i].times_scanned = list[i].times_scanned
  BY <1>2, EntryFacts, ReadEntry
<1>7. list[i].times_scanned \in Nat /\ \A a \in DOMAIN lacs : lacs[a].scanned \in Nat
  BY <1>2, EntryFacts DEF Entries, Types, MemoryTypes, Memories
<1>8. list[i].arfcn \in DOMAIN lacs => UpToDate(list'[i], lacs[list[i].arfcn])
  <2>1. list[i].arfcn \in DOMAIN lacs => lacs[list[i].arfcn].scanned < list[i].times_scanned
    BY <1>1 DEF Memory
  <2> QED
    BY <1>6, <1>7, <2>1 DEF UpToDate
<1>9. Memory'
  BY <1>1, <1>2, <1>3, <1>4, <1>6, <1>8 DEF Memory, memory
<1> QED
  BY <1>5, <1>9

LEMMA CheckInOrder ==
  ASSUME Types, Types', ~overlap, Serial, Memory, NEW t \in Threads, CheckStation(t)
  PROVE  Serial' /\ Memory'
<1> DEFINE i == proc[t].i
           s == list[i]
           m == LacMemory(s)
<1>0. \E k \in DOMAIN list :
        /\ k = i /\ proc[t].at = "check" /\ UNCHANGED <<settings, list>>
        /\ lacs' = IF "LAC Change Rule" \in active THEN Put(lacs, list[k].arfcn, LacMemory(list[k])) ELSE lacs
        /\ \E p \in Positions : Goes(t, p) /\ p.at = "write" /\ p.i = i /\ p.report = Report(list[k])
  BY CheckFacts
<1>1. /\ proc[t].at = "check" /\ i \in DOMAIN list /\ UNCHANGED <<settings, list>>
      /\ lacs' = IF "LAC Change Rule" \in active THEN Put(lacs, s.arfcn, m) ELSE lacs
  BY <1>0
<1>2. PICK p \in Positions : Goes(t, p) /\ p.at = "write" /\ p.i = i /\ p.report = Report(s)
  BY <1>0
<1>3. proc'[t] = p /\ \A u \in Threads : u # t => proc[u].at = "idle" /\ proc'[u] = proc[u]
  BY <1>1, <1>2, GoesFacts DEF Serial, Busy
<1>4. s \in Entries /\ UpToDate(s, m) /\ m.scanned = s.times_scanned
  BY <1>1, EntryFacts, LacUpToDate DEF Memory
<1>5. /\ "LAC Change Rule" \in active => s.arfcn \in DOMAIN lacs' /\ lacs'[s.arfcn] = m
      /\ \A a : a # s.arfcn =>
           /\ a \in DOMAIN lacs <=> a \in DOMAIN lacs'
           /\ a \in DOMAIN lacs => lacs'[a] = lacs[a]
      /\ "LAC Change Rule" \notin active => lacs' = lacs
  <2> HIDE DEF m, s
  <2> QED
    BY <1>1 DEF Put
<1>6. \A j \in DOMAIN list : list[j].arfcn = s.arfcn => j = i
  BY <1>1 DEF Types, ListTypes, OneEntry
<1>7. (Finds(list[i], p.report))'
  <2>1. DOMAIN Report(s) = active
    BY DEF Report
  <2>2. \A r \in ContextRules \cap active : Report(s)[r] = Check(r, s.arfcn, list)
    BY DEF Report, ContextRules
  <2>3. "LAC Change Rule" \in active => Report(s)["LAC Change Rule"] = m.result
    BY DEF Report
  <2>4. s.times_scanned >= s.times_scanned
    BY <1>4 DEF Entries
  <2>5. \A r \in ContextRules : (Check(r, list[i].arfcn, list))' = Check(r, s.arfcn, list)
    BY <1>1, <1>2, <1>3 DEF Check, ContextRules
  <2>6. active' = active /\ list'[proc'[t].i] = s
    BY <1>1, <1>2, <1>3 DEF settings
  <2>7. proc'[t].i = i
    BY <1>2, <1>3
  <2> QED
    BY <1>2, <1>4, <1>5, <2>1, <2>2, <2>3, <2>4, <2>5, <2>6, <2>7 DEF Finds
<1>8. \A j \in DOMAIN list : j < i => (Judged(list[j]))'
  <2> SUFFICES ASSUME NEW j \in DOMAIN list, j < i
               PROVE  (Judged(list[j]))'
    OBVIOUS
  <2>1. j # i
    <3>1. \A k \in DOMAIN list : k \in Nat
      BY DEF Types, ListTypes
    <3>2. i \in Nat
      BY <1>1, <3>1
    <3>3. ~(i < i)
      BY <3>2
    <3> QED
      BY <3>3
  <2>2. Judged(list[j])
    BY <1>1 DEF Serial
  <2>3. \A k \in DOMAIN list : Alike(list'[k], list[k])
    BY <1>1 DEF Alike
  <2>4. list[j].arfcn \in DOMAIN lacs =>
          list[j].arfcn \in DOMAIN lacs' /\ lacs'[list[j].arfcn] = lacs[list[j].arfcn]
    BY <1>5, <1>6, <2>1
  <2> QED
    BY <1>1, <2>2, <2>3, <2>4, JudgedAgain DEF settings
<1>9. Serial'
  BY <1>1, <1>2, <1>3, <1>7, <1>8 DEF Serial, Busy
<1>10. Memory'
  <2>1. \A j \in DOMAIN list : list[j].arfcn \in DOMAIN lacs' => UpToDate(list[j], lacs'[list[j].arfcn])
    <3> SUFFICES ASSUME NEW j \in DOMAIN list, list[j].arfcn \in DOMAIN lacs'
                 PROVE  UpToDate(list[j], lacs'[list[j].arfcn])
      OBVIOUS
    <3>1. CASE j = i
      BY <1>4, <1>5, <3>1 DEF Memory
    <3>2. CASE j # i
      BY <1>5, <1>6, <3>2 DEF Memory
    <3> QED
      BY <3>1, <3>2
  <2>2. \A u \in Threads : proc'[u].at # "refresh"
    BY <1>2, <1>3
  <2> QED
    BY <1>1, <2>1, <2>2 DEF Memory
<1> QED
  BY <1>9, <1>10

(* A step that leaves the memory and the choices alone, and of the stations   *)
(* all that a rule looks at.                                                  *)
Untouched(j) ==
  /\ Alike(list'[j], list[j]) /\ list'[j].times_scanned = list[j].times_scanned

LEMMA JudgementsStay ==
  ASSUME Types, ~overlap, UNCHANGED <<active, evaluator, lacs>>, DOMAIN list' = DOMAIN list,
         \A j \in DOMAIN list : Untouched(j)
  PROVE  \A j \in DOMAIN list :
           /\ \A report : Finds(list[j], report) => (Finds(list[j], report))'
           /\ list'[j].report = list[j].report /\ list'[j].evaluation = list[j].evaluation =>
                (Judged(list[j]) => (Judged(list[j]))')
<1> SUFFICES ASSUME NEW j \in DOMAIN list
             PROVE  /\ \A report : Finds(list[j], report) => (Finds(list[j], report))'
                    /\ list'[j].report = list[j].report /\ list'[j].evaluation = list[j].evaluation =>
                         (Judged(list[j]) => (Judged(list[j]))')
  OBVIOUS
<1>1. \A k \in DOMAIN list : Alike(list'[k], list[k])
  BY DEF Untouched
<1>2. list'[j].times_scanned = list[j].times_scanned
  BY DEF Untouched
<1>3. \A report : Finds(list[j], report) => (Finds(list[j], report))'
  BY <1>1, <1>2, FindsAgain
<1>4. ASSUME list'[j].report = list[j].report, list'[j].evaluation = list[j].evaluation, Judged(list[j])
      PROVE  (Judged(list[j]))'
  BY <1>1, <1>2, <1>4, JudgedAgain
<1> QED
  BY <1>3, <1>4

LEMMA MemoryStays ==
  ASSUME Types, Memory, UNCHANGED lacs, DOMAIN list' = DOMAIN list,
         \A j \in DOMAIN list : Untouched(j),
         \A u \in Threads : proc'[u].at = "refresh" => proc'[u] = proc[u]
  PROVE  Memory'
<1>1. \A j \in DOMAIN list : list'[j].arfcn = list[j].arfcn /\ list'[j].lac = list[j].lac
        /\ list'[j].times_scanned = list[j].times_scanned
  BY DEF Untouched, Alike
<1>2. (\A j \in DOMAIN list : list[j].arfcn \in DOMAIN lacs => UpToDate(list[j], lacs[list[j].arfcn]))'
  BY <1>1 DEF Memory, UpToDate
<1>3. \A u \in Threads : proc[u].at = "refresh" => proc[u].i \in DOMAIN list
  BY DEF Types, ProcTypes, AtEntry
<1>4. (\A u \in Threads : proc[u].at = "refresh" /\ list[proc[u].i].arfcn \in DOMAIN lacs =>
         lacs[list[proc[u].i].arfcn].scanned < list[proc[u].i].times_scanned)'
  BY <1>1, <1>3 DEF Memory
<1> QED
  BY <1>2, <1>4 DEF Memory

LEMMA WriteInOrder ==
  ASSUME Types, Types', ~overlap, Serial, Memory, NEW t \in Threads, WriteStation(t)
  PROVE  Serial' /\ Memory'
<1>0. PICK i : i = proc[t].i
  OBVIOUS
<1>1. /\ proc[t].at = "write" /\ i \in DOMAIN list /\ proc[t].report \in Reports
      /\ Goes(t, NextStation(i)) /\ UNCHANGED <<settings, memory>> /\ DOMAIN list' = DOMAIN list
      /\ list'[i] = Judge(list[i], proc[t].report)
      /\ \A j \in DOMAIN list : j # i => list'[j] = list[j]
  BY <1>0, WriteFacts
<1>2. PICK p : p = NextStation(i)
  OBVIOUS
<1>3. /\ i < Len(list) => p.at = "check" /\ p.i = i + 1
      /\ ~(i < Len(list)) => p.at = "idle" /\ i = Len(list)
  BY <1>1, <1>2, Nexts DEF NextStation
<1>4. proc'[t] = p /\ \A u \in Threads : u # t => proc[u].at = "idle" /\ proc'[u] = proc[u]
  BY <1>1, <1>2, GoesFacts DEF Serial, Busy
<1>5. /\ Alike(list'[i], list[i]) /\ list'[i].times_scanned = list[i].times_scanned
      /\ list'[i].report = proc[t].report /\ list'[i].evaluation = Evaluate(evaluator, proc[t].report)
  BY <1>1, EntryFacts, JudgedEntry
<1>6. \A j \in DOMAIN list : Untouched(j)
  BY <1>1, <1>5 DEF Untouched, Alike
<1>7. UNCHANGED <<active, evaluator, lacs>>
  BY <1>1 DEF settings, memory
<1>8. (Judged(list[i]))'
  <2>1. PICK report : report = proc[t].report
    OBVIOUS
  <2>2. Finds(list[i], report)
    BY <1>0, <1>1, <2>1 DEF Serial
  <2>3. (Finds(list[i], report))'
    BY <1>1, <1>6, <1>7, <2>2, JudgementsStay
  <2>4. list'[i].report = report /\ list'[i].evaluation = Evaluate(evaluator', report)
    BY <1>5, <1>7, <2>1 DEF Evaluate, GroupEvaluator, ConservativeEvaluator
  <2> QED
    BY <2>3, <2>4 DEF Judged
<1>9. \A j \in DOMAIN list : j < i => (Judged(list[j]))'
  <2> SUFFICES ASSUME NEW j \in DOMAIN list, j < i
               PROVE  (Judged(list[j]))'
    OBVIOUS
  <2>1. j # i
    <3>1. i \in Nat
      BY <1>1, EntryFacts
    <3>2. ~(i < i)
      BY <3>1
    <3> QED
      BY <3>2
  <2>2. Judged(list[j])
    BY <1>0, <1>1 DEF Serial
  <2> QED
    BY <1>1, <1>6, <1>7, <2>1, <2>2, JudgementsStay
<1>10. Serial'
  <2>1. \A j \in DOMAIN list : j \in Nat /\ j <= Len(list)
    BY EntryFacts
  <2>2. i \in Nat /\ Len(list) \in Nat
    BY <1>1, EntryFacts DEF Types, ListTypes
  <2>3. CASE i < Len(list)
    <3>1. \A j \in DOMAIN list : j < p.i => j < i \/ j = i
      BY <1>3, <2>1, <2>2, <2>3
    <3>2. \A j \in DOMAIN list' : j < p.i => (Judged(list[j]))'
      BY <1>1, <1>8, <1>9, <3>1
    <3> QED
      BY <1>3, <1>4, <2>3, <3>2 DEF Serial, Busy
  <2>4. CASE ~(i < Len(list))
    <3>1. \A j \in DOMAIN list : j < i \/ j = i
      BY <1>3, <2>1, <2>2, <2>4
    <3>2. \A j \in DOMAIN list' : (Judged(list[j]))'
      BY <1>1, <1>8, <1>9, <3>1
    <3> QED
      BY <1>3, <1>4, <2>4, <3>2 DEF Serial, Busy
  <2> QED
    BY <2>3, <2>4
<1>11. Memory'
  BY <1>1, <1>3, <1>4, <1>6, <1>7, MemoryStays
<1> QED
  BY <1>10, <1>11

(* The user starts an evaluation, or the storing of the list. *)
LEMMA ChoiceInOrder ==
  ASSUME Types, Types', ~overlap, Serial, Memory,
         UpdateRules \/ SetEvaluator \/ UpdateLocationDatabase
  PROVE  Serial' /\ Memory'
<1>1. "gui" \in Threads /\ list \in Seq(Entries)
  BY DEF Threads, Types, ListTypes
<1>2. MayStart("gui") /\ UNCHANGED <<list, memory>>
  BY DEF UpdateRules, SetEvaluator, UpdateLocationDatabase, Chooses
<1>3. \A u \in Threads : proc[u].at = "idle"
  BY <1>1, <1>2, AloneThenIdle
<1>4. \A j \in DOMAIN list : Judged(list[j])
  BY <1>3 DEF Serial
<1>5. \E p : /\ Goes("gui", p) /\ p.at # "refresh"
             /\ \/ p.at = "check" /\ p.i = 1
                \/ p.at = "idle" /\ list = <<>>
                \/ p.at = "store" /\ UNCHANGED <<active, evaluator, lacs>>
  <2>1. CASE UpdateRules \/ SetEvaluator
    <3>1. Goes("gui", StartsEvaluation(Len(list)))
      BY <2>1 DEF UpdateRules, SetEvaluator
    <3>2. /\ StartsEvaluation(Len(list)).at = IF list = <<>> THEN "idle" ELSE "check"
          /\ list # <<>> => StartsEvaluation(Len(list)).i = 1
      BY <1>1, Starts
    <3> QED
      BY <3>1, <3>2
  <2>2. CASE UpdateLocationDatabase
    <3>1. Goes("gui", At("store", 1)) /\ UNCHANGED <<settings, memory>>
      BY <2>2 DEF UpdateLocationDatabase
    <3>2. At("store", 1).at = "store"
      BY AtPosition
    <3> QED
      BY <3>1, <3>2 DEF settings, memory
  <2> QED
    BY <2>1, <2>2
<1>6. PICK p : /\ Goes("gui", p) /\ p.at # "refresh"
               /\ \/ p.at = "check" /\ p.i = 1
                  \/ p.at = "idle" /\ list = <<>>
                  \/ p.at = "store" /\ UNCHANGED <<active, evaluator, lacs>>
  BY <1>5
<1>7. proc'["gui"] = p /\ \A u \in Threads : u # "gui" => proc'[u].at = "idle"
  BY <1>1, <1>3, <1>6, GoesFacts
<1>8. \A t, u \in Threads : proc'[t].at # "idle" /\ proc'[u].at # "idle" => t = u
  BY <1>7
<1>9. Serial'
  <2>1. CASE p.at = "check" /\ p.i = 1
    <3>1. \A j \in DOMAIN list' : ~(j < 1)
      BY <1>2, EntryFacts
    <3> QED
      BY <1>1, <1>7, <1>8, <2>1, <3>1 DEF Serial, Busy
  <2>2. CASE p.at = "idle" /\ list = <<>>
    <3>1. DOMAIN list' = {}
      BY <1>2, <2>2
    <3> QED
      BY <1>7, <1>8, <2>2, <3>1 DEF Serial, Busy
  <2>3. CASE p.at = "store" /\ UNCHANGED <<active, evaluator, lacs>>
    <3>1. \A j \in DOMAIN list : Untouched(j)
      BY <1>2 DEF Untouched, Alike
    <3>2. \A j \in DOMAIN list' : (Judged(list[j]))'
      BY <1>2, <1>4, <2>3, <3>1, JudgementsStay
    <3> QED
      BY <1>7, <1>8, <2>3, <3>2 DEF Serial, Busy
  <2> QED
    BY <1>6, <2>1, <2>2, <2>3
<1>10. Memory'
  <2>1. \A j \in DOMAIN list : Untouched(j)
    BY <1>2 DEF Untouched, Alike
  <2>2. \A u \in Threads : proc'[u].at # "refresh"
    BY <1>6, <1>7
  <2> QED
    BY <1>2, <2>1, <2>2, MemoryStays DEF memory
<1> QED
  BY <1>9, <1>10

LEMMA StoreInOrder ==
  ASSUME Types, Types', ~overlap, Serial, Memory, StoreStation
  PROVE  Serial' /\ Memory'
<1>1. /\ "gui" \in Threads /\ proc["gui"].at = "store"
      /\ UNCHANGED <<settings, list, memory>>
  BY DEF StoreStation, Threads
<1>2. PICK p : p = IF proc["gui"].i < Len(list) THEN At("store", proc["gui"].i + 1) ELSE Idle
  OBVIOUS
<1>3. p.at \in {"store", "idle"}
  <2>1. proc["gui"].i \in DOMAIN list
    BY <1>1 DEF Types, ProcTypes, AtEntry
  <2> QED
    BY <1>2, <2>1, Nexts
<1>4. proc'["gui"] = p /\ \A u \in Threads : u # "gui" => proc[u].at = "idle" /\ proc'[u] = proc[u]
  <2>1. Goes("gui", p)
    BY <1>2 DEF StoreStation
  <2> QED
    BY <1>1, <2>1, GoesFacts DEF Serial, Busy
<1>5. \A j \in DOMAIN list : Untouched(j)
  BY <1>1 DEF Untouched, Alike
<1>6. \A j \in DOMAIN list' : (Judged(list[j]))'
  <2>1. \A j \in DOMAIN list : Judged(list[j])
    BY <1>1, <1>4 DEF Serial
  <2> QED
    BY <1>1, <1>5, <2>1, JudgementsStay DEF settings, memory
<1>7. Serial'
  BY <1>3, <1>4, <1>6 DEF Serial, Busy
<1>8. Memory'
  BY <1>1, <1>3, <1>4, <1>5, MemoryStays DEF memory
<1> QED
  BY <1>7, <1>8

(* What leaves the threads where they are. *)
LEMMA WaitsInOrder ==
  ASSUME Types, Types', ~overlap, Serial, Memory, UNCHANGED <<proc, active, evaluator, lacs>>,
         DOMAIN list' = DOMAIN list,
         \A j \in DOMAIN list : /\ Untouched(j) /\ list'[j].report = list[j].report
                                /\ list'[j].evaluation = list[j].evaluation
  PROVE  Serial' /\ Memory'
<1>1. \A j \in DOMAIN list : Judged(list[j]) => (Judged(list[j]))'
  BY JudgementsStay
<1>2. \A t \in Threads : proc'[t].at = "write" => (Finds(list[proc[t].i], proc[t].report))'
  <2> SUFFICES ASSUME NEW t \in Threads, proc'[t].at = "write"
               PROVE  (Finds(list[proc[t].i], proc[t].report))'
    OBVIOUS
  <2>1. PICK i, report : i = proc[t].i /\ report = proc[t].report
    OBVIOUS
  <2>2. i \in DOMAIN list /\ Finds(list[i], report)
    BY <2>1 DEF Types, ProcTypes, AtEntry, Serial
  <2>3. (Finds(list[i], report))'
    BY <2>2, JudgementsStay
  <2> QED
    BY <2>1, <2>3
<1>3. Serial'
  <2>1. (\A t, u \in Threads : Busy(t) /\ Busy(u) => t = u)'
    BY DEF Serial, Busy
  <2>2. (\A t \in Threads : proc[t].at \in {"check", "write"} =>
           \A j \in DOMAIN list : j < proc[t].i => Judged(list[j]))'
    BY <1>1 DEF Serial
  <2>3. ((\A t \in Threads : proc[t].at \in {"idle", "store"}) => \A j \in DOMAIN list : Judged(list[j]))'
    BY <1>1 DEF Serial
  <2> QED
    BY <1>2, <2>1, <2>2, <2>3 DEF Serial
<1>4. Memory'
  BY MemoryStays
<1> QED
  BY <1>3, <1>4

LEMMA InOrderStep ==
  ASSUME Types, Types', InOrder, [Next]_vars
  PROVE  InOrder'
<1> SUFFICES ASSUME ~overlap'
             PROVE  Serial' /\ Memory'
  BY DEF InOrder
<1>1. ~overlap /\ Serial /\ Memory
  <2>1. overlap' = overlap
    BY DEF Next, vars, settings, Found, AppendStation, Refresh, CheckStation, WriteStation, UpdateRules,
           SetEvaluator, SetLocation, UpdateLocationDatabase, StoreStation, PchDone
  <2> QED
    BY <2>1 DEF InOrder
<1>2. ASSUME NEW t \in Sweepers, Found(t)
      PROVE  Serial' /\ Memory'
  BY <1>1, <1>2, FoundInOrder
<1>10. ASSUME NEW t \in Sweepers, AppendStation(t)
      PROVE  Serial' /\ Memory'
  BY <1>1, <1>10, AppendInOrder
<1>3. ASSUME NEW t \in Sweepers, Refresh(t)
      PROVE  Serial' /\ Memory'
  BY <1>1, <1>3, RefreshInOrder
<1>4. ASSUME NEW t \in Threads, CheckStation(t)
      PROVE  Serial' /\ Memory'
  BY <1>1, <1>4, CheckInOrder
<1>5. ASSUME NEW t \in Threads, WriteStation(t)
      PROVE  Serial' /\ Memory'
  BY <1>1, <1>5, WriteInOrder
<1>6. ASSUME UpdateRules \/ SetEvaluator \/ UpdateLocationDatabase
      PROVE  Serial' /\ Memory'
  BY <1>1, <1>6, ChoiceInOrder
<1>7. ASSUME StoreStation
      PROVE  Serial' /\ Memory'
  BY <1>1, <1>7, StoreInOrder
<1>8. ASSUME SetLocation \/ UNCHANGED vars
      PROVE  Serial' /\ Memory'
  <2>1. UNCHANGED <<list, proc, active, evaluator, lacs>>
    BY <1>8 DEF SetLocation, vars, settings, memory
  <2>2. \A j \in DOMAIN list : /\ Untouched(j) /\ list'[j].report = list[j].report
                               /\ list'[j].evaluation = list[j].evaluation
    BY <2>1 DEF Untouched, Alike
  <2> QED
    BY <1>1, <2>1, <2>2, WaitsInOrder
<1>9. ASSUME PchDone
      PROVE  Serial' /\ Memory'
  <2>1. UNCHANGED <<proc, active, evaluator, lacs>> /\ DOMAIN list' = DOMAIN list
    BY <1>9, PagedFacts DEF settings, memory
  <2>2. \A j \in DOMAIN list : /\ Untouched(j) /\ list'[j].report = list[j].report
                               /\ list'[j].evaluation = list[j].evaluation
    BY <1>9, PagedFacts DEF Untouched
  <2> QED
    BY <1>1, <2>1, <2>2, WaitsInOrder
<1> QED
  BY <1>2, <1>10, <1>3, <1>4, <1>5, <1>6, <1>7, <1>8, <1>9 DEF Next

LEMMA OrderInvariant == Spec => []InOrder
<1>1. Init => InOrder
  <2> SUFFICES ASSUME Init
               PROVE  Serial /\ Memory
    BY DEF InOrder
  <2>1. DOMAIN list = {} /\ DOMAIN lacs = {}
    BY DEF Init, Empty
  <2>2. \A t \in Threads : proc[t].at = "idle"
    BY IdlePosition DEF Init
  <2> QED
    BY <2>1, <2>2 DEF Serial, Memory, Busy
<1>2. Types /\ Types' /\ InOrder /\ [Next]_vars => InOrder'
  BY InOrderStep
<1> QED
  BY <1>1, <1>2, TypeInvariant, PTL DEF Spec

-----------------------------------------------------------------------------
(* When handlers run one after the other, no station is left with an old      *)
(* judgement: after the last step of any handler each has been judged by the  *)
(* rules and the evaluator that are active, and the rules that look at the    *)
(* other stations would find the same again (pyCatcherController.py:121,      *)
(* pyCatcherModel.py:168).                                                    *)
THEOREM ContextStaysFresh == Spec => []ContextIsFresh
<1>1. InOrder => ContextIsFresh
  <2> SUFFICES ASSUME InOrder, AllIdle, ~overlap, NEW i \in DOMAIN list
               PROVE  LET s == list[i] IN
                        /\ DOMAIN s.report = active
                        /\ s.evaluation = Evaluate(evaluator, s.report)
                        /\ \A r \in ContextRules \cap active : s.report[r] = Check(r, s.arfcn, list)
    BY DEF ContextIsFresh
  <2>1. Judged(list[i])
    BY DEF InOrder, Serial, AllIdle
  <2> QED
    BY <2>1 DEF Judged, Finds
<1> QED
  BY <1>1, OrderInvariant, PTL

LEMMA SeenInvariant == Spec => []Seen
<1>1. Init => Seen
  <2> SUFFICES ASSUME Init
               PROVE  Seen
    OBVIOUS
  <2>1. DOMAIN list = {} /\ DOMAIN lacs = {} /\ DOMAIN seen = {}
    BY DEF Init, Empty
  <2>2. \A t \in Threads : proc[t].at = "idle"
    BY IdlePosition DEF Init
  <2> QED
    BY <2>1, <2>2 DEF Seen
<1>2. Types /\ Seen /\ [Next]_vars => Seen'
  BY SeenStep
<1> QED
  BY <1>1, <1>2, TypeInvariant, PTL DEF Spec

LEMMA SeveralCounted ==
  ASSUME NEW S, IsFiniteSet(S), Several(S)
  PROVE  Cardinality(S) > 1
<1>1. PICK m, n \in S : m # n
  BY DEF Several
<1>2. IsFiniteSet({m}) /\ Cardinality({m}) = 1
  BY FS_Singleton
<1>3. Cardinality({m} \cup {n}) = 2 /\ IsFiniteSet({m} \cup {n})
  BY <1>1, <1>2, FS_AddElement
<1>4. {m} \cup {n} \subseteq S
  BY <1>1
<1>5. Cardinality({m} \cup {n}) <= Cardinality(S) /\ Cardinality(S) \in Nat
  BY <1>4, FS_Subset, FS_CardinalityType
<1> QED
  BY <1>3, <1>5

(* A station is blamed for a change of its location area only when it was     *)
(* read with two of them, overlapping handlers or not; and handled in order,  *)
(* exactly while its area is not the one remembered (rules.py:256).           *)
THEOREM LacChangesAreSeen == Spec => []LacChangeSeen
<1>1. Types /\ Seen /\ InOrder => LacChangeSeen
  <2> SUFFICES ASSUME Types, Seen, InOrder, NEW i \in DOMAIN list
               PROVE  LET s == list[i] IN
                        /\ LacChange(s) => Cardinality(seen[s.arfcn]) > 1
                        /\ ~overlap /\ AllIdle /\ s.times_scanned > 1 /\ "LAC Change Rule" \in DOMAIN s.report =>
                             (LacChange(s) <=> s.lac # lacs[s.arfcn].value)
    BY DEF LacChangeSeen
  <2> DEFINE s == list[i]
  <2>1. ASSUME LacChange(s)
        PROVE  Cardinality(seen[s.arfcn]) > 1
    <3>1. Blames(s.report)
      BY <2>1 DEF LacChange, Blames
    <3>2. s.arfcn \in DOMAIN seen
      BY EntryFacts
    <3>3. Several(seen[s.arfcn]) /\ IsFiniteSet(seen[s.arfcn])
      BY <3>1, <3>2 DEF Seen
    <3> QED
      BY <3>3, SeveralCounted
  <2>2. ASSUME ~overlap, AllIdle, "LAC Change Rule" \in DOMAIN s.report
        PROVE  LacChange(s) <=> s.lac # lacs[s.arfcn].value
    <3>1. Judged(s) /\ Memory
      BY <2>2 DEF InOrder, Serial, AllIdle
    <3>2. /\ s.arfcn \in DOMAIN lacs /\ lacs[s.arfcn].scanned >= s.times_scanned
          /\ s.report["LAC Change Rule"] = lacs[s.arfcn].result
      BY <2>2, <3>1 DEF Judged, Finds
    <3>3. UpToDate(s, lacs[s.arfcn])
      BY <3>1, <3>2 DEF Memory
    <3>4. s.times_scanned \in Nat /\ lacs[s.arfcn].scanned \in Nat
      BY <3>2, EntryFacts DEF Entries, Types, MemoryTypes, Memories
    <3>5. lacs[s.arfcn].scanned = s.times_scanned
      <4>1. lacs[s.arfcn].scanned <= s.times_scanned /\ lacs[s.arfcn].scanned >= s.times_scanned
        BY <3>2, <3>3 DEF UpToDate
      <4>2. \A m, n \in Nat : m <= n /\ m >= n => m = n
        OBVIOUS
      <4> QED
        BY <3>4, <4>1, <4>2
    <3>6. lacs[s.arfcn].result = "Critical" <=> s.lac # lacs[s.arfcn].value
      BY <3>3, <3>5 DEF UpToDate
    <3> QED
      BY <2>2, <3>2, <3>6 DEF LacChange
  <2> QED
    BY <2>1, <2>2
<1> QED
  BY <1>1, TypeInvariant, SeenInvariant, OrderInvariant, PTL
=============================================================================
