-------------------------------- MODULE Rules --------------------------------
(***************************************************************************)
(* The rules that judge a base station and the evaluators that join their  *)
(* findings (PyCatcher/src/rules.py, evaluators.py).  A rule sees the list *)
(* of all stations and the ARFCN a of the one it judges, or s, the entry   *)
(* it stops at.  The two scan rules remember what they saw: they take      *)
(* their memory and return it with the finding.                            *)
(*                                                                         *)
(* A definition whose name begins with "Wrong" is a plausible mistake in   *)
(* the one that follows it, and not part of the model.                     *)
(***************************************************************************)
EXTENDS Integers, Sequences, FiniteSets

CONSTANTS            \* settings.py; thresholds of a part are in percent
  Provider_list, Provider_Country_list, ARFCN_mapping, LAC_mapping,
  LAC_threshold, DB_RX_threshold, CH_RX_threshold,
  Pagings_per_10s_threshold, Assignment_limit, Neighbours_threshold,
  Rule_Groups

(* DiscoveredNeighboursRule divides by a list if its threshold is a part. *)
ASSUME RulesAssumption ==
  /\ {LAC_threshold, DB_RX_threshold, CH_RX_threshold} \subseteq Nat
  /\ Neighbours_threshold \in Int \ {0, 1}

Abs(n) == IF n < 0 THEN -n ELSE n
Within(n, of, percent) == 100 * Abs(n - of) <= Abs(of) * percent

Verdict(holds) == IF holds THEN "Ok" ELSE "Critical"

(* The loops over the list that look for ARFCN a: some return or break at its
   first entry, others run on, so that the last is what they keep. *)
Places(a, list) == {i \in DOMAIN list : list[i].arfcn = a}
FirstOf(S) == CHOOSE i \in S : \A j \in S : i <= j
LastOf(S) == CHOOSE i \in S : \A j \in S : j <= i
Extracted(a, list) == list[FirstOf(Places(a, list))]
Latest(a, list) == list[LastOf(Places(a, list))]

-----------------------------------------------------------------------------
(* Configuration rules *)
ProviderRule(a, list) ==
  Verdict(\E i \in Places(a, list) : list[i].provider \in Provider_list)

CountryMappingRule(a, list) ==
  Verdict(\A i \in Places(a, list) :
            /\ list[i].provider \in DOMAIN Provider_Country_list
            /\ list[i].country = Provider_Country_list[list[i].provider])

ARFCNMappingRule(a, list) ==
  Verdict(\E i \in Places(a, list) :
            list[i].provider \in DOMAIN ARFCN_mapping /\ a \in ARFCN_mapping[list[i].provider])

LACMappingRule(a, list) ==
  Verdict(\E i \in Places(a, list) :
            /\ list[i].provider \in DOMAIN LAC_mapping
            /\ list[i].lac \in LAC_mapping[list[i].provider])

-----------------------------------------------------------------------------
(* Context rules *)

(* Cells are compared in the loop that looks for the station. *)
WrongUniqueCellIDRule(a, list) ==
  Verdict(~\E i \in DOMAIN list :
            /\ list[i].arfcn # a
            /\ \E j \in Places(a, list) : j < i /\ list[i].cell = list[j].cell)

UniqueCellIDRule(a, list) ==
  Verdict(~\E i \in DOMAIN list :
            list[i].arfcn # a /\ list[i].cell = Latest(a, list).cell)

(* The upper median, by rank: LACs of stations of one provider, repeated. *)
LACMedianRule(a, list) ==
  LET own == {i \in DOMAIN list : list[i].provider = Extracted(a, list).provider}
      k == Cardinality(own) \div 2
      Median(m) == /\ Cardinality({i \in own : list[i].lac < m}) <= k
                   /\ k < Cardinality({i \in own : list[i].lac <= m})
  IN IF Cardinality(own) < 2 THEN "Ignore"
     ELSE Verdict(\E i \in own : /\ Median(list[i].lac)
                                 /\ Within(Latest(a, list).lac, list[i].lac, LAC_threshold))

(* The entries at which a neighbour is found, and those the loop has passed
   when it breaks at the first of them: only they count as indirect ones. *)
Hits(s, list) == {i \in DOMAIN list : list[i].arfcn \in s.neighbours}
Passed(s, list) == {i \in DOMAIN list : \A j \in Hits(s, list) : i < j}

NeighbourhoodStructureRule(a, list) ==
  LET s == Extracted(a, list)
      indirect == {i \in Passed(s, list) :
                     list[i].arfcn # a /\ list[i].neighbours \cap s.neighbours # {}}
      incoming == {i \in DOMAIN list :
                     list[i].provider = s.provider /\ a \in list[i].neighbours}
  IN IF s.neighbours = {} THEN "Critical"
     ELSE IF Hits(s, list) # {} /\ incoming # {} THEN "Ok"
     ELSE IF Hits(s, list) # {} \/ indirect # {} THEN "Warning"
     ELSE "Critical"

PureNeighbourhoodRule(a, list) == LET s == Extracted(a, list) IN
  Verdict(\A i \in Hits(s, list) : list[i].provider = s.provider)

DiscoveredNeighboursRule(a, list) ==
  IF Neighbours_threshold < 0 THEN "Ignore"
  ELSE Verdict(Cardinality(Hits(Extracted(a, list), list)) >= Neighbours_threshold)

-----------------------------------------------------------------------------
(* Database and paging rules *)

InRange(lev, row) ==
  /\ 100 * lev >= 100 * row.rxmin - Abs(row.rxmin) * DB_RX_threshold
  /\ 100 * lev <= 100 * row.rxmax + Abs(row.rxmax) * DB_RX_threshold

LocationAreaDatabaseRule(s, cache) ==
  IF s.cell \notin DOMAIN cache THEN "Ignore" ELSE Verdict(InRange(s.rxlev, cache[s.cell]))

PCHRule(s) ==
  IF ~s.pch.done THEN "Ignore"
  ELSE Verdict(/\ s.pch.nonhop = 0
               /\ s.pch.pagings >= Pagings_per_10s_threshold
               /\ s.pch.hop >= Assignment_limit)

-----------------------------------------------------------------------------
(* Scan rules.  A memory is a function from ARFCNs to what was found when   *)
(* the rule last looked at a new sighting of the station.                   *)
Entry(value, s, result) == [value |-> value, scanned |-> s.times_scanned, result |-> result]
Fresh(s, old) == s.times_scanned > 1 /\ s.times_scanned > old.scanned

(* The last LAC is remembered. *)
WrongLACChangeRule(s, old) ==
  IF ~Fresh(s, old) THEN old ELSE Entry(s.lac, s, Verdict(s.lac = old.value))

LACChangeRule(s, old) ==
  IF ~Fresh(s, old) THEN old
  ELSE Entry(old.value, s, Verdict(s.lac = old.value))

RxChangeRule(s, old) ==
  IF ~Fresh(s, old) THEN old
  ELSE Entry(s.rxlev, s, Verdict(Within(s.rxlev, old.value, CH_RX_threshold)))

(* What a rule finds in its memory; a station it never saw is entered first. *)
Remembered(memory, s, value) ==
  IF s.arfcn \in DOMAIN memory THEN memory[s.arfcn] ELSE Entry(value, s, "Ignore")

-----------------------------------------------------------------------------
ContextRules ==
  {"Provider Check", "Country Provider Mapping", "ARFCN Mapping", "LAC Mapping",
   "Unique CellID", "LAC Median Deviation", "Neighbourhood Structure",
   "Pure Neighbourhoods", "Discovered Neighbours"}
RuleNames ==
  ContextRules \cup {"Local Area Database", "LAC Change Rule", "rx Change Rule", "PCH Scan"}
Findings == {"Ok", "Warning", "Critical", "Ignore"}

(* The finding of a rule without memory. *)
Check(r, a, list) ==
  CASE r = "Provider Check" -> ProviderRule(a, list)
    [] r = "Country Provider Mapping" -> CountryMappingRule(a, list)
    [] r = "ARFCN Mapping" -> ARFCNMappingRule(a, list)
    [] r = "LAC Mapping" -> LACMappingRule(a, list)
    [] r = "Unique CellID" -> UniqueCellIDRule(a, list)
    [] r = "LAC Median Deviation" -> LACMedianRule(a, list)
    [] r = "Neighbourhood Structure" -> NeighbourhoodStructureRule(a, list)
    [] r = "Pure Neighbourhoods" -> PureNeighbourhoodRule(a, list)
    [] r = "Discovered Neighbours" -> DiscoveredNeighboursRule(a, list)
    [] r = "PCH Scan" -> PCHRule(Extracted(a, list))

-----------------------------------------------------------------------------
(* Evaluators.  report maps the active rules to their findings. *)
ConservativeEvaluator(report) ==
  LET found == {report[r] : r \in DOMAIN report}
  IN IF "Critical" \in found THEN "Critical" ELSE IF "Warning" \in found THEN "Warning" ELSE "Ok"

(* evaluate_group_results: the most frequent finding, the worse of equals. *)
GroupResult(group, report) ==
  LET count(f) == Cardinality({r \in group \cap DOMAIN report : report[r] = f})
      most(f) == count(f) > 0 /\ \A g \in {"Ok", "Warning", "Critical"} : count(f) >= count(g)
  IN IF most("Critical") THEN "Critical"
     ELSE IF most("Warning") THEN "Warning"
     ELSE IF most("Ok") THEN "Ok"
     ELSE "Ignore"

GroupEvaluator(report) ==
  LET found == {GroupResult(group, report) : group \in Rule_Groups}
  IN IF "Critical" \in found THEN "Critical"
     ELSE IF "Warning" \in found THEN "Warning"
     ELSE IF "Ok" \in found THEN "Ok"
     ELSE "Critical"

Evaluators == {"conservative", "group"}
Evaluate(evaluator, report) ==
  IF evaluator = "group" THEN GroupEvaluator(report) ELSE ConservativeEvaluator(report)
=============================================================================
