----------------------------- MODULE MCStations -----------------------------
(* Small instances of Stations for TLC: the settings of settings.py, reduced
   to the two providers and the ARFCNs of the stations below. *)
EXTENDS Stations, TLC

MCProviders == {"T-Mobile", "O2"}
MCCountries == [p \in MCProviders |-> "Germany"]
MCArfcns == ("T-Mobile" :> {13, 14}) @@ ("O2" :> {0})
MCLacs == ("T-Mobile" :> {100, 101}) @@ ("O2" :> {500})
MCGroups ==
  {{"Provider Check", "Country Provider Mapping", "ARFCN Mapping", "LAC Mapping", "Unique CellID"},
   {"LAC Median Deviation", "Neighbourhood Structure", "Pure Neighbourhoods"},
   {"Local Area Database"}, {"LAC Change Rule", "rx Change Rule"}, {"PCH Scan"}}

Sighting(a, p, l, c, rx, n) ==
  [arfcn |-> a, provider |-> p, country |-> "Germany", lac |-> l, cell |-> c, rxlev |-> rx,
   neighbours |-> n]

(* Station 13 as it is and replaced by another with a new LAC, louder; its
   neighbour 14; and one on a foreign ARFCN with the cell ID of 13. *)
MCSightings ==
  {Sighting(13, "T-Mobile", 100, 7, -80, {14}), Sighting(13, "T-Mobile", 900, 7, -60, {14}),
   Sighting(14, "T-Mobile", 101, 8, -90, {13}), Sighting(0, "O2", 500, 7, -70, {})}

SweeperSymmetry == Permutations(Sweepers)
MCNegative == -1
DefaultRules == RuleNames \ {"Local Area Database"}
MCRuleSets == {DefaultRules, RuleNames \ {"LAC Change Rule"}}
(* Rules are switched off and on again where handlers take turns. *)
MCMaxChoices == [b \in BOOLEAN |-> IF b THEN 1 ELSE 2]
MCMaxPch == [b \in BOOLEAN |-> IF b THEN 0 ELSE 1]
MCCounts == {[done |-> TRUE, pagings |-> 5, hop |-> 1, nonhop |-> 0]}
=============================================================================
