SPECIFICATION Spec
CONSTANTS
  Provider_list <- MCProviders
  Provider_Country_list <- MCCountries
  ARFCN_mapping <- MCArfcns
  LAC_mapping <- MCLacs
  LAC_threshold = 5
  DB_RX_threshold = 10
  CH_RX_threshold = 20
  Pagings_per_10s_threshold = 20
  Assignment_limit = 0
  Neighbours_threshold <- MCNegative
  Rule_Groups <- MCGroups
  Sweepers = {sweep1, sweep2}
  Sightings <- MCSightings
  RuleSets <- MCRuleSets
  Counts <- MCCounts
  Overlaps = {FALSE, TRUE}
  MaxScans = 3
  MaxChoices <- MCMaxChoices
  MaxPch <- MCMaxPch
INVARIANTS TypeOK OrderFree ContextIsFresh LacChangeSeen LevelsLearned
SYMMETRY SweeperSymmetry
CHECK_DEADLOCK FALSE
