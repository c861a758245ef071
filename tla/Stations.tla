------------------------------ MODULE Stations ------------------------------
(***************************************************************************)
(* The data of PyCatcher: the list of base stations, its evaluation, and   *)
(* the local area database (pyCatcherModel.py, localAreaDatabse.py, and    *)
(* the handlers of pyCatcherController.py that work on them).              *)
(*                                                                         *)
(* The sweep thread calls back with each station it has read; the callback *)
(* adds the station and evaluates the whole list.  Handlers of the GUI     *)
(* evaluate the list as well and store it in the database, and the PCH     *)
(* thread writes its counts into it.  No lock orders them.  A loop over    *)
(* the list is split between stations, an evaluation also between the      *)
(* findings and their being stored.  A station is looked for in one step   *)
(* and entered in the next, so that two sweep threads may each append it;  *)
(* a known one is counted before it is updated.  The rest is one step each.*)
(***************************************************************************)
EXTENDS Rules, SequencesExt

CONSTANTS
  Sweepers,     \* sweep threads
  Sightings,    \* what may be read of a station
  RuleSets,     \* the sets of active rules the user may choose
  Counts,       \* what a PCH scan may have counted
  Overlaps,     \* whether handlers of several threads may overlap, both or one
  MaxScans,     \* bound: stations read
  MaxChoices,   \* bound: choices of the user, where handlers may overlap or not
  MaxPch        \* bound: results of PCH scans, where they may or not

ASSUME StationsAssumption ==
  /\ Overlaps \subseteq BOOLEAN
  /\ MaxScans \in Nat /\ {MaxChoices, MaxPch} \subseteq [BOOLEAN -> Nat]
  /\ \A R \in RuleSets : R \subseteq RuleNames
  /\ \A x \in Sightings : {x.lac, x.rxlev} \subseteq Int

VARIABLES
  overlap,      \* handlers of several threads may overlap
  list,         \* _base_station_list
  active,       \* the active rules
  evaluator,    \* _active_evaluator
  lacs, rxs,    \* _old_lac, _old_rx
  db,           \* the table basestations of the current location, by cell
  cache,        \* LocalAreaDatabase.cache
  proc,         \* where each thread is
  scans, choices, pchs,
  seen,         \* history: the LACs entered of each ARFCN
  stored        \* history: the levels stored of each cell

memory == <<lacs, rxs>>
database == <<db, cache, stored>>
settings == <<overlap, active, evaluator>>
bounds == <<scans, choices, pchs>>
vars == <<settings, list, memory, database, proc, bounds, seen>>

Threads == Sweepers \cup {"gui"}
NoReport == [r \in {} |-> "Ignore"]
NotScanned == [done |-> FALSE, pagings |-> 0, hop |-> 0, nonhop |-> 0]
At(where, i) == [at |-> where, i |-> i, new |-> {}, report |-> NoReport]
Idle == At("idle", 0)

(* BaseStationInformation of what was read *)
Station(x) ==
  [arfcn |-> x.arfcn, provider |-> x.provider, country |-> x.country, lac |-> x.lac,
   cell |-> x.cell, rxlev |-> x.rxlev, neighbours |-> x.neighbours, times_scanned |-> 1,
   pch |-> NotScanned, report |-> NoReport, evaluation |-> "NYE"]

Put(f, x, v) == [y \in DOMAIN f \cup {x} |-> IF y = x THEN v ELSE f[y]]
Empty == [x \in {} |-> 0]

Init ==
  /\ overlap \in Overlaps
  /\ list = <<>>
  /\ active \in RuleSets /\ evaluator = "conservative"
  /\ lacs = Empty /\ rxs = Empty
  /\ db = Empty /\ cache = Empty
  /\ proc = [t \in Threads |-> Idle]
  /\ scans = 0 /\ choices = 0 /\ pchs = 0
  /\ seen = Empty /\ stored = Empty

AllIdle == \A t \in Threads : proc[t].at = "idle"
MayStart(t) == proc[t].at = "idle" /\ (overlap \/ AllIdle)
Goes(t, p) == proc' = [proc EXCEPT ![t] = p]

(* trigger_evaluation *)
StartsEvaluation(n) == IF n = 0 THEN Idle ELSE At("check", 1)

-----------------------------------------------------------------------------
(* _found_base_station_callback, add_station: the list is searched; the first
   entry of the ARFCN is counted and then takes over what was read, and a station
   not found is appended. *)
WrongIndexOf(x) == {i \in DOMAIN list : list[i].cell = x.cell}
IndexOf(x) == Places(x.arfcn, list)

Found(t) == \E x \in Sightings :
  /\ MayStart(t) /\ scans < MaxScans
  /\ scans' = scans + 1
  /\ \/ /\ IndexOf(x) = {}
        /\ Goes(t, [At("append", 0) EXCEPT !.new = {x}])
        /\ UNCHANGED list
     \/ /\ IndexOf(x) # {}
        /\ list' = [list EXCEPT ![FirstOf(IndexOf(x))].times_scanned = @ + 1]
        /\ Goes(t, [At("refresh", FirstOf(IndexOf(x))) EXCEPT !.new = {x}])
  /\ UNCHANGED <<settings, memory, database, choices, pchs, seen>>

Enters(x) ==
  seen' = Put(seen, x.arfcn, {x.lac} \cup IF x.arfcn \in DOMAIN seen THEN seen[x.arfcn] ELSE {})

AppendStation(t) == \E x \in proc[t].new :
  /\ proc[t].at = "append"
  /\ list' = Append(list, Station(x))
  /\ Enters(x)
  /\ Goes(t, StartsEvaluation(1))
  /\ UNCHANGED <<settings, memory, database, bounds>>

Refresh(t) == \E x \in proc[t].new :
  /\ proc[t].at = "refresh"
  /\ list' = [list EXCEPT ![proc[t].i] =
       [@ EXCEPT !.provider = x.provider, !.country = x.country, !.lac = x.lac,
                 !.cell = x.cell, !.rxlev = x.rxlev, !.neighbours = x.neighbours]]
  /\ Enters(x)
  /\ Goes(t, StartsEvaluation(1))
  /\ UNCHANGED <<settings, memory, database, bounds>>

-----------------------------------------------------------------------------
(* BaseStationInformationList.evaluate, one entry of the list: the rules are
   given its ARFCN, and s is the entry they stop at. *)
LacMemory(s) == LACChangeRule(s, Remembered(lacs, s, s.lac))
RxMemory(s) == RxChangeRule(s, Remembered(rxs, s, s.rxlev))

Report(s) == [r \in active |->
  CASE r = "LAC Change Rule" -> LacMemory(s).result
    [] r = "rx Change Rule" -> RxMemory(s).result
    [] r = "Local Area Database" -> LocationAreaDatabaseRule(s, cache)
    [] OTHER -> Check(r, s.arfcn, list)]

CheckStation(t) == LET s == Extracted(list[proc[t].i].arfcn, list) IN
  /\ proc[t].at = "check"
  /\ Goes(t, [At("write", proc[t].i) EXCEPT !.report = Report(s)])
  /\ lacs' = IF "LAC Change Rule" \in active THEN Put(lacs, s.arfcn, LacMemory(s)) ELSE lacs
  /\ rxs' = IF "rx Change Rule" \in active THEN Put(rxs, s.arfcn, RxMemory(s)) ELSE rxs
  /\ UNCHANGED <<settings, list, database, bounds, seen>>

(* The loop ends one station early, or late. *)
WrongNextStation(i) == IF i + 1 < Len(list) THEN At("check", i + 1) ELSE Idle
NextStation(i) == IF i < Len(list) THEN At("check", i + 1) ELSE Idle

WriteStation(t) == LET i == proc[t].i IN
  /\ proc[t].at = "write"
  /\ list' = [list EXCEPT ![i] =
       [@ EXCEPT !.report = proc[t].report, !.evaluation = Evaluate(evaluator, proc[t].report)]]
  /\ Goes(t, NextStation(i))
  /\ UNCHANGED <<settings, memory, database, bounds, seen>>

-----------------------------------------------------------------------------
(* Choices of the user *)
Chooses ==
  /\ MayStart("gui") /\ choices < MaxChoices[overlap]
  /\ choices' = choices + 1

(* _update_rules *)
UpdateRules == \E R \in RuleSets :
  /\ Chooses
  /\ R # active /\ active' = R
  /\ Goes("gui", StartsEvaluation(Len(list)))
  /\ UNCHANGED <<overlap, evaluator, list, memory, database, scans, pchs, seen>>

SetEvaluator == \E e \in Evaluators :
  /\ Chooses
  /\ e # evaluator /\ evaluator' = e
  /\ Goes("gui", StartsEvaluation(Len(list)))
  /\ UNCHANGED <<overlap, active, list, memory, database, scans, pchs, seen>>

(* _update_databases, set_new_location: the cache takes over the table. *)
SetLocation ==
  /\ Chooses
  /\ cache # db /\ cache' = db
  /\ UNCHANGED <<settings, list, memory, db, stored, proc, scans, pchs, seen>>

(* update_location_database: the table is loaded, then the list stored; the
   cache stays as it was loaded. *)
UpdateLocationDatabase ==
  /\ Chooses /\ list # <<>>
  /\ cache' = db
  /\ Goes("gui", At("store", 1))
  /\ UNCHANGED <<settings, list, memory, db, stored, scans, pchs, seen>>

NewRow(s) == [rxmin |-> s.rxlev, rxmax |-> s.rxlev, sightings |-> s.times_scanned]

(* The last level stored is taken for the maximum. *)
WrongAltered(row, s) ==
  [rxmin |-> IF s.rxlev < row.rxmin THEN s.rxlev ELSE row.rxmin,
   rxmax |-> s.rxlev,
   sightings |-> row.sightings + s.times_scanned]
Altered(row, s) ==
  [rxmin |-> IF s.rxlev < row.rxmin THEN s.rxlev ELSE row.rxmin,
   rxmax |-> IF s.rxlev > row.rxmax THEN s.rxlev ELSE row.rxmax,
   sightings |-> row.sightings + s.times_scanned]

(* insert_or_alter_base_station *)
StoreStation == LET p == proc["gui"]
                    s == list[p.i] IN
  /\ p.at = "store"
  /\ db' = Put(db, s.cell, IF s.cell \in DOMAIN db THEN Altered(db[s.cell], s) ELSE NewRow(s))
  /\ stored' = Put(stored, s.cell,
                   {s.rxlev} \cup IF s.cell \in DOMAIN stored THEN stored[s.cell] ELSE {})
  /\ Goes("gui", IF p.i < Len(list) THEN At("store", p.i + 1) ELSE Idle)
  /\ UNCHANGED <<settings, list, memory, cache, bounds, seen>>

(* _pch_done_callback, when results are integrated *)
PchDone == \E i \in DOMAIN list, c \in Counts :
  /\ pchs < MaxPch[overlap]
  /\ pchs' = pchs + 1
  /\ "PCH Scan" \in active
  /\ list' = [j \in DOMAIN list |->
               IF list[j].arfcn = list[i].arfcn THEN [list[j] EXCEPT !.pch = c] ELSE list[j]]
  /\ UNCHANGED <<settings, memory, database, proc, scans, choices, seen>>

Next ==
  \/ \E t \in Sweepers : Found(t) \/ AppendStation(t) \/ Refresh(t)
  \/ \E t \in Threads : CheckStation(t) \/ WriteStation(t)
  \/ UpdateRules \/ SetEvaluator \/ SetLocation \/ UpdateLocationDatabase \/ StoreStation
  \/ PchDone

Spec == Init /\ [][Next]_vars

-----------------------------------------------------------------------------
Rows == [rxmin : Int, rxmax : Int, sightings : Nat]
IsReport(f) == DOMAIN f \in RuleSets \cup {{}} /\ \A r \in DOMAIN f : f[r] \in Findings

(* Types; the ARFCNs of the list are those read.  Where handlers take turns each
   has one entry: with two, rules and callbacks would take one station for another
   (pyCatcherModel.py:101-120).  Where they overlap it may have several. *)
OneEntry == \A i, j \in DOMAIN list : list[i].arfcn = list[j].arfcn => i = j
TypeOK ==
  /\ overlap \/ OneEntry
  /\ {list[i].arfcn : i \in DOMAIN list} = DOMAIN seen
  /\ overlap \in BOOLEAN
  /\ \A i \in DOMAIN list :
       /\ list[i].times_scanned \in 1..scans
       /\ IsReport(list[i].report)
       /\ list[i].evaluation \in {"NYE", "Ok", "Warning", "Critical"}
       /\ list[i].pch \in Counts \cup {NotScanned}
  /\ active \in RuleSets /\ evaluator \in Evaluators
  /\ \A c \in DOMAIN db : db[c] \in Rows
  /\ \A c \in DOMAIN cache : cache[c] \in Rows
  /\ \A t \in Threads : proc[t].at \notin {"idle", "append"} => proc[t].i \in DOMAIN list
  /\ DOMAIN lacs \subseteq DOMAIN seen /\ DOMAIN rxs \subseteq DOMAIN seen

(* As long as each ARFCN has one entry, what a rule finds does not depend on the
   order in which the stations were read, although the loops stop at the first
   match or go on to the last, and that for neighbours breaks off
   (rules.py:25, 97, 112, 143, 180, 198). *)
OrderFree ==
  OneEntry =>
    \A r \in ContextRules : \A i \in DOMAIN list :
      Check(r, list[i].arfcn, list) = Check(r, list[i].arfcn, Reverse(list))

(* When no handler runs, every station has been judged by all active rules and
   the active evaluator, and the findings of the context rules are those of
   the list as it is: stations found before are evaluated again
   (pyCatcherController.py:121, pyCatcherModel.py:168). *)
ContextIsFresh ==
  AllIdle /\ ~overlap =>
    \A i \in DOMAIN list : LET s == list[i] IN
      /\ DOMAIN s.report = active
      /\ s.evaluation = Evaluate(evaluator, s.report)
      /\ \A r \in ContextRules \cap active : s.report[r] = Check(r, s.arfcn, list)

(* The LAC change rule is critical exactly for the stations whose LAC is not
   the one it first saw, whatever rules were switched off and on meanwhile; and
   even where handlers overlap it never blames a station of which only one LAC
   was read (rules.py:256). *)
LacChange(s) ==
  "LAC Change Rule" \in DOMAIN s.report /\ s.report["LAC Change Rule"] = "Critical"
LacChangeSeen ==
  \A i \in DOMAIN list : LET s == list[i] IN
    /\ LacChange(s) => Cardinality(seen[s.arfcn]) > 1
    /\ ~overlap /\ AllIdle /\ s.times_scanned > 1 /\ "LAC Change Rule" \in DOMAIN s.report =>
         (LacChange(s) <=> s.lac # lacs[s.arfcn].value)

(* A level that was stored for a cell never makes the database rule critical
   once the table is loaded, and the range of a row ends at stored levels
   (localAreaDatabse.py:52, rules.py:229). *)
LevelsLearned ==
  /\ DOMAIN db = DOMAIN stored
  /\ \A c \in DOMAIN db :
       /\ \A lev \in stored[c] : InRange(lev, db[c])
       /\ {db[c].rxmin, db[c].rxmax} \subseteq stored[c]
=============================================================================
