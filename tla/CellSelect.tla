----------------------------- MODULE CellSelect -----------------------------
(***************************************************************************)
(* Cell selection and re-selection of the OsmocomBB phone: the second half *)
(* of layer23/src/mobile/gsm322.c, its handling of layer 1, the scans, the *)
(* states C0 to C9 and the neighbour cells.                                *)
(*                                                                         *)
(* As in MmConn an operation is an operator from the state s of the phone  *)
(* to its next state; IdleMode makes actions of them.  A cell is its rank: *)
(* cell 1 is the strongest, so that the order in which cells are scanned   *)
(* and the choice of the best one are those of numbers.  A cell the phone  *)
(* can hear (s.air) is heard until it goes; no cell is barred.             *)
(***************************************************************************)
EXTENDS Integers, Sequences, FiniteSetsExt

CONSTANTS
  N,       \* number of cells
  Net,     \* the location area of each cell: its PLMN and its number
  Ncell,   \* the neighbours each cell announces
  Home     \* the home PLMN

Cells == 1..N
NoLai == [plmn |-> 0, la |-> 0]
Plmns == {Net[c].plmn : c \in Cells} \cup {Home}

ASSUME CellsAssumption ==
  /\ N \in Nat \ {0}
  /\ Net \in [Cells -> [plmn : Nat \ {0}, la : Nat]]
  /\ Ncell \in [Cells -> SUBSET Cells] /\ \A c \in Cells : c \notin Ncell[c]
  /\ Home \in Nat \ {0}

Selecting == {"C1", "C2", "C4", "C5", "C6", "C8", "C9"}
Searches == {"ANY_SEARCH", "PLMN_SEARCH", "HPLMN_SEARCH"}
Scanning == Selecting \cup Searches
Camped == {"C3", "C7"}
CStates == {"C0", "CONNECTED"} \cup Camped \cup Scanning

-----------------------------------------------------------------------------
(* struct gsm322_cellsel *)
InitCellSel(air) ==
  [air |-> air, c |-> "C0", cplmn |-> 0, sel |-> 0, cur |-> 0, last |-> N,
   powerscan |-> FALSE, l1 |-> "none", anyTimer |-> FALSE,
   power |-> {}, signal |-> {}, known |-> {}, ba |-> {}, forb |-> {}, aa |-> {},
   si |-> [c \in Cells |-> "none"], bal |-> [p \in Plmns |-> {}],
   nbr |-> 0, nb |-> [c \in Cells |-> "none"], nbHeard |-> {}, nbOk |-> {}, nbMeas |-> FALSE,
   c12 |-> FALSE, resel |-> FALSE, csQ |-> <<>>]

(* Whose system information a cell's entry of the list holds: none after it
   has been blanked for another reading. *)
Info(s, c) == IF s.si[c] = "read" THEN Net[c] ELSE NoLai
SelLai(s) == IF s.sel = 0 THEN NoLai ELSE Net[s.sel]

ToPlmn(s, e) == [s EXCEPT !.plmnQ = Append(@, e)]
ToCs(s, e) == [s EXCEPT !.csQ = Append(@, e)]
ToMm(s, e) == [s EXCEPT !.mmQ = Append(@, e)]

(* new_c_state, gsm322_unselect_cell, and the removal of a cell's information *)
NewC(s, c) == [s EXCEPT !.c = c, !.powerscan = FALSE]
Unselect(s) == [s EXCEPT !.sel = 0]
Forget(s) == [s EXCEPT !.known = @ \ {s.cur}, !.si[s.cur] = "none"]
Unscanned(s, cells) ==
  [s EXCEPT !.power = @ \ cells, !.signal = @ \ cells, !.known = @ \ cells]

(* gsm322_sync_to_cell: while an answer is pending nothing is changed.  An
   answer for another cell than the current one asks again.  Layer 1 is reset
   and stops measuring the neighbours. *)
Sync(s, n) ==
  IF s.l1 = "wait" THEN s ELSE [s EXCEPT !.l1 = "wait", !.nbr = n, !.nbMeas = FALSE]

(* Clearing a cell's information to read it anew *)
ReadCell(s, c, n) ==
  Sync([s EXCEPT !.cur = c, !.known = @ \ {c}, !.si[c] = "blank"], n)

(* The timer for reading a cell: gsm322_l1_signal starts it with the answer of
   layer 1, and every way out of a reading stops it. *)
CsTimer(s) == s.l1 = "ok" /\ ~s.powerscan /\ (s.c \in Scanning \/ (s.c \in Camped /\ s.nbr # 0))

-----------------------------------------------------------------------------
(* gsm322_cs_select: the cells that are available and allowable are marked,
   those of a forbidden area or PLMN too unless any cell will do. *)
BaOnly(s) == s.c \in {"C2", "C5"}
InBa(s, cells) == IF BaOnly(s) THEN cells \cap s.ba ELSE cells
WrongDenied(s, c) == c \in s.forb
Denied(s, c) == c \in s.forb \/ Net[c].plmn \in s.plmnNa
Usable(s, cells) == {c \in InBa(s, cells \cap s.power \cap s.signal \cap s.known) : s.si[c] # "none"}

MarkAa(s, cells, any) ==
  [s EXCEPT !.aa = (@ \ cells) \cup {c \in Usable(s, cells) : any => ~Denied(s, c)}]
Suitable(s, cells, plmn, any) ==
  {c \in Usable(s, cells) : any \/ (~Denied(s, c) /\ plmn \in {0, Net[c].plmn})}

(* gsm322_cs_reselect *)
Reselectable(s, any) ==
  any \/ (~Denied(s, s.cur) /\ s.cplmn \in {0, Net[s.cur].plmn})

-----------------------------------------------------------------------------
(* gsm322_nb_scan: the best neighbour found suitable and not tried yet. *)
WrongNbScan(s) ==
  IF ~s.c12 \/ s.nbOk = {} THEN s
  ELSE LET n == Min(s.nbOk) IN ReadCell([s EXCEPT !.nbOk = @ \ {n}], n, 0)
NbScan(s) ==
  IF ~s.c12 \/ s.nbOk = {} THEN ToCs(s, "NO_CELL_FOUND")
  ELSE LET n == Min(s.nbOk) IN ReadCell([s EXCEPT !.nbOk = @ \ {n}], n, 0)

(* gsm322_c_normal_cell_resel and gsm322_c_any_cell_resel *)
CellResel(s) ==
  NbScan(ToMm(NewC(Unselect(s), IF s.c = "C3" THEN "C4" ELSE "C8"), "LOST_COVERAGE"))

(* gsm322_nb_check.  A cell of a forbidden area is refused only in limited service. *)
NbSuitable(s) ==
  {n \in s.nbHeard : /\ s.nb[n] = "read" /\ s.si[n] # "none"
                     /\ IF s.c = "C7" THEN Info(s, n) \notin s.forbLa
                        ELSE Info(s, n).plmn = SelLai(s).plmn}

(* gsm322_nb_trigger_event: read the strongest neighbour not tried yet, or else
   one to be read again; when there is none go to a better one, unless that was
   done a moment ago (resel: within GSM58_RESEL_THRESHOLD), or back to the
   serving cell. *)
NbIn(s, state) == {n \in s.nbHeard : s.nb[n] = state}
NbTodo(s) == IF NbIn(s, "rla_c") # {} THEN NbIn(s, "rla_c") ELSE NbIn(s, "again")
NbTrigger(s) ==
  IF NbTodo(s) # {} THEN LET n == Min(NbTodo(s)) IN ReadCell(s, n, n)
  ELSE LET t == [s EXCEPT !.nbOk = NbSuitable(s)] IN
       IF ~s.resel /\ \E n \in t.nbOk : n < s.sel
       THEN CellResel(Unselect([t EXCEPT !.resel = TRUE]))
       ELSE IF s.nbr = 0 THEN t
       ELSE IF s.sel = 0 \/ s.si[s.sel] = "none" THEN [t EXCEPT !.exit = TRUE]
       ELSE Sync([t EXCEPT !.cur = s.sel], 0)

(* gsm322_nb_synced and gsm322_nb_read *)
NbDone(s, state) == NbTrigger([s EXCEPT !.nb[s.nbr] = state])

(* gsm322_nb_start: the list follows what the serving cell announces. *)
NbStart(s) ==
  LET list == IF s.sel = 0 THEN {} ELSE Ncell[s.sel] IN
  [s EXCEPT !.nb = [n \in Cells |-> IF n \notin list THEN "none"
                                    ELSE IF @[n] = "none" THEN "new" ELSE @[n]],
            !.nbHeard = @ \cap list, !.nbOk = @ \cap list, !.nbMeas = TRUE]

(* gsm322_nb_new_rxlev: a full set of measurements.  due are the neighbours
   whose reading is old enough to be repeated. *)
Measured(s, due) ==
  NbTrigger([s EXCEPT !.c12 = TRUE, !.nbHeard = {n \in s.air : s.nb[n] # "none"},
    !.nb = [n \in Cells |->
              CASE @[n] = "new" -> "rla_c"
                [] (@[n] = "read" /\ s.si[n] = "none") \/ n \in due -> "again"
                [] OTHER -> @[n]]])

-----------------------------------------------------------------------------
(* gsm322_c_camp_normally and gsm322_c_camp_any_cell *)
CampNormally(s) == NewC(ToMm(s, "CELL_SELECTED"), "C3")
CampAny(s) ==
  LET t == [s EXCEPT !.anyTimer = @ \/ s.sim] IN
  NewC(IF s.c = "C7" THEN t ELSE ToMm(t, "CELL_SELECTED"), "C7")

(* Back to the serving cell after a search *)
WrongTuneBack(s) == IF s.sel = 0 THEN s ELSE Sync([s EXCEPT !.cur = s.sel], 0)
TuneBack(s) ==
  IF s.sel = 0 THEN s
  ELSE Sync([s EXCEPT !.cur = s.sel, !.si[s.sel] = "read", !.known = @ \cup {s.sel}], 0)

RECURSIVE Powerscan(_)

(* gsm322_c_normal_cell_sel and gsm322_c_any_cell_sel *)
NormalCellSel(s) ==
  Powerscan(Unselect(NewC(IF s.c = "C2" THEN s ELSE Unscanned(s, Cells), "C1")))
AnyCellSel(s, noCell) ==
  LET again == s.c \in {"C0", "C6", "C8"}
      t == IF again THEN Unscanned(s, Cells) ELSE s
      u == IF again /\ noCell THEN ToMm(t, "NO_CELL_FOUND") ELSE t IN
  Powerscan(Unselect(NewC([u EXCEPT !.cplmn = 0], "C6")))

(* gsm322_search_end.  The PLMN that becomes available is passed on with a
   wrong network code, so that it never matches and is left out here. *)
SearchEnd(s) ==
  LET marked == MarkAa(s, Cells, FALSE) IN
  CASE s.c = "ANY_SEARCH" ->
         IF s.a # "A4" \/ Suitable(s, Cells, 0, FALSE) = {} THEN TuneBack(CampAny(marked))
         ELSE ToPlmn(NewC(marked, "C0"), "PLMN_AVAIL")
    [] s.c = "PLMN_SEARCH" -> ToPlmn(NewC(marked, "C0"), "PLMN_SEARCH_END")
    [] s.c = "HPLMN_SEARCH" -> TuneBack(ToPlmn(NewC(s, "C3"), "NO_CELL_FOUND"))
    [] BaOnly(s) -> NormalCellSel(s)
    [] OTHER -> ToPlmn(NewC(s, "C0"), "NO_CELL_FOUND")

(* gsm322_cs_scan *)
Scan(s) ==
  LET next == {c \in InBa(s, s.power \cap s.signal) : c > s.last} IN
  IF next = {} THEN SearchEnd([s EXCEPT !.last = N])
  ELSE ReadCell([s EXCEPT !.last = Min(next)], Min(next), 0)

(* gsm322_cs_powerscan *)
Powerscan(s) ==
  LET measured == [s EXCEPT !.powerscan = FALSE] IN
  IF InBa(s, Cells \ s.power) # {} THEN [s EXCEPT !.powerscan = TRUE, !.l1 = "none",
                                                      !.nbMeas = FALSE]
  ELSE IF s.signal # {} THEN Scan([measured EXCEPT !.last = 0])
  ELSE IF s.c = "C1" THEN Powerscan(Unscanned(measured, Cells))
  ELSE SearchEnd(measured)

(* S_L1CTL_PM_RES of every cell asked for, and S_L1CTL_PM_DONE *)
PowerDone(s) ==
  LET asked == InBa(s, Cells \ s.power)
      silent == asked \ s.air IN
  Powerscan([s EXCEPT !.power = @ \cup asked, !.signal = (@ \ asked) \cup (asked \cap s.air),
                      !.known = @ \ silent,
                      !.si = [c \in Cells |-> IF c \in silent THEN "none" ELSE @[c]]])

-----------------------------------------------------------------------------
(* The handlers of the cell selection process: what starts each search. *)
ClearedSearch(s, c) == NewC(Unscanned(s, Cells), c)
AnySearch(s) == Powerscan(ClearedSearch(s, "ANY_SEARCH"))
PlmnSearch(s) == Powerscan(Unselect(ClearedSearch(s, "PLMN_SEARCH")))

(* gsm322_c_hplmn_search: what has been read is scanned again, but for the
   serving cell and its band allocation. *)
HplmnSearch(s) ==
  Powerscan(NewC(Unscanned(s, s.known \ (s.ba \cup {s.sel})), "HPLMN_SEARCH"))

StoredCellSel(s) ==
  Powerscan(Unselect([ClearedSearch(s, "C2") EXCEPT !.ba = s.bal[s.plmn]]))

(* gsm322_c_new_plmn *)
NewPlmn(s, limited) ==
  LET t == [s EXCEPT !.cplmn = s.plmn] IN
  CASE limited -> AnyCellSel(t, FALSE)
    [] ~limited /\ s.plmn \in Plmns /\ s.bal[s.plmn] # {} -> StoredCellSel(t)
    [] OTHER -> NormalCellSel(t)

(* gsm322_c_sim_remove *)
SimRemove(s) == AnyCellSel([s EXCEPT !.forbLa = {}], FALSE)

(* gsm322_c_conn_mode_1: leaving idle mode for a channel on the serving cell.
   The measurements of its neighbours are no longer valid. *)
LeaveIdle(s) ==
  IF s.sel = 0 \/ s.si[s.sel] = "none" THEN [s EXCEPT !.exit = TRUE]
  ELSE LET t == NewC([s EXCEPT !.cur = s.sel], "CONNECTED") IN
       Sync([t EXCEPT !.c12 = @ /\ t.l1 = "wait"], 0)

(* gsm322_c_choose_cell and gsm322_cs_choose.  After a location update the phone
   returns to the cell it had. *)
ReturnToIdle(s) ==
  LET t == NewC(s, "C5")
      list == IF s.sel = 0 THEN {} ELSE s.bal[Net[s.sel].plmn] IN
  CASE s.sel # 0 /\ s.si[s.sel] = "none" -> [s EXCEPT !.exit = TRUE]
    [] s.sel # 0 /\ s.si[s.sel] # "none" -> CampNormally(Sync([s EXCEPT !.cur = s.sel], 0))
    [] list = {} -> NormalCellSel(t)
    [] OTHER -> Powerscan(Unselect(Unscanned([t EXCEPT !.ba = list], Cells)))

(* gsm322_c_event on what waits in its queue *)
CsEvent(s, e) ==
  CASE e = "SIM_REMOVE" -> SimRemove(s)
    [] e = "NEW_PLMN" -> NewPlmn(s, FALSE)
    [] e = "NEW_PLMN_LIMITED" -> NewPlmn(s, TRUE)
    [] e = "PLMN_SEARCH_START" -> PlmnSearch(s)
    [] e = "HPLMN_SEARCH" /\ s.c = "C3" -> HplmnSearch(s)
    [] e = "NO_CELL_FOUND" /\ s.c \in {"C0", "C1", "C6", "C8", "C9"} -> AnyCellSel(s, TRUE)
    [] e = "NO_CELL_FOUND" /\ s.c \in {"C2", "C4", "C5"} -> NormalCellSel(s)
    [] OTHER -> s

(* gsm322_any_timeout *)
AnyTimerExpired(s) ==
  LET t == [s EXCEPT !.anyTimer = FALSE] IN IF s.c = "C7" /\ s.sim THEN AnySearch(t) ELSE t

-----------------------------------------------------------------------------
(* gsm322_cs_store: all system information of the current cell has been read
   while scanning. *)
AnyCell(s) == s.c \in {"C6", "C8", "C9"}
Stored(s) ==
  [s EXCEPT !.known = @ \cup {s.cur}, !.si[s.cur] = "read",
            !.forb = IF Net[s.cur] \in s.forbLa THEN @ \cup {s.cur} ELSE @ \ {s.cur}]

HplmnAvail(s) == \E c \in s.known : s.si[c] # "none" /\ Info(s, c).plmn = Home

Found(s, c) ==
  LET t == Sync([s EXCEPT !.cur = c], 0)
      u == [t EXCEPT !.sel = c] IN
  IF AnyCell(s) THEN CampAny(u) ELSE CampNormally(u)

ScanFor(s) ==
  LET any == AnyCell(s)
      suitable == Suitable(s, Cells, s.cplmn, any) IN
  CASE s.c \in {"C4", "C8"} -> IF Reselectable(s, any) THEN Found(s, s.cur) ELSE NbScan(s)
    [] suitable # {} -> Found(MarkAa(s, Cells, any), Min(suitable))
    [] OTHER -> Scan(MarkAa(s, Cells, any))

Store(s) ==
  LET t == Stored(s)
      awaited == /\ AnyCell(s) \/ s.c = "ANY_SEARCH"
                 /\ s.a = "A4" /\ Net[s.cur].plmn = s.plmn
      here == IF awaited THEN MarkAa(t, {s.cur}, FALSE) ELSE t IN
  CASE awaited /\ Suitable(t, {s.cur}, s.plmn, FALSE) # {} -> ToPlmn(NewC(here, "C0"), "PLMN_AVAIL")
    [] s.c \in {"PLMN_SEARCH", "ANY_SEARCH"} -> Scan(here)
    [] s.c = "HPLMN_SEARCH" -> IF HplmnAvail(t) THEN ToPlmn(t, "CELL_FOUND") ELSE Scan(t)
    [] OTHER -> ScanFor(here)

(* gsm322_store_ba_list: the cell and its neighbours *)
StoreBa(s) == [s EXCEPT !.bal[Net[s.cur].plmn] = {s.cur} \cup Ncell[s.cur]]

(* gsm322_c_camp_sysinfo_bcch on the serving cell: if it is another than the
   one selected, a cell is selected anew. *)
CampSysinfo(s) ==
  LET t == StoreBa([s EXCEPT !.si[s.cur] = "read"])
      u == IF s.sel = 0 THEN t ELSE NbStart(t) IN
  IF s.sel = s.cur THEN u ELSE CellResel(Forget(u))

(* System information: gsm322_c_camp_sysinfo_bcch, gsm322_c_scan_sysinfo_bcch *)
Sysinfo(s) ==
  CASE s.c \in Camped /\ s.nbr # 0 -> NbDone([s EXCEPT !.si[s.cur] = "read"], "read")
    [] s.c \in Camped -> CampSysinfo(s)
    [] s.c \in Scanning -> Store(StoreBa(s))
    [] OTHER -> s

-----------------------------------------------------------------------------
(* gsm322_cs_timeout: a cell could not be read. *)
CsTimeout(s) ==
  CASE s.nbr # 0 -> NbDone(s, "bad")
    [] s.c \in {"C4", "C8"} -> NbScan(Forget(s))
    [] OTHER -> Scan(Forget(s))

(* gsm322_l1_signal: the answer to the synchronisation.  What its failure, and
   the loss of the signal, come to is in IdleMode. *)
Synced(s) ==
  LET t == [s EXCEPT !.l1 = "ok"] IN
  IF s.c \in Camped /\ s.nbr = 0 THEN NbStart(t) ELSE t
Unsynced(s) ==
  LET t == Forget([s EXCEPT !.l1 = "none"]) IN IF s.sel = s.cur THEN Unselect(t) ELSE t
=============================================================================
