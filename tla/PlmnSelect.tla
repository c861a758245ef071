----------------------------- MODULE PlmnSelect -----------------------------
(***************************************************************************)
(* The automatic selection of a network by the OsmocomBB phone: the first  *)
(* half of layer23/src/mobile/gsm322.c, states A0 to A6, and the lists of  *)
(* networks and areas it may not use.                                      *)
(*                                                                         *)
(* Operators as in CellSelect.  All cells are heard at most at -85 dBm, so *)
(* that a list of networks is in the order of their strongest cells, the   *)
(* home PLMN first; the networks are of the home country, and the SIM has  *)
(* no list of preferred ones.                                              *)
(***************************************************************************)
EXTENDS CellSelect, SequencesExt

AStates == {"A0", "A1", "A2", "A3", "A4", "A5", "A6"}

(* struct gsm322_plmn *)
InitPlmn == [a |-> "A0", plmn |-> 0, sorted |-> <<>>, curr |-> 0, plmnTimer |-> FALSE,
             forbLa |-> {}, plmnQ |-> <<>>]

(* new_a_state stops the timer of the search for the home PLMN *)
NewA(s, a) == [s EXCEPT !.a = a, !.plmnTimer = FALSE]

-----------------------------------------------------------------------------
(* gsm322_sort_list: the PLMNs of the cells marked available and allowable.
   A marked cell that is being read anew counts as one of no PLMN. *)
PlmnOf(s, c) == Info(s, c).plmn
Sorted(s) ==
  LET listed == {c \in s.aa : s.si[c] # "none"}
      best == {c \in listed : \A d \in listed : PlmnOf(s, d) = PlmnOf(s, c) => c <= d}
      cells == SetToSortSeq(best, <)
      all == [i \in DOMAIN cells |-> PlmnOf(s, cells[i])]
      home == s.sim /\ \E i \in DOMAIN all : all[i] = Home IN
  IF home THEN <<Home>> \o SelectSeq(all, LAMBDA p : p # Home) ELSE all

-----------------------------------------------------------------------------
(* gsm322_a_go_on_plmn, gsm322_a_go_wait_for_plmns and gsm322_a_no_more_plmn *)
WrongGoOnPlmn(s) == NewA([s EXCEPT !.plmnTimer = s.plmn # Home /\ s.sim], "A2")
GoOnPlmn(s) == [NewA(s, "A2") EXCEPT !.plmnTimer = s.plmn # Home /\ s.sim]
GoWaitForPlmns(s) == ToCs(NewA(s, "A4"), "NEW_PLMN_LIMITED")

OwnPlmn(s) == IF s.rplmn # 0 THEN s.rplmn ELSE IF s.sim THEN Home ELSE 0
NoMorePlmn(s) ==
  LET found == Suitable(s, Cells, 0, FALSE)
      t == MarkAa(s, Cells, FALSE) IN
  IF found = {} THEN GoWaitForPlmns([t EXCEPT !.plmn = OwnPlmn(s)])
  ELSE GoOnPlmn(ToCs([t EXCEPT !.plmn = Net[Min(found)].plmn], "NEW_PLMN"))

(* Trying the first network of the list that is allowed, from a place on *)
Allowed(s, i) == s.sorted[i] \notin s.plmnNa
TryPlmn(s, places) ==
  IF places = {} THEN NoMorePlmn([s EXCEPT !.curr = Len(s.sorted) + 1])
  ELSE LET i == Min(places) IN
       ToCs(NewA([s EXCEPT !.curr = i, !.plmn = s.sorted[i]], "A3"), "NEW_PLMN")

(* gsm322_a_sel_first_plmn skips the home PLMN if it was the last selected *)
SelFirstPlmn(s) ==
  LET t == [s EXCEPT !.sorted = Sorted(s)] IN
  TryPlmn(t, {i \in DOMAIN t.sorted : Allowed(t, i) /\ ~(t.sorted[i] = Home /\ s.plmn = Home)})
SelNextPlmn(s) == TryPlmn(s, {i \in DOMAIN s.sorted : i > s.curr /\ Allowed(s, i)})

(* gsm322_a_user_resel *)
UserResel(s) ==
  LET rest == SelectSeq(s.sorted, LAMBDA p : p # s.plmn) IN
  IF ~s.sim \/ s.c = "CONNECTED" \/ Len(rest) = Len(s.sorted) THEN s
  ELSE SelFirstPlmn(ToMm([s EXCEPT !.sorted = Append(rest, s.plmn)], "USER_PLMN_SEL"))

(* gsm322_a_loss_of_radio *)
LossOfRadio(s) ==
  LET t == MarkAa(s, Cells, FALSE) IN
  IF Suitable(s, Cells, 0, FALSE) # {} THEN SelFirstPlmn(t) ELSE GoWaitForPlmns(t)

(* gsm322_a_switch_on and gsm322_a_sim_removed *)
SwitchOn(s) ==
  CASE ~s.sim -> NewA(s, "A6")
    [] s.sim /\ s.rplmn # 0 -> ToCs(NewA([s EXCEPT !.plmn = s.rplmn], "A1"), "NEW_PLMN")
    [] OTHER -> ToCs([s EXCEPT !.plmn = 0], "PLMN_SEARCH_START")
SimRemoved(s) == SwitchOn(ToCs([s EXCEPT !.plmnNa = {}], "SIM_REMOVE"))

(* gsm322_a_hplmn_search_start *)
HplmnSearchStart(s) ==
  IF s.c # "C3" THEN [s EXCEPT !.plmnTimer = TRUE] ELSE ToCs(NewA(s, "A5"), "HPLMN_SEARCH")

(* gsm322_a_event: the first row of its table that fits *)
PlmnEvent(s, e) ==
  CASE e = "PLMN_SEARCH_END" /\ s.a = "A0" -> SelFirstPlmn(s)
    [] e = "SIM_INSERT" /\ s.a \in {"A0", "A6"} -> SwitchOn(s)
    [] e \in {"SIM_REMOVE", "INVALID_SIM"} -> SimRemoved(s)
    [] s.a = "A1" /\ e \in {"REG_FAILED", "ROAMING_NA", "NO_CELL_FOUND"} -> SelFirstPlmn(s)
    [] s.a \in {"A1", "A3"} /\ e = "REG_SUCCESS" -> GoOnPlmn(s)
    [] s.a = "A2" /\ e = "ROAMING_NA" -> SelFirstPlmn(s)
    [] s.a = "A2" /\ e = "HPLMN_SEARCH" -> HplmnSearchStart(s)
    [] s.a = "A2" /\ e = "NO_CELL_FOUND" -> LossOfRadio(s)
    [] s.a = "A2" /\ e = "USER_RESEL" -> UserResel(s)
    [] s.a = "A3" /\ e \in {"REG_FAILED", "ROAMING_NA", "NO_CELL_FOUND"} -> SelNextPlmn(s)
    [] s.a = "A5" /\ e = "CELL_FOUND" -> SelFirstPlmn(s)
    [] s.a = "A5" /\ e = "NO_CELL_FOUND" -> GoOnPlmn(s)
    [] s.a = "A4" /\ e = "PLMN_AVAIL" -> SelFirstPlmn(s)
    [] s.a \in {"A0", "A4", "A6"} /\ e = "NO_CELL_FOUND" -> ToCs(s, "NO_CELL_FOUND")
    [] OTHER -> s
=============================================================================
