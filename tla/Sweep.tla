------------------------------- MODULE Sweep -------------------------------
(***************************************************************************)
(* What the cell scanner promises, without phone, messages or timers: it   *)
(* measures the level of every cell, visits those that are loud enough,    *)
(* strongest first and each once, and reports a cell only with the         *)
(* complete system information of that very cell.  Then it starts over.    *)
(***************************************************************************)
EXTENDS Integers, Sequences, SystemInfo

CONSTANTS
  Cells,      \* the ARFCNs
  Levels,     \* the levels a cell can be measured at
  Loud,       \* the lowest level worth a visit
  Broadcast,  \* Broadcast[a]: the system information cell a sends
  Moves       \* TRUE: the scanner may be carried away in the middle of a sweep

VARIABLES
  phase,      \* "measuring" or "visiting"
  level,      \* the level of each cell, when visiting
  visited,    \* the cells visited in this sweep
  at,         \* the cell being visited
  reports     \* the reports of the latest sweep

vars == <<phase, level, visited, at, reports>>

NoLevel == [a \in Cells |-> 0]
NoCell == -1

Init ==
  /\ phase = "measuring" /\ level = NoLevel
  /\ visited = {} /\ at = NoCell
  /\ reports = <<>>

(* The best cell to visit next when the cells of seen were visited. *)
Best(a, lev, seen) ==
  /\ a \in Cells \ seen /\ lev[a] >= Loud
  /\ \A b \in Cells \ seen : lev[b] < lev[a] \/ (lev[b] = lev[a] /\ a <= b)

Visit(lev, seen) ==
  /\ phase' = "visiting" /\ level' = lev
  /\ Best(at', lev, seen) /\ visited' = seen \cup {at'}

StartOver(lev, seen) ==
  /\ Moves \/ ~\E a \in Cells : Best(a, lev, seen)
  /\ phase' = "measuring" /\ level' = NoLevel
  /\ visited' = {} /\ at' = NoCell

Measured ==
  /\ phase = "measuring"
  /\ \E lev \in [Cells -> Levels] : Visit(lev, {}) \/ StartOver(lev, {})
  /\ reports' = <<>>

Report ==
  \E si \in SUBSET Broadcast[at] :
    Complete(si) /\ reports' = Append(reports, [arfcn |-> at, si |-> si])

Leave ==
  /\ phase = "visiting"
  /\ Visit(level, visited) \/ StartOver(level, visited)
  /\ Report \/ UNCHANGED reports

Next == Measured \/ Leave

Spec == Init /\ [][Next]_vars
=============================================================================
