----------------------------- MODULE MCPchScan -----------------------------
(* A small instance of PchScan for TLC: two cells are scanned. *)
EXTENDS PchScan, TLC

TwoArfcns == <<<<1, 2>>>>
OneLevel == {-80}
SI(a, t) == [arfcn |-> a, si |-> t, ver |-> 1, more |-> FALSE]

(* Cell 2 sends nothing on its BCCH: what is heard there is of cell 1. *)
SI3Only == (1 :> {SI(1, "SI3")}) @@ (2 :> {})
BothInTurn == <<1, 2>>
=============================================================================
