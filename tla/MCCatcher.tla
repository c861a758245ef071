------------------------------ MODULE MCCatcher ------------------------------
(* Small instances of CatcherSystem for TLC. *)
EXTENDS CatcherSystem, TLC

MCMinRxlev == -106

(* One level below MIN_RXLEV, one at it, and one above or not. *)
ThreeLevels == {-110, -106, -80}
TwoLevels == {-110, -106}

SI(a, t, ver, more) == [arfcn |-> a, si |-> t, ver |-> ver, more |-> more]
Plain(a, types) == {SI(a, t, 1, FALSE) : t \in types}
Mandatory == {"SI1", "SI2", "SI3", "SI4"}

(* Two bands: cells 1 and 2 in the first, cell 5 alone in the second. *)
TwoBands == <<<<1, 2>>, <<5, 5>>>>

(* Cell 1 broadcasts the mandatory types, cell 2 announces SI2bis as well,
   cell 5 lacks SI4 and never counts as read. *)
ThreeCells ==
  (1 :> Plain(1, Mandatory)) @@
  (2 :> Plain(2, Mandatory \ {"SI2"}) \cup {SI(2, "SI2", 1, TRUE), SI(2, "SI2bis", 1, FALSE)}) @@
  (5 :> Plain(5, Mandatory \ {"SI4"}))

(* One band of two cells; both can be read, the second after its SI2ter. *)
OneBand == <<<<1, 2>>>>
TwoCells ==
  (1 :> Plain(1, Mandatory)) @@
  (2 :> Plain(2, Mandatory \ {"SI3"}) \cup {SI(2, "SI3", 1, TRUE), SI(2, "SI2ter", 1, FALSE)})

(* One cell. *)
OneArfcn == <<<<3, 3>>>>
OneCell == 3 :> Plain(3, Mandatory)

(* The random references are interchangeable. *)
RaSymmetry == Permutations(RA)
=============================================================================
