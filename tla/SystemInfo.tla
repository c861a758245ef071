----------------------------- MODULE SystemInfo -----------------------------
(***************************************************************************)
(* The system information a cell broadcasts on its BCCH, as far as catcher *)
(* tells it apart, and when a cell counts as read.                         *)
(***************************************************************************)
EXTENDS Naturals

(***************************************************************************)
(* The types sent on the BCCH.  Types 5, 5bis, 5ter and 6 are sent on the  *)
(* SACCH of a dedicated channel, which catcher never opens.                *)
(***************************************************************************)
SIType == {"SI1", "SI2", "SI2bis", "SI2ter", "SI3", "SI4"}

(***************************************************************************)
(* One system information message: the cell that sent it, its type, a      *)
(* version standing for its remaining content, and the one content bit     *)
(* that matters: in SI2 that SI2bis exists, in SI3 that SI2ter exists.     *)
(***************************************************************************)
SIMessage == [arfcn : Nat, si : SIType, ver : Nat, more : BOOLEAN]

Has(si, t) == \E m \in si : m.si = t
Announced(si, t) == \E m \in si : m.si = t /\ m.more

(* The mandatory types are there, and the optional ones that were announced. *)
Complete(si) ==
  /\ \A t \in {"SI1", "SI2", "SI3", "SI4"} : Has(si, t)
  /\ Announced(si, "SI2") => Has(si, "SI2bis")
  /\ Announced(si, "SI3") => Has(si, "SI2ter")
=============================================================================
