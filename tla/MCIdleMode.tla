----------------------------- MODULE MCIdleMode -----------------------------
(***************************************************************************)
(* An instance of IdleMode for TLC: three cells of two networks, the home  *)
(* network 1 and another one.                                              *)
(***************************************************************************)
EXTENDS IdleMode

Lai(p, n) == [plmn |-> p, la |-> n]
MCNet == <<Lai(2, 1), Lai(1, 1), Lai(1, 2)>>
MCNcell == <<{}, {3}, {2}>>

(* Why an update is rejected: the foreign network does not admit the phone, nor does the
   home network in one of its cells, and in the other its area is barred, or the SIM. *)
MCCauses == <<{"plmn"}, {"la", "sim"}, {"plmn"}>>

(* A SIM last registered in cell 2, where one cell of each network is heard, and one
   never registered where only the cell of the other network is.  The cell that comes
   may be the other area of the home network. *)
MCStarts == {[air |-> {1, 2}, rplmn |-> 1, lai |-> Lai(1, 1), ustate |-> "U1"],
             [air |-> {1}, rplmn |-> 0, lai |-> NoLai, ustate |-> "U2"]}
=============================================================================
