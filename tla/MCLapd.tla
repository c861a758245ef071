------------------------------- MODULE MCLapd -------------------------------
(* Small instances of Lapd for TLC: a message of one segment and one of two. *)
EXTENDS Lapd, TLC

MCParts == [m \in Msgs |-> IF m = "short" THEN 1 ELSE 2]
=============================================================================
