---------------------------- MODULE MCController ----------------------------
(* Small instances of Controller for TLC. *)
EXTENDS Controller, TLC

Three == {<<2, 1, 3>>}
ZeroOrTen == {0, 10}
=============================================================================
