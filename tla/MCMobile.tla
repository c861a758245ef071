------------------------------ MODULE MCMobile ------------------------------
(* An instance of the calling phone for TLC, in all its settings. *)
EXTENDS Mobile

MCSettings == [cw : BOOLEAN, autoAnswer : BOOLEAN]
=============================================================================
