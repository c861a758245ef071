------------------------------- MODULE MCRadio -------------------------------
(***************************************************************************)
(* Instances of Radio for TLC.  Two references are the fewest with which a *)
(* burst may be answered under the reference of an older one; two requests *)
(* are a first one and a repetition.                                       *)
(***************************************************************************)
EXTENDS Radio

RADef == {1, 2}
=============================================================================
