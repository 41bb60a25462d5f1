---------------------------- MODULE MCRunHistory ----------------------------
(* Instances of RunHistory for TLC. *)
EXTENDS RunHistory
=============================================================================
