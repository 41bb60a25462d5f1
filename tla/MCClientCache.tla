---------------------------- MODULE MCClientCache ----------------------------
(* Instances of ClientCache for TLC.  Requests are interchangeable. *)
EXTENDS ClientCache, TLC

RequestSymmetry == Permutations(Requests)
=============================================================================
