---------------------------- MODULE MCRunCommand ----------------------------
(* Instances of RunCommand for TLC.  Runs are interchangeable. *)
EXTENDS RunCommand

RunSymmetry == Permutations(Runs)
=============================================================================
