----------------------------- MODULE MCTestRun -----------------------------
(* Instances of TestRun for TLC.  A tick is a quarter of a minute. *)
EXTENDS TestRun

(* Timeouts of 30 and 120 seconds; the load test comes last. *)
MCSuite ==
  << [kind |-> "single", auth |-> FALSE, timeout |-> 8],
     [kind |-> "multi", auth |-> TRUE, timeout |-> 8],
     [kind |-> "auth_only", auth |-> TRUE, timeout |-> 2],
     [kind |-> "single", auth |-> TRUE, timeout |-> 2],
     [kind |-> "load", auth |-> TRUE, timeout |-> 8] >>
=============================================================================
