---------------------------- MODULE RowLifecycle ----------------------------
(***************************************************************************)
(* What the status column of test_runs promises its readers: a row is      *)
(* opened as "running" by a live run, gets one final status, and is called *)
(* "interrupted" only after the process that ran it died, or gave up       *)
(* writing it.  RunHistory implements this with heartbeats and sweepers,   *)
(* RunCommand with the records of its files, which nobody interrupts.      *)
(***************************************************************************)
EXTENDS Naturals

CONSTANT Rows

VARIABLES
  rowStatus,  (* test_runs.status, "none" before the row exists            *)
  alive       (* a run is working on the row                               *)

lifecycleVars == <<rowStatus, alive>>

LifecycleInit ==
  /\ rowStatus = [r \in Rows |-> "none"]
  /\ alive     = [r \in Rows |-> FALSE]

(* The insert may fail: the run goes on without a row. *)
Open(r) ==
  /\ rowStatus[r] = "none" /\ ~alive[r]
  /\ \E s \in {"none", "running"} : rowStatus' = [rowStatus EXCEPT ![r] = s]
  /\ alive' = [alive EXCEPT ![r] = TRUE]

(* The run ends, and with it the row, unless the database fails. *)
Close(r) ==
  /\ alive[r]
  /\ \/ UNCHANGED rowStatus
     \/ /\ rowStatus[r] = "running"
        /\ \E s \in {"completed", "stopped", "error"} :
             rowStatus' = [rowStatus EXCEPT ![r] = s]
  /\ alive' = [alive EXCEPT ![r] = FALSE]

(* A process dies with all the runs it has. *)
Die(dead) ==
  /\ \A r \in dead : alive[r]
  /\ alive' = [r \in Rows |-> alive[r] /\ r \notin dead]
  /\ UNCHANGED rowStatus

(* Rows are called interrupted only when nobody works on them. *)
Interrupt(stale) ==
  /\ \A r \in stale : rowStatus[r] = "running" /\ ~alive[r]
  /\ rowStatus' = [r \in Rows |-> IF r \in stale THEN "interrupted" ELSE rowStatus[r]]
  /\ UNCHANGED alive

LifecycleNext ==
  \/ \E r \in Rows : Open(r) \/ Close(r)
  \/ \E set \in SUBSET Rows : Die(set) \/ Interrupt(set)

LifecycleSpec == LifecycleInit /\ [][LifecycleNext]_lifecycleVars
=============================================================================
