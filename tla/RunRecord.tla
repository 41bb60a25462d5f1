------------------------------ MODULE RunRecord ------------------------------
(***************************************************************************)
(* The write-through history record of one test file                       *)
(* (testmcpy/server/run_persistence.py, RunRecord) together with the       *)
(* test_runs row and the question_results rows it writes (storage.py).     *)
(* Pure operators: a state machine that owns a record applies them.  `ok`  *)
(* is FALSE when the database raises SQLAlchemyError.                      *)
(***************************************************************************)
EXTENDS Naturals

RowStatuses == {"none", "running", "completed", "stopped", "error", "interrupted"}

(* row: test_runs.status ("none": no row); saved: question_results rows    *)
Records == [began : BOOLEAN, finished : BOOLEAN, broken : BOOLEAN,
            row : RowStatuses, saved : Nat]

NewRecord == [began |-> FALSE, finished |-> FALSE, broken |-> FALSE,
              row |-> "none", saved |-> 0]

Broken(rec) == [rec EXCEPT !.broken = TRUE]

Begin(rec, ok) ==
  IF rec.began \/ rec.broken THEN rec
  ELSE IF ok THEN [rec EXCEPT !.began = TRUE, !.row = "running"]
  ELSE Broken(rec)

Writable(rec) == rec.began /\ ~rec.finished /\ ~rec.broken

AppendResult(rec, ok) ==
  IF ~Writable(rec) THEN rec
  ELSE IF ok THEN [rec EXCEPT !.saved = @ + 1]
  ELSE Broken(rec)

(* storage.finish_run overwrites whatever status the row has. *)
Finish(rec, s, ok) ==
  IF ~Writable(rec) THEN rec
  ELSE IF ok THEN [rec EXCEPT !.finished = TRUE, !.row = s]
  ELSE Broken(rec)
=============================================================================
