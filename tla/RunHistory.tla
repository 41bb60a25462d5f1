----------------------------- MODULE RunHistory -----------------------------
(***************************************************************************)
(* The crash-safe history of runs: servers that share one results database *)
(* write the rows of their runs through RunRecord, stamp a heartbeat on    *)
(* them, and interrupt the rows whose heartbeat went stale, at start-up    *)
(* and periodically (server/websocket.py _heartbeat, server/api.py         *)
(* lifespan, storage.py mark_stale_runs_interrupted).                      *)
(*                                                                         *)
(* Time is counted in ticks.  Timers are punctual: a tick passes only when *)
(* no timer of a running server is due.  Ages are counted no further than  *)
(* the cutoff they are compared with.                                      *)
(***************************************************************************)
EXTENDS Naturals, FiniteSets, RunRecord

CONSTANTS
  Servers,     (* processes on the same database                           *)
  Rows,        (* rows of test_runs: one per test file that is run         *)
  BeatTicks,   (* HEARTBEAT_INTERVAL_S, 30 s                               *)
  SweepTicks,  (* period of _stale_run_sweeper, 60 s                       *)
  StaleTicks,  (* heartbeat_older_than_minutes, 3 min                      *)
  LegacyTicks, (* no_heartbeat_older_than_hours, 1 h                       *)
  MaxMissed,   (* heartbeats in a row that the database may refuse         *)
  MaxResults,  (* bound on the results of a row                            *)
  MaxCrashes,  (* bound on the crashes                                     *)
  DbOutcomes   (* {TRUE}, or BOOLEAN when other writes may fail            *)

ASSUME HistoryAssumption ==
  /\ BeatTicks \in Nat \ {0} /\ SweepTicks \in Nat \ {0}
  /\ StaleTicks \in Nat /\ LegacyTicks \in Nat
  /\ MaxMissed \in Nat /\ MaxResults \in Nat /\ MaxCrashes \in Nat
  /\ DbOutcomes \in {{TRUE}, BOOLEAN}

(* "The reconcile cutoff tolerates several failures in a row." *)
ASSUME CutoffAssumption ==
  /\ (MaxMissed + 1) * BeatTicks <= StaleTicks
  /\ (MaxMissed + 1) * BeatTicks <= LegacyTicks

NoServer == "nobody"

VARIABLES
  up,         (* the servers that are running                              *)
  owner,      (* the server that opened the row                            *)
  fate,       (* of the run of the row                                     *)
  record,     (* its RunRecord and the row                                 *)
  age,        (* ticks since started_at                                    *)
  beaten,     (* heartbeat_at is not NULL                                  *)
  beatAge,    (* ticks since heartbeat_at                                  *)
  beatTimer,  (* ticks until the heartbeat task wakes up                   *)
  missed,     (* heartbeats refused in a row                               *)
  sweepTimer, (* ticks until the server's sweeper wakes up                 *)
  crashes     (* so far                                                    *)

rowVars     == <<owner, fate, record, age, beaten, beatAge, beatTimer, missed>>
historyVars == <<up, rowVars, sweepTimer, crashes>>

HistoryTypeOK ==
  /\ up         \in SUBSET Servers
  /\ owner      \in [Rows -> Servers \union {NoServer}]
  /\ fate       \in [Rows -> {"unborn", "live", "over", "died"}]
  /\ record     \in [Rows -> Records]
  /\ age        \in [Rows -> 0..(LegacyTicks + 1)]
  /\ beaten     \in [Rows -> BOOLEAN]
  /\ beatAge    \in [Rows -> 0..(StaleTicks + 1)]
  /\ beatTimer  \in [Rows -> 0..BeatTicks]
  /\ missed     \in [Rows -> 0..MaxMissed]
  /\ sweepTimer \in [Servers -> 0..SweepTicks]
  /\ crashes    \in 0..MaxCrashes

Live(r) == fate[r] = "live"

-----------------------------------------------------------------------------
(* RunRecord.begin() and db_run_id.  The heartbeat task is older than the  *)
(* row, so its next beat may be any time within its period.                *)
BeginRow(s, r) ==
  /\ s \in up /\ fate[r] = "unborn"
  /\ \E ok \in DbOutcomes : record' = [record EXCEPT ![r] = Begin(NewRecord, ok)]
  /\ \E t \in 1..BeatTicks : beatTimer' = [beatTimer EXCEPT ![r] = t]
  /\ owner' = [owner EXCEPT ![r] = s]
  /\ fate'  = [fate EXCEPT ![r] = "live"]
  /\ UNCHANGED <<up, age, beaten, beatAge, missed, sweepTimer, crashes>>

AppendToRow(r) ==
  /\ Live(r) /\ record[r].saved < MaxResults
  /\ \E ok \in DbOutcomes : record' = [record EXCEPT ![r] = AppendResult(@, ok)]
  /\ UNCHANGED <<up, owner, fate, age, beaten, beatAge, beatTimer, missed, sweepTimer,
                 crashes>>

(* RunRecord.finish() on the way out of the file; the run leaves the row. *)
FinishRow(r) ==
  /\ Live(r)
  /\ \E s \in {"completed", "stopped", "error"}, ok \in DbOutcomes :
       record' = [record EXCEPT ![r] = Finish(@, s, ok)]
  /\ fate' = [fate EXCEPT ![r] = "over"]
  /\ UNCHANGED <<up, owner, age, beaten, beatAge, beatTimer, missed, sweepTimer, crashes>>

(* The heartbeat task wakes up: an UPDATE of the row, if there is one. *)
Heartbeat(r) ==
  /\ Live(r) /\ beatTimer[r] = 0
  /\ beatTimer' = [beatTimer EXCEPT ![r] = BeatTicks]
  /\ beaten'    = [beaten EXCEPT ![r] = @ \/ record[r].row # "none"]
  /\ beatAge'   = [beatAge EXCEPT ![r] = 0]
  /\ missed'    = [missed EXCEPT ![r] = 0]
  /\ UNCHANGED <<up, owner, fate, record, age, sweepTimer, crashes>>

(* The UPDATE raises and the beat is skipped. *)
MissHeartbeat(r) ==
  /\ Live(r) /\ beatTimer[r] = 0 /\ missed[r] < MaxMissed
  /\ beatTimer' = [beatTimer EXCEPT ![r] = BeatTicks]
  /\ missed'    = [missed EXCEPT ![r] = @ + 1]
  /\ UNCHANGED <<up, owner, fate, record, age, beaten, beatAge, sweepTimer, crashes>>

-----------------------------------------------------------------------------
(* Mutant of Stale: off by one at the cutoff. *)
StaleAtCutoff(r, legacy) ==
  \/ beaten[r] /\ beatAge[r] >= StaleTicks
  \/ legacy /\ ~beaten[r] /\ age[r] > LegacyTicks

(* Mutant of Stale: heartbeats are looked at on start-up only. *)
StaleOnStartupOnly(r, legacy) ==
  legacy /\ IF beaten[r] THEN beatAge[r] > StaleTicks ELSE age[r] > LegacyTicks

(* mark_stale_runs_interrupted(): legacy includes the started_at check. *)
Stale(r, legacy) ==
  \/ beaten[r] /\ beatAge[r] > StaleTicks
  \/ legacy /\ ~beaten[r] /\ age[r] > LegacyTicks

(* Mutant of MarkStale: no filter on the status. *)
MarkStaleAnyStatus(legacy) ==
  record' = [r \in Rows |->
               IF record[r].row # "none" /\ Stale(r, legacy)
               THEN [record[r] EXCEPT !.row = "interrupted"]
               ELSE record[r]]

MarkStale(legacy) ==
  record' = [r \in Rows |->
               IF record[r].row = "running" /\ Stale(r, legacy)
               THEN [record[r] EXCEPT !.row = "interrupted"]
               ELSE record[r]]

Sweep(s) ==
  /\ s \in up /\ sweepTimer[s] = 0
  /\ MarkStale(FALSE)
  /\ sweepTimer' = [sweepTimer EXCEPT ![s] = SweepTicks]
  /\ UNCHANGED <<up, owner, fate, age, beaten, beatAge, beatTimer, missed, crashes>>

SweepFails(s) ==
  /\ s \in up /\ sweepTimer[s] = 0 /\ FALSE \in DbOutcomes
  /\ sweepTimer' = [sweepTimer EXCEPT ![s] = SweepTicks]
  /\ UNCHANGED <<up, rowVars, crashes>>

(* The process goes away, and its tasks and registry with it. *)
Crash(s) ==
  /\ s \in up /\ crashes < MaxCrashes
  /\ up'      = up \ {s}
  /\ fate'    = [r \in Rows |-> IF Live(r) /\ owner[r] = s THEN "died" ELSE fate[r]]
  /\ crashes' = crashes + 1
  /\ UNCHANGED <<owner, record, age, beaten, beatAge, beatTimer, missed, sweepTimer>>

(* lifespan(): reconcile once, unless the database fails, then sweep. *)
Restart(s) ==
  /\ s \notin up
  /\ up' = up \union {s}
  /\ sweepTimer' = [sweepTimer EXCEPT ![s] = SweepTicks]
  /\ \/ MarkStale(TRUE)
     \/ FALSE \in DbOutcomes /\ UNCHANGED record
  /\ UNCHANGED <<owner, fate, age, beaten, beatAge, beatTimer, missed, crashes>>

-----------------------------------------------------------------------------
TimerDue ==
  \/ \E r \in Rows : Live(r) /\ beatTimer[r] = 0
  \/ \E s \in up : sweepTimer[s] = 0

Older(n, cutoff) == IF n > cutoff THEN n ELSE n + 1

Tick ==
  /\ ~TimerDue
  /\ age'        = [r \in Rows |-> IF fate[r] = "unborn" THEN 0 ELSE Older(age[r], LegacyTicks)]
  /\ beatAge'    = [r \in Rows |-> IF beaten[r] THEN Older(beatAge[r], StaleTicks) ELSE 0]
  /\ beatTimer'  = [r \in Rows |-> IF Live(r) THEN beatTimer[r] - 1 ELSE beatTimer[r]]
  /\ sweepTimer' = [s \in Servers |-> IF s \in up THEN sweepTimer[s] - 1 ELSE sweepTimer[s]]
  /\ UNCHANGED <<up, owner, fate, record, beaten, missed, crashes>>

HistoryInit ==
  /\ up         = Servers
  /\ owner      = [r \in Rows |-> NoServer]
  /\ fate       = [r \in Rows |-> "unborn"]
  /\ record     = [r \in Rows |-> NewRecord]
  /\ age        = [r \in Rows |-> 0]
  /\ beaten     = [r \in Rows |-> FALSE]
  /\ beatAge    = [r \in Rows |-> 0]
  /\ beatTimer  = [r \in Rows |-> 0]
  /\ missed     = [r \in Rows |-> 0]
  /\ sweepTimer = [s \in Servers |-> SweepTicks]
  /\ crashes    = 0

HistoryNext ==
  \/ \E r \in Rows :
       \/ \E s \in Servers : BeginRow(s, r)
       \/ AppendToRow(r) \/ FinishRow(r) \/ Heartbeat(r) \/ MissHeartbeat(r)
  \/ \E s \in Servers : Sweep(s) \/ SweepFails(s) \/ Crash(s) \/ Restart(s)
  \/ Tick

HistorySpec == HistoryInit /\ [][HistoryNext]_historyVars

(* Time passes, the timers that are due fire, and the database does not    *)
(* refuse every sweep.  Nobody has to restart a crashed server.            *)
FairHistorySpec ==
  /\ HistorySpec
  /\ WF_historyVars(Tick)
  /\ \A r \in Rows : WF_historyVars(Heartbeat(r) \/ MissHeartbeat(r))
  /\ \A s \in Servers : WF_historyVars(Sweep(s) \/ SweepFails(s)) /\ SF_historyVars(Sweep(s))

-----------------------------------------------------------------------------
rowStatus == [r \in Rows |-> record[r].row]
alive     == [r \in Rows |-> Live(r)]
Lifecycle == INSTANCE RowLifecycle WITH Rows <- Rows, rowStatus <- rowStatus, alive <- alive

(* No sweep or restart of any server interrupts a row that a live run is   *)
(* still writing, and none touches a row that already has a final status:  *)
(* the heartbeats, the two cutoffs and the filter on "running" together    *)
(* implement the promise of the status column.                             *)
ImplementsLifecycle == Lifecycle!LifecycleSpec

(* A live run is never shown as interrupted, with up to MaxMissed          *)
(* heartbeats refused in a row and other servers sweeping the same table.  *)
LiveRunsNotInterrupted ==
  \A r \in Rows : Live(r) => record[r].row # "interrupted"

(* While a server keeps running, a row whose run died after its first      *)
(* heartbeat does not stay "running" for ever.                             *)
DeadRowsReconciled ==
  \A r \in Rows :
    (fate[r] = "died" /\ beaten[r] /\ record[r].row = "running")
      ~> (record[r].row = "interrupted" \/ up = {})
=============================================================================
