----------------------------- MODULE RunCommand -----------------------------
(***************************************************************************)
(* What a run does with its slot: the command coroutines of                *)
(* testmcpy/server/websocket.py (_run_test_command for one file,           *)
(* _run_directory_command and _run_benchmark_command for a batch of them)  *)
(* inside _run, with every message they publish and every history row they *)
(* write.                                                                  *)
(*                                                                         *)
(* A task can be cancelled only where it awaits.  pc names that await; "at *)
(* the top of a file" (pc = "enter") is not one, so nothing else may step  *)
(* while a task is there: the event loop runs a task until it awaits.      *)
(***************************************************************************)
EXTENDS RunSlots, RunRecord

CONSTANTS
  NumFiles,    (* files (benchmark: combo and file pairs) of a batch       *)
  NumTests,    (* tests in a file                                          *)
  MaxStops,    (* bound on the stop requests per run                       *)
  DbOutcomes   (* {TRUE}, or BOOLEAN when the results DB may fail          *)

ASSUME CommandAssumption ==
  /\ NumFiles \in Nat \ {0}
  /\ NumTests \in Nat \ {0}
  /\ MaxStops \in Nat
  /\ DbOutcomes \in {{TRUE}, BOOLEAN}

VARIABLES
  kind,       (* "single", or "batch" for run_directory / run_benchmark    *)
  pc,         (* the await at which the run's command is suspended         *)
  file,       (* the file being run, 1 for a single run                    *)
  test,       (* the test being run in that file                           *)
  record,     (* the RunRecord of each file                                *)
  adhoc,      (* the ad-hoc MCP client of the current file                 *)
  results,    (* Len(handle.results)                                       *)
  preResults, (* pre_results_len of the batch loop                         *)
  aggregated, (* Len(aggregated_results) of the batch loop                 *)
  emitted,    (* the messages published on the handle, in order; log lines *)
              (* stand for any number of them and are left out in a file   *)
  stops       (* stop requests so far                                      *)

commandVars == <<kind, pc, file, test, record, adhoc, results, preResults,
                 aggregated, emitted, stops>>
runVars == <<slotVars, commandVars>>

Files == 1..NumFiles
Pcs   == {"idle", "enter", "connect", "init", "test", "cleanup", "close"}

EventTypes == {"log", "stopping", "test_start", "test_complete", "file_start",
               "file_error", "file_complete", "error", "all_complete"}

(* status is the terminal status an all_complete carries; n counts the     *)
(* results an all_complete or a file_complete carries.                     *)
Messages == [type : EventTypes, status : {"", "completed", "stopped"}, n : Nat]

Msg(t)             == [type |-> t, status |-> "", n |-> 0]
FileComplete(n)    == [type |-> "file_complete", status |-> "", n |-> n]
AllComplete(s, n)  == [type |-> "all_complete", status |-> s, n |-> n]

CommandTypeOK ==
  /\ SlotTypeOK
  /\ kind       \in [Runs -> {"single", "batch"}]
  /\ pc         \in [Runs -> Pcs]
  /\ file       \in [Runs -> 1..(NumFiles + 1)]
  /\ test       \in [Runs -> 1..NumTests]
  /\ record     \in [Runs -> [Files -> Records]]
  /\ adhoc      \in [Runs -> {"none", "open", "closed"}]
  /\ results    \in [Runs -> Nat]
  /\ preResults \in [Runs -> Nat]
  /\ aggregated \in [Runs -> Nat]
  /\ emitted    \in [Runs -> Seq(Messages)]
  /\ stops      \in [Runs -> 0..MaxStops]

-----------------------------------------------------------------------------
(* Nobody is between two awaits. *)
Quiet == \A r \in Runs : pc[r] # "enter"

Emit(r, msgs) == emitted' = [emitted EXCEPT ![r] = @ \o msgs]
Goto(r, p)    == pc' = [pc EXCEPT ![r] = p]

(* Mutant of RunError: _in_batch is ignored. *)
RunErrorAlwaysTerminal(r) == Msg("error")

(* _emit_run_error: terminal for a single run, not inside a batch. *)
RunError(r) == IF kind[r] = "batch" THEN Msg("file_error") ELSE Msg("error")

SetRecord(r, rec) == record' = [record EXCEPT ![r][file[r]] = rec]
CurrentRecord(r)  == record[r][file[r]]

(* Mutant of ReturnFromFile: pre_results_len is never moved on. *)
ReturnFromFileKeepsMark(r, msgs) ==
  IF kind[r] = "single"
  THEN /\ Emit(r, msgs)
       /\ Goto(r, "idle")
       /\ Leave(r, "completed")
       /\ UNCHANGED <<file, preResults, aggregated>>
  ELSE /\ Emit(r, Append(msgs, FileComplete(results[r] - preResults[r])))
       /\ aggregated' = [aggregated EXCEPT ![r] = @ + results[r] - preResults[r]]
       /\ file'       = [file EXCEPT ![r] = @ + 1]
       /\ Goto(r, "enter")
       /\ UNCHANGED <<slotVars, preResults>>

(* The file's command returned, having published msgs: a single run is     *)
(* over, a batch closes the file and goes to the top of the next one.      *)
ReturnFromFile(r, msgs) ==
  IF kind[r] = "single"
  THEN /\ Emit(r, msgs)
       /\ Goto(r, "idle")
       /\ Leave(r, "completed")
       /\ UNCHANGED <<file, preResults, aggregated>>
  ELSE LET fileResults == results[r] - preResults[r]
       IN  /\ Emit(r, Append(msgs, FileComplete(fileResults)))
           /\ aggregated' = [aggregated EXCEPT ![r] = @ + fileResults]
           /\ preResults' = [preResults EXCEPT ![r] = results[r]]
           /\ file'       = [file EXCEPT ![r] = @ + 1]
           /\ Goto(r, "enter")
           /\ UNCHANGED slotVars

(* Mutant of Unwind: no terminal event. *)
UnwindSilently(r) ==
  /\ Goto(r, "idle")
  /\ Leave(r, "stopped")
  /\ UNCHANGED <<emitted, file, preResults, aggregated>>

(* Mutant of Unwind: finalized inside the slot, which is never released. *)
UnwindKeepsSlot(r) ==
  /\ Emit(r, <<AllComplete("stopped", results[r])>>)
  /\ Goto(r, "idle")
  /\ Finalize(r, "stopped")
  /\ UNCHANGED <<registry, slot, permits, waiters, cancel, file, preResults, aggregated>>

(* CancelledError leaves the command: _run publishes the stopped terminal  *)
(* event with the partial results and finalizes.                           *)
Unwind(r) ==
  /\ Emit(r, <<AllComplete("stopped", results[r])>>)
  /\ Goto(r, "idle")
  /\ Leave(r, "stopped")
  /\ UNCHANGED <<file, preResults, aggregated>>

-----------------------------------------------------------------------------
Submit(r, k) ==
  /\ Quiet
  /\ CreateRun(r)
  /\ kind' = [kind EXCEPT ![r] = k]
  /\ UNCHANGED <<pc, file, test, record, adhoc, results, preResults, aggregated,
                 emitted, stops>>

(* First step of _run: take a free slot, or say so and queue. *)
StartTask(r) ==
  /\ Quiet
  /\ \/ AcquireFree(r) /\ Goto(r, "enter") /\ UNCHANGED emitted
     \/ Park(r) /\ Emit(r, <<Msg("log")>>) /\ UNCHANGED pc
  /\ UNCHANGED <<kind, file, test, record, adhoc, results, preResults, aggregated, stops>>

ResumeTask(r) ==
  /\ Quiet
  /\ Resume(r)
  /\ Goto(r, "enter")
  /\ UNCHANGED <<kind, file, test, record, adhoc, results, preResults, aggregated,
                 emitted, stops>>

(* Stopped while queued. *)
StopQueued(r) ==
  /\ Quiet
  /\ Abandon(r)
  /\ Emit(r, <<AllComplete("stopped", results[r])>>)
  /\ UNCHANGED <<kind, pc, file, test, record, adhoc, results, preResults, aggregated, stops>>

(* An exception before the command's own try block: only _run catches it. *)
CommandRaised(r) ==
  /\ pc[r] = "enter" /\ file[r] = 1
  /\ Goto(r, "idle")
  /\ Leave(r, "error")
  /\ UNCHANGED <<kind, file, test, record, adhoc, results, preResults, aggregated,
                 emitted, stops>>

(* No files, a bad matrix, or a malformed file entry, which a benchmark    *)
(* notices after its combo_start: the batch ends with an "error" event and *)
(* returns normally.                                                       *)
BatchFailed(r) ==
  /\ pc[r] = "enter" /\ kind[r] = "batch" /\ file[r] <= NumFiles
  /\ \E started \in {<<>>, <<Msg("file_start")>>} : Emit(r, Append(started, Msg("error")))
  /\ Goto(r, "idle")
  /\ Leave(r, "completed")
  /\ UNCHANGED <<kind, file, test, record, adhoc, results, preResults, aggregated, stops>>

FileStart(r) == IF kind[r] = "batch" THEN <<Msg("file_start")>> ELSE <<>>

(* A file that can be loaded; the next await is the MCP connection, or the *)
(* runner's initialization when no MCP profile is configured.              *)
OpenFile(r) ==
  /\ pc[r] = "enter" /\ file[r] <= NumFiles
  /\ Emit(r, FileStart(r) \o <<Msg("log")>>)
  /\ \E p \in {"connect", "init"} : Goto(r, p)
  /\ adhoc' = [adhoc EXCEPT ![r] = "none"]
  /\ test'  = [test EXCEPT ![r] = 1]
  /\ UNCHANGED <<slotVars, kind, file, record, results, preResults, aggregated, stops>>

(* A file that is missing, does not parse or has no such test.  A batch    *)
(* only logs what the file's command raises outside its try block.         *)
UnusableFile(r) ==
  /\ pc[r] = "enter" /\ file[r] <= NumFiles
  /\ \/ ReturnFromFile(r, FileStart(r) \o <<RunError(r)>>)
     \/ kind[r] = "batch" /\ ReturnFromFile(r, FileStart(r) \o <<Msg("log")>>)
  /\ UNCHANGED <<kind, test, record, adhoc, results, stops>>

(* The batch ran its last file. *)
FinishBatch(r) ==
  /\ pc[r] = "enter" /\ file[r] = NumFiles + 1
  /\ Emit(r, <<AllComplete("completed", aggregated[r])>>)
  /\ Goto(r, "idle")
  /\ Leave(r, "completed")
  /\ UNCHANGED <<kind, file, test, record, adhoc, results, preResults, aggregated, stops>>

(* The MCP client is there: an ad-hoc one that this command must close, or *)
(* a shared one from the cache.                                            *)
Connected(r) ==
  /\ Quiet /\ pc[r] = "connect" /\ cancel[r] = "no"
  /\ \E c \in {"none", "open"} : adhoc' = [adhoc EXCEPT ![r] = c]
  /\ Goto(r, "init")
  /\ UNCHANGED <<slotVars, kind, file, test, record, results, preResults, aggregated,
                 emitted, stops>>

(* Mutant of ConnectFailed: the failure is reported and the task hangs. *)
ConnectFailedHangs(r) ==
  /\ Quiet /\ pc[r] = "connect" /\ cancel[r] = "no"
  /\ Emit(r, <<RunError(r)>>)
  /\ Goto(r, "idle")
  /\ UNCHANGED <<slotVars, kind, file, test, record, adhoc, results, preResults,
                 aggregated, stops>>

(* No client: there is no runner yet, hence nothing to clean up. *)
ConnectFailed(r) ==
  /\ Quiet /\ pc[r] = "connect" /\ cancel[r] = "no"
  /\ ReturnFromFile(r, <<RunError(r)>>)
  /\ UNCHANGED <<kind, test, record, adhoc, results, stops>>

ConnectCancelled(r) ==
  /\ Quiet /\ pc[r] = "connect" /\ cancel[r] = "pending"
  /\ Unwind(r)
  /\ UNCHANGED <<kind, test, record, adhoc, results, stops>>

(* runner.initialize() returned: the history row opens, the first test     *)
(* starts.                                                                 *)
Initialized(r) ==
  /\ Quiet /\ pc[r] = "init" /\ cancel[r] = "no"
  /\ \E ok \in DbOutcomes : SetRecord(r, Begin(NewRecord, ok))
  /\ Emit(r, <<Msg("test_start")>>)
  /\ Goto(r, "test")
  /\ UNCHANGED <<slotVars, kind, file, test, adhoc, results, preResults, aggregated, stops>>

InitFailed(r) ==
  /\ Quiet /\ pc[r] = "init" /\ cancel[r] = "no"
  /\ Emit(r, <<RunError(r)>>)
  /\ Goto(r, "cleanup")
  /\ UNCHANGED <<slotVars, kind, file, test, record, adhoc, results, preResults,
                 aggregated, stops>>

InitCancelled(r) ==
  /\ Quiet /\ pc[r] = "init"
  /\ DeliverCancel(r)
  /\ Goto(r, "cleanup")
  /\ UNCHANGED <<kind, file, test, record, adhoc, results, preResults, aggregated,
                 emitted, stops>>

(* run_test() returned with tests left in the file. *)
NextTest(r) ==
  /\ Quiet /\ pc[r] = "test" /\ cancel[r] = "no" /\ test[r] < NumTests
  /\ \E ok \in DbOutcomes : SetRecord(r, AppendResult(CurrentRecord(r), ok))
  /\ results' = [results EXCEPT ![r] = @ + 1]
  /\ test'    = [test EXCEPT ![r] = @ + 1]
  /\ Emit(r, <<Msg("log"), Msg("test_complete"), Msg("test_start")>>)
  /\ UNCHANGED <<slotVars, kind, pc, file, adhoc, preResults, aggregated, stops>>

(* Mutant of LastTest: the row is finished before the last result is saved. *)
LastTestFinishesFirst(r) ==
  /\ Quiet /\ pc[r] = "test" /\ cancel[r] = "no" /\ test[r] = NumTests
  /\ \E ok1, ok2 \in DbOutcomes :
       SetRecord(r, AppendResult(Finish(CurrentRecord(r), "completed", ok1), ok2))
  /\ results' = [results EXCEPT ![r] = @ + 1]
  /\ Emit(r, <<Msg("log"), Msg("test_complete")>> \o
             IF kind[r] = "single" THEN <<AllComplete("completed", results[r] + 1)>>
                                   ELSE <<>>)
  /\ Goto(r, "cleanup")
  /\ UNCHANGED <<slotVars, kind, file, test, adhoc, preResults, aggregated, stops>>

(* run_test() returned for the last test: the row is finished, and outside *)
(* a batch the terminal event goes out before the clean-up.                *)
LastTest(r) ==
  /\ Quiet /\ pc[r] = "test" /\ cancel[r] = "no" /\ test[r] = NumTests
  /\ \E ok1, ok2 \in DbOutcomes :
       SetRecord(r, Finish(AppendResult(CurrentRecord(r), ok1), "completed", ok2))
  /\ results' = [results EXCEPT ![r] = @ + 1]
  /\ Emit(r, <<Msg("log"), Msg("test_complete")>> \o
             IF kind[r] = "single" THEN <<AllComplete("completed", results[r] + 1)>>
                                   ELSE <<>>)
  /\ Goto(r, "cleanup")
  /\ UNCHANGED <<slotVars, kind, file, test, adhoc, preResults, aggregated, stops>>

TestRaised(r) ==
  /\ Quiet /\ pc[r] = "test" /\ cancel[r] = "no"
  /\ \E ok \in DbOutcomes : SetRecord(r, Finish(CurrentRecord(r), "error", ok))
  /\ Emit(r, <<RunError(r)>>)
  /\ Goto(r, "cleanup")
  /\ UNCHANGED <<slotVars, kind, file, test, adhoc, results, preResults, aggregated, stops>>

(* Mutant of TestCancelled: the CancelledError is caught and not raised on. *)
TestCancelledSwallowed(r) ==
  /\ Quiet /\ pc[r] = "test"
  /\ slot[r] = "holding" /\ cancel[r] = "pending"
  /\ cancel' = [cancel EXCEPT ![r] = "no"]
  /\ \E ok \in DbOutcomes : SetRecord(r, Finish(CurrentRecord(r), "stopped", ok))
  /\ Goto(r, "cleanup")
  /\ UNCHANGED <<registry, status, slot, permits, waiters, kind, file, test, adhoc,
                 results, preResults, aggregated, emitted, stops>>

(* A stop while a test runs: the row is finished as stopped and the        *)
(* CancelledError goes on, once the finally block is through.              *)
TestCancelled(r) ==
  /\ Quiet /\ pc[r] = "test"
  /\ DeliverCancel(r)
  /\ \E ok \in DbOutcomes : SetRecord(r, Finish(CurrentRecord(r), "stopped", ok))
  /\ Goto(r, "cleanup")
  /\ UNCHANGED <<kind, file, test, adhoc, results, preResults, aggregated, emitted, stops>>

(* The finally block is over: the CancelledError that was on its way goes  *)
(* on, or the file's command returns.                                      *)
EndFile(r) ==
  IF cancel[r] = "delivered" THEN Unwind(r) ELSE ReturnFromFile(r, <<>>)

(* runner.cleanup() returned; an ad-hoc client is closed next. *)
CleanedUp(r) ==
  /\ Quiet /\ pc[r] = "cleanup" /\ cancel[r] # "pending"
  /\ IF adhoc[r] = "open"
     THEN Goto(r, "close") /\ UNCHANGED <<slotVars, file, preResults, aggregated, emitted>>
     ELSE EndFile(r)
  /\ UNCHANGED <<kind, test, record, adhoc, results, stops>>

Closed(r) ==
  /\ Quiet /\ pc[r] = "close" /\ cancel[r] # "pending"
  /\ adhoc' = [adhoc EXCEPT ![r] = "closed"]
  /\ EndFile(r)
  /\ UNCHANGED <<kind, test, record, results, stops>>

(* suppress(Exception) does not catch a CancelledError: it leaves the      *)
(* finally block at once.                                                  *)
FinallyCancelled(r) ==
  /\ Quiet /\ pc[r] \in {"cleanup", "close"} /\ cancel[r] = "pending"
  /\ Unwind(r)
  /\ adhoc' = [adhoc EXCEPT ![r] = IF pc[r] = "close" THEN "closed" ELSE @]
  /\ UNCHANGED <<kind, test, record, results, stops>>

EndTask(r) ==
  /\ Quiet
  /\ Reap(r)
  /\ UNCHANGED commandVars

(* A stop over REST or a WebSocket: cancel the task, publish the ack.  The *)
(* REST route ignores a finished run; a WebSocket, which is modelled here, *)
(* does not.                                                               *)
Stop(r) ==
  /\ Quiet
  /\ stops[r] < MaxStops
  /\ CancelTask(r)
  /\ stops' = [stops EXCEPT ![r] = @ + 1]
  /\ Emit(r, <<Msg("stopping"), Msg("log")>>)
  /\ UNCHANGED <<kind, pc, file, test, record, adhoc, results, preResults, aggregated>>

-----------------------------------------------------------------------------
CommandInit ==
  /\ SlotInit
  /\ kind       = [r \in Runs |-> "single"]
  /\ pc         = [r \in Runs |-> "idle"]
  /\ file       = [r \in Runs |-> 1]
  /\ test       = [r \in Runs |-> 1]
  /\ record     = [r \in Runs |-> [f \in Files |-> NewRecord]]
  /\ adhoc      = [r \in Runs |-> "none"]
  /\ results    = [r \in Runs |-> 0]
  /\ preResults = [r \in Runs |-> 0]
  /\ aggregated = [r \in Runs |-> 0]
  /\ emitted    = [r \in Runs |-> <<>>]
  /\ stops      = [r \in Runs |-> 0]

RunStep(r) ==
  \/ StartTask(r) \/ ResumeTask(r) \/ StopQueued(r)
  \/ CommandRaised(r) \/ BatchFailed(r) \/ OpenFile(r) \/ UnusableFile(r) \/ FinishBatch(r)
  \/ Connected(r) \/ ConnectFailed(r) \/ ConnectCancelled(r)
  \/ Initialized(r) \/ InitFailed(r) \/ InitCancelled(r)
  \/ NextTest(r) \/ LastTest(r) \/ TestRaised(r) \/ TestCancelled(r)
  \/ CleanedUp(r) \/ Closed(r) \/ FinallyCancelled(r)
  \/ EndTask(r)

CommandNext ==
  \E r \in Runs :
    \/ \E k \in {"single", "batch"} : Submit(r, k)
    \/ RunStep(r)
    \/ Stop(r)

CommandSpec == CommandInit /\ [][CommandNext]_runVars

(* Every await of a command ends.  No wall clock is around run_test here   *)
(* (websocket.py:580): that connections, initialization, tests and clean-up*)
(* end rests on the timeouts of the providers and of the MCP client, of    *)
(* which httpx's are per operation; a server that trickles is left out.    *)
FairCommandSpec == CommandSpec /\ \A r \in Runs : WF_runVars(RunStep(r))

-----------------------------------------------------------------------------
Terminals(r) ==
  {i \in DOMAIN emitted[r] : emitted[r][i].type \in {"error", "all_complete"}}

(* How many messages of type t the run published up to position i. *)
SentUpTo(r, t, i) == Cardinality({j \in 1..i : emitted[r][j].type = t})

(* A batch ends its stream once: one terminal message, after which only    *)
(* the acknowledgements of late stops follow.  Were a file's own error or  *)
(* all_complete to slip through, the client would close the socket in the  *)
(* middle of the batch (_in_batch in _emit_run_error, _run_test_command).  *)
BatchEndsOnce ==
  \A r \in Runs : kind[r] = "batch" =>
    /\ Cardinality(Terminals(r)) <= 1
    /\ \A i \in Terminals(r), j \in DOMAIN emitted[r] :
         i < j => emitted[r][j].type \in {"stopping", "log"}

(* The terminal all_complete carries every result that was streamed before *)
(* it, no more and no fewer: also when the run was stopped half-way, and   *)
(* when a batch aggregated it from slices of handle.results.               *)
AllCompleteCarriesResults ==
  \A r \in Runs : \A i \in DOMAIN emitted[r] :
    emitted[r][i].type = "all_complete" =>
      emitted[r][i].n = SentUpTo(r, "test_complete", i)

(* file_start and file_complete alternate, whatever fails inside a file,   *)
(* and a batch reports completion only after the last file was closed: the *)
(* directory-progress strip of the client depends on it.                   *)
FilesNest ==
  \A r \in Runs : kind[r] = "batch" => \A i \in DOMAIN emitted[r] :
    LET started == SentUpTo(r, "file_start", i)
        closed  == SentUpTo(r, "file_complete", i)
    IN  /\ closed <= started /\ started <= closed + 1
        /\ emitted[r][i].type = "all_complete" /\ emitted[r][i].status = "completed"
           => started = NumFiles /\ closed = NumFiles

(* The status the registry settles on and the stream agree: a run is       *)
(* stopped exactly when it told its client so, once, and no run is         *)
(* completed without a terminal message.                                   *)
FinalStatusAnnounced ==
  \A r \in Runs :
    LET stopped == {i \in DOMAIN emitted[r] : emitted[r][i].status = "stopped"}
    IN  /\ Cardinality(stopped) = IF status[r] = "stopped" THEN 1 ELSE 0
        /\ status[r] = "completed" => Terminals(r) # {}

(* Once a run is finalized it publishes nothing any more but the           *)
(* acknowledgement of a late stop.                                         *)
FinishedRunsAreQuiet ==
  [][ \A r \in Runs : Finished(r) =>
        \A i \in DOMAIN emitted'[r] :
          i > Len(emitted[r]) => emitted'[r][i].type \in {"stopping", "log"}
    ]_runVars

(* A history row says "running" only while the tests of its file run,      *)
(* unless the database failed: every way out of the file finishes it.      *)
RowRunningOnlyInTests ==
  \A r \in Runs, f \in Files :
    record[r][f].row = "running" /\ ~record[r][f].broken
      => pc[r] = "test" /\ file[r] = f

(* As long as the database works, the history holds every result that was  *)
(* streamed, whenever the run is cut short; a row that says "completed"    *)
(* has the results of all the tests of its file.                           *)
HistoryKeepsResults ==
  \A r \in Runs :
    /\ (\A f \in Files : ~record[r][f].broken)
       => FoldFunction(+, 0, [f \in Files |-> record[r][f].saved])
            = SentUpTo(r, "test_complete", Len(emitted[r]))
    /\ \A f \in Files :
         record[r][f].row = "completed" => record[r][f].saved = NumTests

(* Only a stop can leave an ad-hoc MCP client open: neither a failing      *)
(* initialization, test or clean-up nor the end of the run does.           *)
AdhocLeftOpenOnlyByStop ==
  \A r \in Runs : pc[r] = "idle" /\ adhoc[r] = "open" => status[r] = "stopped"

(* The command coroutines use their slot as RunSlots says, so that what    *)
(* holds of the registry's cap holds of the whole run.                     *)
ImplementsSlots == SlotSpec

(* The row of each file lives as RowLifecycle says: it is opened once, by  *)
(* the run that works on it, and the end of the tests gives it its one     *)
(* final status.  RunHistory builds on that: for it a run is no more than  *)
(* an Open and a Close.                                                    *)
RowOf   == [p \in Runs \X Files |-> record[p[1]][p[2]].row]
Working == [p \in Runs \X Files |-> pc[p[1]] = "test" /\ file[p[1]] = p[2]]

Lifecycle == INSTANCE RowLifecycle WITH Rows <- Runs \X Files, rowStatus <- RowOf,
                                        alive <- Working
ImplementsLifecycle == Lifecycle!LifecycleSpec

(* What the comment above the single run's all_complete says of it: it is  *)
(* the terminal signal on the wire, on which the client closes the socket. *)
(* Only acknowledgements of a late stop may come after it.                 *)
AllCompleteIsTerminal ==
  \A r \in Runs : \A i, j \in DOMAIN emitted[r] :
    emitted[r][i].type = "all_complete" /\ i < j
      => emitted[r][j].type \in {"stopping", "log"}

(* What the comment on adhoc_client says: a client that the command built  *)
(* itself is the command's to close, on every exit.                        *)
AdhocClientClosed == \A r \in Runs : pc[r] = "idle" => adhoc[r] # "open"
=============================================================================
