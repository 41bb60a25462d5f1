------------------------------ MODULE RunSlots ------------------------------
(***************************************************************************)
(* The concurrency cap of the in-memory run registry                       *)
(* (testmcpy/server/run_registry.py): at most Limit runs execute at a      *)
(* time, the others are parked on an asyncio.Semaphore with their handle   *)
(* in status "queued".                                                     *)
(*                                                                         *)
(* One run is one asyncio task (websocket.py, _run).  A task runs until it *)
(* awaits, so every action below is what a task, or the code that cancels  *)
(* it, does between two awaits.  The semaphore is CPython's (3.11), which  *)
(* is not part of the repository: it is modelled from how acquire_slot     *)
(* uses it and marked external in the map.                                 *)
(***************************************************************************)
EXTENDS Naturals, FiniteSets, SequencesExt

CONSTANTS
  Runs,     (* the runs that clients may ever start                        *)
  Limit     (* TESTMCPY_MAX_CONCURRENT_RUNS, clamped to at least 1         *)

ASSUME RunsAssumption  == IsFiniteSet(Runs)
ASSUME LimitAssumption == Limit \in Nat \ {0}

VARIABLES
  registry,  (* the runs with an entry in _runs                            *)
  status,    (* RunHandle.status; "none" before create_run                 *)
  slot,      (* where the run's task is with respect to acquire_slot       *)
  permits,   (* Semaphore._value                                           *)
  waiters,   (* Semaphore._waiters, oldest first                           *)
  cancel     (* Task.cancel(): not asked, pending, or thrown at an await   *)

slotVars == <<registry, status, slot, permits, waiters, cancel>>

FinalStatuses == {"completed", "error", "stopped"}
Statuses      == {"none", "queued", "running"} \union FinalStatuses

(* "spawned": create_task was called, the task has not run yet;            *)
(* "waiting": parked on the semaphore; "granted": its future has a result, *)
(* the task has not resumed; "holding": inside `async with acquire_slot`;  *)
(* "reaping": finalized, awaiting its cancelled heartbeat; "done": over.   *)
Slots   == {"none", "spawned", "waiting", "granted", "holding", "reaping", "done"}
Cancels == {"no", "pending", "delivered"}

SlotTypeOK ==
  /\ registry \in SUBSET Runs
  /\ status   \in [Runs -> Statuses]
  /\ slot     \in [Runs -> Slots]
  /\ permits  \in Nat
  /\ waiters  \in Seq(Runs)
  /\ cancel   \in [Runs -> Cancels]

-----------------------------------------------------------------------------
(* RunHandle.is_finished *)
Finished(r) == status[r] \in FinalStatuses

(* Waiters whose future is neither done nor cancelled; cancelling a task   *)
(* that is parked on a pending future cancels that future.                 *)
Pending == {r \in Runs : slot[r] = "waiting" /\ cancel[r] # "pending"}

Granted == {r \in Runs : slot[r] = "granted"}
Holding == {r \in Runs : slot[r] = "holding"}

(* Semaphore.locked(): no permit, or somebody is queued (cancelled futures *)
(* excepted), so that a newcomer cannot overtake.                          *)
Locked ==
  \/ permits = 0
  \/ \E i \in DOMAIN waiters : waiters[i] \in Pending \union Granted

(* The waiter that _wake_up_next picks: the first one still pending. *)
IsNextWaiter(w) ==
  /\ w \in Pending
  /\ \E i \in DOMAIN waiters :
       /\ waiters[i] = w
       /\ \A j \in DOMAIN waiters : waiters[j] \in Pending => i <= j

(* Semaphore._wake_up_next() with `free` permits in hand and the other     *)
(* tasks where `base` says.                                                *)
WakeUpNext(free, base) ==
  \/ \E w \in Runs :
       /\ IsNextWaiter(w)
       /\ slot'    = [base EXCEPT ![w] = "granted"]
       /\ permits' = free - 1
  \/ /\ Pending = {}
     /\ slot'    = base
     /\ permits' = free

LeaveQueue(r) ==
  \E i \in DOMAIN waiters : waiters[i] = r /\ waiters' = RemoveAt(waiters, i)

(* finalize(): the first final status stays, and a handle that is gone     *)
(* from the registry is left alone.                                        *)
Finalize(r, s) ==
  status' = IF r \in registry /\ ~Finished(r)
            THEN [status EXCEPT ![r] = s]
            ELSE status

-----------------------------------------------------------------------------
(* create_run() followed by create_task(_run()).  create_run first drops   *)
(* the finished handles older than CLEANUP_TTL; how old a handle is, is    *)
(* left open.                                                              *)
CreateRun(r) ==
  /\ status[r] = "none"
  /\ \E stale \in SUBSET {h \in registry : Finished(h)} :
       registry' = (registry \ stale) \union {r}
  /\ status' = [status EXCEPT ![r] = "queued"]
  /\ slot'   = [slot EXCEPT ![r] = "spawned"]
  /\ UNCHANGED <<permits, waiters, cancel>>

(* First step of the task when a slot is free. *)
AcquireFree(r) ==
  /\ slot[r] = "spawned"
  /\ ~Locked
  /\ permits' = permits - 1
  /\ slot'    = [slot EXCEPT ![r] = "holding"]
  /\ status'  = [status EXCEPT ![r] = "running"]
  /\ UNCHANGED <<registry, waiters, cancel>>

(* First step of the task when it has to queue. *)
Park(r) ==
  /\ slot[r] = "spawned"
  /\ Locked
  /\ waiters' = Append(waiters, r)
  /\ slot'    = [slot EXCEPT ![r] = "waiting"]
  /\ UNCHANGED <<registry, status, permits, cancel>>

(* The task resumes with a permit that release() handed to it; permits     *)
(* that are still free are passed on to the next waiter.                   *)
Resume(r) ==
  /\ slot[r] = "granted"
  /\ cancel[r] = "no"
  /\ LeaveQueue(r)
  /\ status' = [status EXCEPT ![r] = "running"]
  /\ LET base == [slot EXCEPT ![r] = "holding"]
     IN  IF permits > 0
         THEN WakeUpNext(permits, base)
         ELSE slot' = base /\ UNCHANGED permits
  /\ UNCHANGED <<registry, cancel>>

(* CancelledError inside `await sem.acquire()`.  A permit that was already *)
(* granted goes back and the next waiter is woken; a cancelled future has  *)
(* no permit to give back.                                                 *)
Abandon(r) ==
  /\ slot[r] \in {"waiting", "granted"}
  /\ cancel[r] = "pending"
  /\ LeaveQueue(r)
  /\ Finalize(r, "stopped")
  /\ cancel' = [cancel EXCEPT ![r] = "delivered"]
  /\ LET base == [slot EXCEPT ![r] = "reaping"]
     IN  IF slot[r] = "granted"
         THEN WakeUpNext(permits + 1, base)
         ELSE slot' = base /\ UNCHANGED permits
  /\ UNCHANGED registry

(* CancelledError inside the command coroutine, which goes on awaiting in  *)
(* its finally blocks.                                                     *)
DeliverCancel(r) ==
  /\ slot[r] = "holding"
  /\ cancel[r] = "pending"
  /\ cancel' = [cancel EXCEPT ![r] = "delivered"]
  /\ UNCHANGED <<registry, status, slot, permits, waiters>>

(* The command coroutine ends: acquire_slot releases, _run finalizes.  It  *)
(* ends as stopped exactly when a CancelledError is on its way out.        *)
Leave(r, s) ==
  /\ slot[r] = "holding"
  /\ s = "stopped" <=> cancel[r] \in {"pending", "delivered"}
  /\ WakeUpNext(permits + 1, [slot EXCEPT ![r] = "reaping"])
  /\ Finalize(r, s)
  /\ cancel' = [cancel EXCEPT ![r] = IF s = "stopped" THEN "delivered" ELSE @]
  /\ UNCHANGED <<registry, waiters>>

(* `await heartbeat_task` under suppress(CancelledError): a cancellation   *)
(* that arrives here is swallowed.                                         *)
Reap(r) ==
  /\ slot[r] = "reaping"
  /\ slot' = [slot EXCEPT ![r] = "done"]
  /\ UNCHANGED <<registry, status, permits, waiters, cancel>>

(* Task.cancel().  Nobody can cancel a task before its first step: the     *)
(* run id is minted in the event-loop iteration that creates the task and  *)
(* nobody else knows it until a later one.                                 *)
CancelTask(r) ==
  /\ slot[r] \notin {"none", "spawned"}
  /\ cancel' = IF slot[r] = "done" THEN cancel ELSE [cancel EXCEPT ![r] = "pending"]
  /\ UNCHANGED <<registry, status, slot, permits, waiters>>

-----------------------------------------------------------------------------
SlotInit ==
  /\ registry = {}
  /\ status   = [r \in Runs |-> "none"]
  /\ slot     = [r \in Runs |-> "none"]
  /\ permits  = Limit
  /\ waiters  = <<>>
  /\ cancel   = [r \in Runs |-> "no"]

TaskStep(r) ==
  \/ AcquireFree(r)
  \/ Park(r)
  \/ Resume(r)
  \/ Abandon(r)
  \/ \E s \in FinalStatuses : Leave(r, s)
  \/ Reap(r)

SlotNext ==
  \E r \in Runs :
    \/ CreateRun(r)
    \/ TaskStep(r)
    \/ DeliverCancel(r)
    \/ CancelTask(r)

SlotSpec == SlotInit /\ [][SlotNext]_slotVars

-----------------------------------------------------------------------------
(* Every permit is free, promised to a waiter, or held by a running task:  *)
(* none leaks when a queued run is stopped, granted or not                 *)
(* (run_registry.acquire_slot, "no permit is leaked").                     *)
PermitsConserved ==
  permits + Cardinality(Granted \union Holding) = Limit

(* At most Limit handles are in status "running" at a time                 *)
(* (TESTMCPY_MAX_CONCURRENT_RUNS).                                         *)
SlotCap == Cardinality({r \in Runs : status[r] = "running"}) <= Limit

(* A permit never lies idle in front of a parked run unless a waiter that  *)
(* was already granted one is about to resume and pass the next one on:    *)
(* what keeps a queued run from waiting for ever.                          *)
NoLostWakeup == permits > 0 /\ Pending # {} => Granted # {}

(* Slots are handed over in queue order: a run that is granted a permit,   *)
(* or takes one without queueing, overtakes no run that was parked before  *)
(* it and is still waiting.                                                *)
FifoHandover ==
  [][ \A w, x \in Runs :
        (/\ slot[w] \in {"spawned", "waiting"}
         /\ slot'[w] \in {"granted", "holding"}
         /\ x \in Pending /\ x # w)
        => \E i, j \in DOMAIN waiters : waiters[i] = w /\ waiters[j] = x /\ i < j
    ]_slotVars

(* A handle that reached a final status keeps it, whatever cancellations,  *)
(* grants and completions are still in flight (finalize, "first-write").   *)
FinalStatusStays ==
  [][ \A r \in Runs : Finished(r) => status'[r] = status[r] ]_slotVars

(* Only finished handles are dropped from the registry: a queued or        *)
(* running one stays reachable by its run id (is_finished, list_active).   *)
OnlyFinishedCollected ==
  [][ \A r \in registry \ registry' : Finished(r) ]_slotVars

(* A stop that reaches an unfinished run decides its status: the run ends  *)
(* as stopped, also when it was just about to be granted its slot.         *)
StopDecides ==
  \A r \in Runs :
    cancel[r] = "pending" /\ ~Finished(r) ~> status[r] = "stopped"

(* Every run that was created reaches a final status, the ones that had to *)
(* queue behind the cap included.                                          *)
EveryRunFinishes == \A r \in Runs : status[r] = "queued" ~> Finished(r)
=============================================================================
