--------------------------- MODULE LifecycleGuard ---------------------------
(***************************************************************************)
(* _LifecycleGuard of src/mcp_client.py: the shared/exclusive guard of one *)
(* MCP transport, an asyncio.Condition with two counters and a flag.       *)
(* Nothing is awaited while the condition's own lock is held, so testing a *)
(* predicate and updating the counters is one step, and so is a release.   *)
(* A task that finds its predicate false is parked on the condition and    *)
(* tests it again only after a notify_all.                                 *)
(***************************************************************************)
EXTENDS Integers, FiniteSets

CONSTANT Callers  (* the tasks that share the client *)

VARIABLES
  activeReaders,   (* _active_readers                                      *)
  writerActive,    (* _writer_active                                       *)
  waitingWriters,  (* _waiting_writers                                     *)
  parked,          (* tasks in the condition's wait                        *)
  notified         (* those of them that a notify_all woke up              *)

guardVars == <<activeReaders, writerActive, waitingWriters, parked, notified>>

GuardTypes ==
  /\ activeReaders  \in Int
  /\ writerActive   \in BOOLEAN
  /\ waitingWriters \in Int
  /\ parked         \in SUBSET Callers
  /\ notified       \in SUBSET parked

GuardInit ==
  /\ activeReaders = 0 /\ writerActive = FALSE /\ waitingWriters = 0
  /\ parked = {} /\ notified = {}

(* A task may test its predicate when it arrives and when it was notified. *)
Awake(c) == c \in parked => c \in notified

-----------------------------------------------------------------------------
(* shared() *)

MayRead == ~writerActive /\ waitingWriters = 0

AcquireShared(c) ==
  /\ Awake(c) /\ MayRead
  /\ activeReaders' = activeReaders + 1
  /\ parked'   = parked \ {c}
  /\ notified' = notified \ {c}
  /\ UNCHANGED <<writerActive, waitingWriters>>

ParkShared(c) ==
  /\ Awake(c) /\ ~MayRead
  /\ parked'   = parked \union {c}
  /\ notified' = notified \ {c}
  /\ UNCHANGED <<activeReaders, writerActive, waitingWriters>>

ReleaseShared ==
  /\ activeReaders' = activeReaders - 1
  /\ notified' = IF activeReaders = 1 THEN parked ELSE notified
  /\ UNCHANGED <<writerActive, waitingWriters, parked>>

(* A body that awaits nothing: shared() is entered and left in one step. *)
PassShared(c) ==
  /\ Awake(c) /\ MayRead
  /\ parked'   = parked \ {c}
  /\ notified' = IF activeReaders = 0 THEN parked \ {c} ELSE notified \ {c}
  /\ UNCHANGED <<activeReaders, writerActive, waitingWriters>>

(* Cancelled in the wait. *)
LeaveShared(c) ==
  /\ parked'   = parked \ {c}
  /\ notified' = notified \ {c}
  /\ UNCHANGED <<activeReaders, writerActive, waitingWriters>>

-----------------------------------------------------------------------------
(* exclusive() *)

(* Mutant of MayWrite: a writer does not wait for the readers. *)
MayWriteOverReaders == ~writerActive

MayWrite == ~writerActive /\ activeReaders = 0

(* _waiting_writers once c, which may be counted already, has left. *)
OthersWaiting(c) == IF c \in parked THEN waitingWriters - 1 ELSE waitingWriters

AcquireExclusive(c) ==
  /\ Awake(c) /\ MayWrite
  /\ writerActive'   = TRUE
  /\ waitingWriters' = OthersWaiting(c)
  /\ parked'   = parked \ {c}
  /\ notified' = parked \ {c}
  /\ UNCHANGED activeReaders

ParkExclusive(c) ==
  /\ Awake(c) /\ ~MayWrite
  /\ waitingWriters' = OthersWaiting(c) + 1
  /\ parked'   = parked \union {c}
  /\ notified' = notified \ {c}
  /\ UNCHANGED <<activeReaders, writerActive>>

ReleaseExclusive ==
  /\ writerActive' = FALSE
  /\ notified' = parked
  /\ UNCHANGED <<activeReaders, waitingWriters, parked>>

PassExclusive(c) ==
  /\ Awake(c) /\ MayWrite
  /\ waitingWriters' = OthersWaiting(c)
  /\ parked'   = parked \ {c}
  /\ notified' = parked \ {c}
  /\ UNCHANGED <<activeReaders, writerActive>>

(* Mutant of LeaveExclusive: the finally block wakes nobody up. *)
LeaveExclusiveSilently(c) ==
  /\ waitingWriters' = OthersWaiting(c)
  /\ parked'   = parked \ {c}
  /\ notified' = notified \ {c}
  /\ UNCHANGED <<activeReaders, writerActive>>

(* Cancelled in the wait: the finally block still counts down and notifies. *)
LeaveExclusive(c) ==
  /\ waitingWriters' = OthersWaiting(c)
  /\ parked'   = parked \ {c}
  /\ notified' = parked \ {c}
  /\ UNCHANGED <<activeReaders, writerActive>>
=============================================================================
