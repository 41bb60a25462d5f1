------------------------------ MODULE McpClient ------------------------------
(***************************************************************************)
(* MCPClient of src/mcp_client.py: one HTTP session to an MCP server that  *)
(* pages, chats and test runs share.  Operations run under the shared side *)
(* of the lifecycle guard; connecting, closing and refreshing a rejected   *)
(* token under the exclusive side.  A call that is answered with a 401     *)
(* leaves its shared section, queues for the exclusive one, refreshes      *)
(* unless somebody else did meanwhile, and tries once more.                *)
(*                                                                         *)
(* Each action is what a task does between two awaits.  Cancel is the      *)
(* wall-clock deadline of call_tool, a deadline of the task's own caller   *)
(* or the stop of its run: it may strike at every await.                   *)
(***************************************************************************)
EXTENDS LifecycleGuard

CONSTANT MaxOps  (* bound: operations on the client *)

ASSUME McpAssumption == IsFiniteSet(Callers) /\ MaxOps \in Nat

VARIABLES
  client,      (* the access token of the open session; 0: self.client is None *)
  generation,  (* _client_generation                                       *)
  cache,       (* _tools_cache holds a list                                *)
  manager,     (* the newest token of _token_manager; 0: there is none     *)
  epoch,       (* _refresh_epoch                                           *)
  failure,     (* the epoch in _refresh_failure; 0: None                   *)
  pc,          (* where each caller awaits                                 *)
  op,          (* the operation it is in                                   *)
  retry,       (* its call is in the second attempt                        *)
  seen,        (* what its call observed: generation, epoch, token; and the
                  tool list it put aside while it reconnects                *)
  todo         (* operations that may still begin                          *)

clientState == <<client, generation, cache, manager>>
refreshVars == <<epoch, failure>>
callerVars  == <<pc, op, retry, seen, todo>>
mcpVars     == <<guardVars, clientState, refreshVars, callerVars>>

ReaderPcs == {"calling", "listing", "reading"}
WriterPcs == {"refreshing", "closing", "connecting", "authenticating", "opening",
              "pinging", "dropping"}
Pcs == {"idle", "enterShared", "enterExclusive"} \union ReaderPcs \union WriterPcs

Seen == [generation : Nat, epoch : Nat, token : Nat, cache : BOOLEAN]

NothingSeen == [generation |-> 0, epoch |-> 0, token |-> 0, cache |-> FALSE]

McpTypes ==
  /\ client \in Nat /\ generation \in Nat /\ cache \in BOOLEAN /\ manager \in Nat
  /\ epoch \in Nat /\ failure \in Nat
  /\ pc    \in [Callers -> Pcs]
  /\ op    \in [Callers -> {"none", "init", "call", "list", "read", "close"}]
  /\ retry \in [Callers -> BOOLEAN]
  /\ seen  \in [Callers -> Seen]
  /\ todo  \in 0..MaxOps

(* The types, and the counters of the guard are what their names say. *)
McpTypeOK ==
  /\ GuardTypes /\ McpTypes
  /\ activeReaders  = Cardinality({c \in Callers : pc[c] \in ReaderPcs})
  /\ waitingWriters = Cardinality({c \in parked : pc[c] = "enterExclusive"})
  /\ writerActive <=> \E c \in Callers : pc[c] \in WriterPcs

McpInit ==
  /\ GuardInit
  /\ client = 0 /\ generation = 0 /\ cache = FALSE /\ manager = 0
  /\ epoch = 0 /\ failure = 0
  /\ pc    = [c \in Callers |-> "idle"]
  /\ op    = [c \in Callers |-> "none"]
  /\ retry = [c \in Callers |-> FALSE]
  /\ seen  = [c \in Callers |-> NothingSeen]
  /\ todo  = MaxOps

-----------------------------------------------------------------------------
(* Entering and leaving operations *)

Goto(c, where) ==
  /\ pc' = [pc EXCEPT ![c] = where]
  /\ UNCHANGED <<op, retry, todo>>

(* Return or raise to the operation's caller. *)
Finish(c) ==
  /\ pc'    = [pc EXCEPT ![c] = "idle"]
  /\ op'    = [op EXCEPT ![c] = "none"]
  /\ retry' = [retry EXCEPT ![c] = FALSE]
  /\ seen'  = [seen EXCEPT ![c] = NothingSeen]
  /\ UNCHANGED todo

(* Whoever makes the client initializes it, once, before others get it. *)
Begin(c) ==
  /\ pc[c] = "idle" /\ todo > 0
  /\ todo' = todo - 1
  /\ \A d \in Callers : op[d] # "init"
  /\ \E o \in IF todo = MaxOps THEN {"init"}
             ELSE {"call", "list", "read", "close"} :
       /\ op' = [op EXCEPT ![c] = o]
       /\ pc' = [pc EXCEPT ![c] = IF o \in {"init", "close"} THEN "enterExclusive"
                                                            ELSE "enterShared"]
  /\ UNCHANGED <<guardVars, clientState, refreshVars, retry, seen>>

(* Whoever finds the guard taken parks. *)
Park(c) ==
  /\ \/ pc[c] = "enterShared" /\ ParkShared(c)
     \/ pc[c] = "enterExclusive" /\ ParkExclusive(c)
  /\ UNCHANGED <<clientState, refreshVars, callerVars>>

-----------------------------------------------------------------------------
(* Shared operations *)

(* Nothing to await: there is no session, or list_tools has its cache. *)
ServeAtOnce(c) ==
  /\ pc[c] = "enterShared" /\ PassShared(c)
  /\ client = 0 \/ (op[c] = "list" /\ cache)
  /\ Finish(c)
  /\ UNCHANGED <<clientState, refreshVars>>

(* An attempt of a call; the first one notes what it runs on. *)
StartCall(c) ==
  /\ pc[c] = "enterShared" /\ op[c] = "call" /\ client # 0
  /\ AcquireShared(c)
  /\ seen' = IF retry[c] THEN seen
             ELSE [seen EXCEPT ![c] = [generation |-> generation, epoch |-> epoch,
                                       token |-> client, cache |-> FALSE]]
  /\ Goto(c, "calling")
  /\ UNCHANGED <<clientState, refreshVars>>

(* list_tools without a cache or with force_refresh. *)
StartList(c) ==
  /\ pc[c] = "enterShared" /\ op[c] = "list" /\ client # 0
  /\ AcquireShared(c)
  /\ Goto(c, "listing")
  /\ UNCHANGED <<clientState, refreshVars, seen>>

(* list_resources, read_resource, list_prompts, get_prompt: no cache.      *)
StartRead(c) ==
  /\ pc[c] = "enterShared" /\ op[c] = "read" /\ client # 0
  /\ AcquireShared(c)
  /\ Goto(c, "reading")
  /\ UNCHANGED <<clientState, refreshVars, seen>>

(* An answer, an error or the timeout of the request itself. *)
AnswerCall(c) ==
  /\ pc[c] = "calling"
  /\ ReleaseShared /\ Finish(c)
  /\ UNCHANGED <<clientState, refreshVars>>

AnswerList(c) ==
  /\ pc[c] = "listing"
  /\ \E ok \in BOOLEAN : cache' = (cache \/ ok)
  /\ ReleaseShared /\ Finish(c)
  /\ UNCHANGED <<client, generation, manager, refreshVars>>

(* An answer or an error: these requests have no timeout of their own.     *)
AnswerRead(c) ==
  /\ pc[c] = "reading"
  /\ ReleaseShared /\ Finish(c)
  /\ UNCHANGED <<clientState, refreshVars>>

(* An error whose text has a 401 in it, in the first attempt. *)
Reject(c) ==
  /\ pc[c] = "calling" /\ ~retry[c] /\ manager # 0
  /\ ReleaseShared
  /\ Goto(c, "enterExclusive")
  /\ UNCHANGED <<clientState, refreshVars, seen>>

-----------------------------------------------------------------------------
(* _call_tool_with_lifecycle after a rejection *)

Rejected(c) == pc[c] = "enterExclusive" /\ op[c] = "call"

Observed(c) == epoch = seen[c].epoch

(* Nobody tried to refresh since, and the session is the one that answered. *)
MustRefresh(c) == Observed(c) /\ generation = seen[c].generation

(* Mutant of RefreshLost: the failure of somebody else's refresh is ignored. *)
RefreshLostUnlessOpen(c) == client = 0

(* Somebody else's refresh failed, or the session was closed meanwhile. *)
RefreshLost(c) ==
  \/ ~Observed(c) /\ failure = epoch
  \/ Observed(c) /\ client = 0

StartRefresh(c) ==
  /\ Rejected(c) /\ MustRefresh(c) /\ client # 0 /\ manager # 0
  /\ AcquireExclusive(c)
  /\ Goto(c, "refreshing")
  /\ UNCHANGED <<clientState, refreshVars, seen>>

GiveUpRefresh(c) ==
  /\ Rejected(c) /\ RefreshLost(c)
  /\ PassExclusive(c) /\ Finish(c)
  /\ UNCHANGED <<clientState, refreshVars>>

(* Somebody else's refresh gave a new session: try again on it. *)
ReuseRefresh(c) ==
  /\ Rejected(c) /\ ~RefreshLost(c) /\ ~MustRefresh(c)
  /\ PassExclusive(c)
  /\ pc'    = [pc EXCEPT ![c] = "enterShared"]
  /\ retry' = [retry EXCEPT ![c] = TRUE]
  /\ UNCHANGED <<clientState, refreshVars, op, seen, todo>>

(* _token_manager.refresh(force=True) returned: _close_unlocked begins. *)
TokenIssued(c) ==
  /\ pc[c] = "refreshing"
  /\ manager' = manager + 1
  /\ seen' = [seen EXCEPT ![c].cache = cache]
  /\ Goto(c, "closing")
  /\ UNCHANGED <<guardVars, client, generation, cache, refreshVars>>

(* The end of _close_unlocked, its timeout and its errors included. *)
DropSession ==
  /\ client' = 0 /\ generation' = generation + 1 /\ cache' = FALSE
  /\ UNCHANGED manager

OldSessionClosed(c) ==
  /\ pc[c] = "closing"
  /\ DropSession
  /\ Goto(c, "connecting")
  /\ UNCHANGED <<guardVars, refreshVars, seen>>

Reconnected(c) ==
  /\ pc[c] = "connecting"
  /\ client' = manager /\ generation' = generation + 1 /\ cache' = seen[c].cache
  /\ epoch' = epoch + 1 /\ failure' = 0
  /\ ReleaseExclusive
  /\ pc'    = [pc EXCEPT ![c] = "enterShared"]
  /\ retry' = [retry EXCEPT ![c] = TRUE]
  /\ UNCHANGED <<manager, op, seen, todo>>

(* The token endpoint or the new connection failed. *)
RefreshFailed(c) ==
  /\ pc[c] \in {"refreshing", "connecting"}
  /\ epoch' = epoch + 1 /\ failure' = epoch + 1
  /\ ReleaseExclusive /\ Finish(c)
  /\ UNCHANGED clientState

-----------------------------------------------------------------------------
(* initialize() and close() *)

StartInit(c) ==
  /\ pc[c] = "enterExclusive" /\ op[c] = "init"
  /\ AcquireExclusive(c)
  /\ Goto(c, "authenticating")
  /\ UNCHANGED <<clientState, refreshVars, seen>>

(* OAuth with a refresh token gets a token manager, other kinds do not. *)
Authenticated(c) ==
  /\ pc[c] = "authenticating"
  /\ manager' \in {0, 1}
  /\ Goto(c, "opening")
  /\ UNCHANGED <<guardVars, client, generation, cache, refreshVars, seen>>

Opened(c) ==
  /\ pc[c] = "opening"
  /\ client' = 1 /\ generation' = generation + 1
  /\ Goto(c, "pinging")
  /\ UNCHANGED <<guardVars, cache, manager, refreshVars, seen>>

(* The ping may fail, but not time out. *)
Pinged(c) ==
  /\ pc[c] = "pinging"
  /\ ReleaseExclusive /\ Finish(c)
  /\ UNCHANGED <<clientState, refreshVars>>

(* A failure before there is a session, and a timeout of the ping after it. *)
InitFailed(c) ==
  /\ \/ pc[c] \in {"authenticating", "opening"} /\ ReleaseExclusive /\ Finish(c)
     \/ pc[c] = "pinging" /\ Goto(c, "dropping") /\ UNCHANGED <<guardVars, seen>>
  /\ UNCHANGED <<clientState, refreshVars>>

StartClose(c) ==
  /\ pc[c] = "enterExclusive" /\ op[c] = "close"
  /\ \/ client # 0 /\ AcquireExclusive(c) /\ Goto(c, "dropping") /\ UNCHANGED seen
     \/ client = 0 /\ PassExclusive(c) /\ Finish(c)
  /\ UNCHANGED <<clientState, refreshVars>>

Dropped(c) ==
  /\ pc[c] = "dropping"
  /\ DropSession
  /\ ReleaseExclusive /\ Finish(c)
  /\ UNCHANGED refreshVars

-----------------------------------------------------------------------------
(* A CancelledError is no Exception: only finally blocks run.  A cancelled *)
(* close drops the session; a cancelled refresh leaves epoch and failure.  *)
Cancel(c) ==
  /\ pc[c] # "idle"
  /\ \/ pc[c] = "enterShared" /\ LeaveShared(c)
     \/ pc[c] = "enterExclusive" /\ c \in parked /\ LeaveExclusive(c)
     \/ pc[c] = "enterExclusive" /\ c \notin parked /\ UNCHANGED guardVars
     \/ pc[c] \in ReaderPcs /\ ReleaseShared
     \/ pc[c] \in WriterPcs /\ ReleaseExclusive
  /\ IF pc[c] \in {"closing", "dropping"} THEN DropSession ELSE UNCHANGED clientState
  /\ Finish(c)
  /\ UNCHANGED refreshVars

(* What a caller does without being asked to start or to stop, and without *)
(* the server: everything but the end of a request that has no timeout.    *)
Proceed(c) ==
  \/ Park(c) \/ ServeAtOnce(c)
  \/ StartCall(c) \/ StartList(c) \/ StartRead(c)
  \/ AnswerCall(c) \/ AnswerList(c) \/ Reject(c)
  \/ StartRefresh(c) \/ GiveUpRefresh(c) \/ ReuseRefresh(c)
  \/ TokenIssued(c) \/ OldSessionClosed(c) \/ Reconnected(c) \/ RefreshFailed(c)
  \/ StartInit(c) \/ Authenticated(c) \/ Opened(c) \/ Pinged(c) \/ InitFailed(c)
  \/ StartClose(c) \/ Dropped(c)

McpNext == \E c \in Callers : Begin(c) \/ Proceed(c) \/ AnswerRead(c) \/ Cancel(c)

McpSpec == McpInit /\ [][McpNext]_mcpVars

(* Tasks run.  The requests of calls, of list_tools, of the authentication *)
(* and of the ping, connections, and the end of a session have timeouts;   *)
(* that an untimed read is ever answered is not assumed.                   *)
FairMcpSpec == McpSpec /\ \A c \in Callers : WF_mcpVars(Proceed(c))

-----------------------------------------------------------------------------
(* No session is closed or replaced while a call or a list runs on it:     *)
(* the client implements the session its users may rely on.                *)
Session == INSTANCE SharedSession WITH
  Procs   <- Callers,
  users   <- {c \in Callers : pc[c] \in ReaderPcs},
  owners  <- {c \in Callers : pc[c] \in WriterPcs},
  session <- generation

ImplementsSession == Session!SessionSpec

(* Several calls get a 401 at once and some are cancelled in the refresh:  *)
(* an open session still has the newest token, outside of the refresh that *)
(* is about to close it.                                                   *)
SessionHasNewestToken ==
  client # 0 /\ manager # 0 /\ (\A c \in Callers : pc[c] # "closing") => client = manager

(* A refresh is spent on the very token that was rejected: nobody else has *)
(* replaced it between the 401 and the refresh.                            *)
RefreshesRejectedToken ==
  \A c \in Callers : pc[c] = "refreshing" => seen[c].token = manager

(* The second attempt never runs on the session that rejected the first,   *)
(* not even after the refresh it waited for failed.                        *)
RetryOnNewSession ==
  \A c \in Callers : pc[c] = "calling" /\ retry[c] => generation # seen[c].generation

(* Whoever is parked at the guard waits for somebody: a task that was       *)
(* woken and will look again, or one that holds a side and will wake all.  *)
(* No release and no cancellation at the guard forgets the ones behind it. *)
NobodyWaitsInVain ==
  parked # {} =>
    \E c \in Callers : c \in notified \/ pc[c] \in ReaderPcs \union WriterPcs

(* Every operation ends, though no deadline may strike and whichever tasks *)
(* are cancelled while they wait for the guard, unless one of the reads    *)
(* that have no timeout hangs for ever: only that, and nothing the guard   *)
(* forgets, can keep a close, a refresh and all later operations waiting.  *)
EveryOperationEnds ==
  (\A d \in Callers : []<>(pc[d] # "reading")) =>
    \A c \in Callers : pc[c] # "idle" ~> pc[c] = "idle"
=============================================================================
