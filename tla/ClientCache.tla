----------------------------- MODULE ClientCache -----------------------------
(***************************************************************************)
(* The two caches of connected MCP clients.  server/api.py keeps one for   *)
(* the Explorer and chat pages, with a back-off after failures;            *)
(* server/state.py keeps one for test runs.  Each has its own per-key      *)
(* asyncio.Lock that serializes handshakes.  The routes of                 *)
(* server/routers/mcp_profiles.py edit the stored configuration and clear  *)
(* or replace entries of the first cache.                                  *)
(*                                                                         *)
(* Entries of different keys do not interact, so the module follows one    *)
(* key "{profile_id}:{mcp_name}": one server of one profile.  A request is *)
(* a task of the event loop; each action is what it does between awaits.   *)
(***************************************************************************)
EXTENDS Naturals, SequencesExt

CONSTANTS
  Requests,    (* page loads, chats, test runs and edits, one task each    *)
  MaxClients,  (* bound: client objects an instance constructs             *)
  MaxEdits     (* bound: times an instance saves the configuration         *)

ASSUME ClientBounds == MaxClients \in Nat /\ MaxEdits \in Nat \ {0}

VARIABLES
  stored,    (* version of the server's entry in .mcp_services.yaml; 0: none *)
  edits,     (* saves so far, which number the versions                    *)
  cached,    (* mcp_clients[key] of each cache; 0: no entry                *)
  lockq,     (* _client_init_locks[key]: the holder, then who waits        *)
  backoff,   (* _connection_backoff[key] lies in the future                *)
  conn,      (* the connection of each client object                       *)
  config,    (* the version of the configuration it was constructed from   *)
  made,      (* client objects constructed so far                          *)
  op,        (* what each request is                                       *)
  pc,        (* where it awaits                                            *)
  read,      (* the version its load_profile returned                      *)
  held,      (* the client it works with; 0: none                          *)
  victim     (* the client it took out of the cache and is closing         *)

cacheVars   == <<cached, lockq, backoff>>
storeVars   == <<stored, edits>>
clientVars  == <<conn, config, made>>
requestVars == <<op, pc, read, held, victim>>
clientCacheVars == <<cacheVars, storeVars, clientVars, requestVars>>

Caches   == {"api", "state"}
Clients  == 1..MaxClients
Versions == 0..MaxEdits

(* A page (a tool list or a chat), its second get after an OAuth login, a  *)
(* list of resources or prompts, a test run, an edit or a removal of the   *)
(* server, a connection test.                                              *)
Ops == {"none", "page", "relogin", "browse", "run", "edit", "remove", "add", "probe"}

Pcs == {"idle", "queued", "handshake", "using", "reading", "clearing", "reclearing",
        "relogging", "probing", "swapping", "ended"}

(* Test runs and the CLI import the getters of state, the pages those of api. *)
CacheOf(r) == IF op[r] = "run" THEN "state" ELSE "api"

Goto(r, where) == pc' = [pc EXCEPT ![r] = where]

ClientTypes ==
  /\ stored \in Versions /\ edits \in Versions
  /\ cached \in [Caches -> Clients \union {0}]
  /\ lockq \in [Caches -> Seq(Requests)]
  /\ backoff \in BOOLEAN
  /\ conn \in [Clients -> {"none", "opening", "open", "closed"}]
  /\ config \in [Clients -> Versions]
  /\ made \in 0..MaxClients
  /\ op \in [Requests -> Ops]
  /\ pc \in [Requests -> Pcs]
  /\ read \in [Requests -> Versions]
  /\ held \in [Requests -> Clients \union {0}]
  /\ victim \in [Requests -> Clients \union {0}]

(* The tasks in a lock are those that wait in its getter or connect for it. *)
LockTasks ==
  \A k \in Caches :
    /\ IsInjective(lockq[k])
    /\ Range(lockq[k]) =
         {r \in Requests : CacheOf(r) = k /\ pc[r] \in {"queued", "handshake"}}

ClientTypeOK == ClientTypes /\ LockTasks

-----------------------------------------------------------------------------
(* MCPClient(url, auth) followed by the call of initialize(). *)
Construct(r, version) ==
  /\ made < MaxClients
  /\ made'   = made + 1
  /\ conn'   = [conn   EXCEPT ![made + 1] = "opening"]
  /\ config' = [config EXCEPT ![made + 1] = version]
  /\ held'   = [held   EXCEPT ![r] = made + 1]

(* The getter after load_profile, for a request of cache k: no such        *)
(* server, a hit, a refusal, a handshake under the lock, or a wait for it. *)
Lookup(r, k, refused) ==
  /\ read' = [read EXCEPT ![r] = stored]
  /\ \/ /\ stored = 0 \/ (cached[k] = 0 /\ refused)
        /\ Goto(r, "ended")
        /\ UNCHANGED <<lockq, clientVars, held>>
     \/ /\ stored # 0 /\ cached[k] # 0
        /\ held' = [held EXCEPT ![r] = cached[k]]
        /\ Goto(r, "using")
        /\ UNCHANGED <<lockq, clientVars>>
     \/ /\ stored # 0 /\ cached[k] = 0 /\ ~refused
        /\ lockq' = [lockq EXCEPT ![k] = Append(@, r)]
        /\ IF lockq[k] = <<>>
           THEN Construct(r, stored) /\ Goto(r, "handshake")
           ELSE Goto(r, "queued") /\ UNCHANGED <<clientVars, held>>

(* get_mcp_client_for_server, and get_mcp_clients_for_profile for each of  *)
(* its servers.                                                            *)
Get(r, o) ==
  /\ pc[r] = "idle"
  /\ op' = [op EXCEPT ![r] = o]
  /\ IF o = "run" THEN Lookup(r, "state", FALSE) ELSE Lookup(r, "api", backoff)
  /\ UNCHANGED <<cached, backoff, storeVars, victim>>

(* asyncio.Lock serves its waiters in order. *)
AtHead(r) == LET q == lockq[CacheOf(r)] IN q # <<>> /\ Head(q) = r

Unlock(r) ==
  LET q == lockq[CacheOf(r)]
  IN  \E i \in DOMAIN q :
        q[i] = r /\ lockq' = [lockq EXCEPT ![CacheOf(r)] = RemoveAt(q, i)]

(* Mutant of Locked: the cache is not looked at again under the lock. *)
LockedWithoutRecheck(r) ==
  /\ pc[r] = "queued" /\ AtHead(r)
  /\ \/ /\ CacheOf(r) = "api" /\ backoff
        /\ Unlock(r) /\ Goto(r, "ended")
        /\ UNCHANGED <<held, clientVars>>
     \/ /\ ~(CacheOf(r) = "api" /\ backoff)
        /\ Construct(r, read[r])
        /\ Goto(r, "handshake")
        /\ UNCHANGED lockq
  /\ UNCHANGED <<cached, backoff, storeVars, op, read, victim>>

(* Mutant of Locked: the back-off is not looked at again under the lock. *)
LockedIgnoresBackoff(r) ==
  /\ pc[r] = "queued" /\ AtHead(r)
  /\ LET c == cached[CacheOf(r)]
     IN  \/ /\ c # 0
            /\ held' = [held EXCEPT ![r] = c]
            /\ Unlock(r) /\ Goto(r, "using")
            /\ UNCHANGED clientVars
         \/ /\ c = 0
            /\ Construct(r, read[r])
            /\ Goto(r, "handshake")
            /\ UNCHANGED lockq
  /\ UNCHANGED <<cached, backoff, storeVars, op, read, victim>>

(* The lock is granted: cache and back-off are looked at again, the        *)
(* configuration is the one read before the wait.                          *)
Locked(r) ==
  /\ pc[r] = "queued" /\ AtHead(r)
  /\ LET c == cached[CacheOf(r)]
     IN  \/ /\ c # 0
            /\ held' = [held EXCEPT ![r] = c]
            /\ Unlock(r) /\ Goto(r, "using")
            /\ UNCHANGED clientVars
         \/ /\ c = 0 /\ CacheOf(r) = "api" /\ backoff
            /\ Unlock(r) /\ Goto(r, "ended")
            /\ UNCHANGED <<held, clientVars>>
         \/ /\ c = 0 /\ ~(CacheOf(r) = "api" /\ backoff)
            /\ Construct(r, read[r])
            /\ Goto(r, "handshake")
            /\ UNCHANGED lockq
  /\ UNCHANGED <<cached, backoff, storeVars, op, read, victim>>

(* initialize() returned: failures are forgotten, the client is cached.    *)
Connected(r) ==
  /\ pc[r] = "handshake"
  /\ conn'    = [conn EXCEPT ![held[r]] = "open"]
  /\ backoff' = (CacheOf(r) # "api" /\ backoff)
  /\ cached'  = [cached EXCEPT ![CacheOf(r)] = held[r]]
  /\ Unlock(r)
  /\ Goto(r, "using")
  /\ UNCHANGED <<storeVars, config, made, op, read, held, victim>>

(* Take whatever the api cache holds out of it and close it, or go on at   *)
(* once when it is empty.                                                  *)
PopAndClose(r, next, otherwise) ==
  /\ victim' = [victim EXCEPT ![r] = cached["api"]]
  /\ cached' = [cached EXCEPT !["api"] = 0]
  /\ Goto(r, IF cached["api"] # 0 THEN next ELSE otherwise)

(* The error handlers of list_mcp_tools and of the chat endpoints:         *)
(* clear_cached_client(), which records a failure if it found a client.    *)
(* Some paths end without it (a legacy profile id, a ValueError in a chat, *)
(* lists of resources and prompts, which skip a server that fails).        *)
FailRequest(r, before) ==
  \/ /\ op[r] \notin {"run", "browse"}
     /\ PopAndClose(r, "clearing", "ended")
     /\ backoff' = (before \/ cached["api"] # 0)
  \/ /\ Goto(r, "ended")
     /\ backoff' = before
     /\ UNCHANGED <<cached, victim>>

(* Mutant of ConnectFailed: the way out of the handshake keeps the lock. *)
ConnectFailedKeepsLock(r) ==
  /\ pc[r] = "handshake"
  /\ conn' = [conn EXCEPT ![held[r]] = "closed"]
  /\ FailRequest(r, CacheOf(r) = "api" \/ backoff)
  /\ UNCHANGED <<lockq, storeVars, config, made, op, read, held>>

(* initialize() raised after closing its partial session; api records the  *)
(* failure.                                                                *)
ConnectFailed(r) ==
  /\ pc[r] = "handshake"
  /\ conn' = [conn EXCEPT ![held[r]] = "closed"]
  /\ FailRequest(r, CacheOf(r) = "api" \/ backoff)
  /\ Unlock(r)
  /\ UNCHANGED <<storeVars, config, made, op, read, held>>

(* A stop of a test run that waits for its client.  Cancelled while it     *)
(* pings, initialize() leaves the session open: no handler closes it.      *)
RunCancelled(r) ==
  /\ op[r] = "run" /\ pc[r] \in {"queued", "handshake"}
  /\ IF pc[r] = "handshake"
     THEN \E left \in {"open", "closed"} : conn' = [conn EXCEPT ![held[r]] = left]
     ELSE UNCHANGED conn
  /\ Unlock(r)
  /\ Goto(r, "ended")
  /\ UNCHANGED <<cached, backoff, storeVars, config, made, op, read, held, victim>>

(* The calls on the client succeed, which a closed one never does. *)
Served(r) ==
  /\ pc[r] = "using" /\ op[r] # "browse"
  /\ conn[held[r]] = "open"
  /\ Goto(r, "ended")
  /\ UNCHANGED <<cacheVars, storeVars, clientVars, op, read, held, victim>>

(* A call on the client fails, for any reason. *)
UseFailed(r) ==
  /\ pc[r] = "using" /\ op[r] # "browse"
  /\ FailRequest(r, backoff)
  /\ UNCHANGED <<lockq, storeVars, clientVars, op, read, held>>

(* list_resources or list_prompts: behind a close that waits for the       *)
(* client, and with an error once it is closed.                            *)
StartRead(r) ==
  /\ pc[r] = "using" /\ op[r] = "browse"
  /\ \A q \in Requests : victim[q] # held[r]
  /\ Goto(r, IF conn[held[r]] = "open" THEN "reading" ELSE "ended")
  /\ UNCHANGED <<cacheVars, storeVars, clientVars, op, read, held, victim>>

(* The server answers or refuses: this request has no timeout. *)
EndRead(r) ==
  /\ pc[r] = "reading"
  /\ Goto(r, "ended")
  /\ UNCHANGED <<cacheVars, storeVars, clientVars, op, read, held, victim>>

(* _relogin_oauth_servers, once per chat: the cached client is taken out   *)
(* without a failure record and closed; earlier failures are forgotten and *)
(* a client is looked up anew.                                             *)
Relogin(r) ==
  /\ pc[r] = "using" /\ op[r] = "page"
  /\ op' = [op EXCEPT ![r] = "relogin"]
  /\ \/ /\ cached["api"] # 0
        /\ PopAndClose(r, "relogging", "relogging")
        /\ UNCHANGED <<lockq, backoff, clientVars, read, held>>
     \/ /\ cached["api"] = 0
        /\ backoff' = FALSE
        /\ Lookup(r, "api", FALSE)
        /\ UNCHANGED <<cached, victim>>
  /\ UNCHANGED storeVars

ReloginGet(r) ==
  /\ pc[r] = "relogging" /\ victim[r] = 0
  /\ backoff' = FALSE
  /\ Lookup(r, "api", FALSE)
  /\ UNCHANGED <<cached, storeVars, op, victim>>

(* `await client.close()` of a client that was taken out of the cache: it  *)
(* waits for those who read from it, and has no timeout.                   *)
CloseVictim(r) ==
  /\ victim[r] # 0
  /\ \A q \in Requests : ~(pc[q] = "reading" /\ held[q] = victim[r])
  /\ conn'   = [conn EXCEPT ![victim[r]] = "closed"]
  /\ victim' = [victim EXCEPT ![r] = 0]
  /\ Goto(r, IF \/ pc[r] = "reclearing"
                \/ pc[r] = "clearing" /\ op[r] # "edit" THEN "ended" ELSE pc[r])
  /\ UNCHANGED <<cacheVars, storeVars, config, made, op, read, held>>

-----------------------------------------------------------------------------
(* The new configuration is saved, then the api cache is cleared.          *)
Save(r, o, version) ==
  /\ pc[r] = "idle"
  /\ op' = [op EXCEPT ![r] = o]
  /\ stored' = version
  /\ PopAndClose(r, "clearing", "ended")
  /\ UNCHANGED <<lockq, backoff, clientVars, read, held>>

(* update_mcp_in_profile with an unchanged name. *)
EditServer(r) ==
  /\ stored # 0 /\ edits < MaxEdits
  /\ edits' = edits + 1
  /\ Save(r, "edit", edits + 1)

(* It clears its old and its new key, which are the same: what was cached  *)
(* while the first client was closed goes too.                             *)
ClearAgain(r) ==
  /\ pc[r] = "clearing" /\ op[r] = "edit" /\ victim[r] = 0
  /\ PopAndClose(r, "reclearing", "ended")
  /\ UNCHANGED <<lockq, backoff, storeVars, clientVars, op, read, held>>

(* delete_mcp_from_profile, delete_mcp_profile, and what an edit does that *)
(* changes the name.                                                       *)
RemoveServer(r) ==
  /\ stored # 0
  /\ UNCHANGED edits
  /\ Save(r, "remove", 0)

(* add_mcp_to_profile: nothing is cleared. *)
AddServer(r) ==
  /\ pc[r] = "idle"
  /\ stored = 0 /\ edits < MaxEdits
  /\ edits'  = edits + 1
  /\ stored' = edits + 1
  /\ op' = [op EXCEPT ![r] = "add"]
  /\ Goto(r, "ended")
  /\ UNCHANGED <<cacheVars, clientVars, read, held, victim>>

(* test_mcp_connection: a handshake and a tool list outside the lock. *)
Probe(r) ==
  /\ pc[r] = "idle" /\ stored # 0
  /\ op'   = [op EXCEPT ![r] = "probe"]
  /\ read' = [read EXCEPT ![r] = stored]
  /\ Construct(r, stored)
  /\ Goto(r, "probing")
  /\ UNCHANGED <<cacheVars, storeVars, victim>>

(* Mutant of ProbeSucceeded: the old client is closed before it is replaced. *)
ProbeReplacesLate(r) ==
  /\ pc[r] = "probing"
  /\ conn'   = [conn EXCEPT ![held[r]] = "open"]
  /\ victim' = [victim EXCEPT ![r] = cached["api"]]
  /\ IF cached["api"] # 0
     THEN Goto(r, "swapping") /\ UNCHANGED cached
     ELSE Goto(r, "ended") /\ cached' = [cached EXCEPT !["api"] = held[r]]
  /\ UNCHANGED <<lockq, backoff, storeVars, config, made, op, read, held>>

(* The tested client is promoted: the cached one is taken out and closed   *)
(* before the entry is written.                                            *)
ProbeSucceeded(r) ==
  /\ pc[r] = "probing"
  /\ conn'   = [conn EXCEPT ![held[r]] = "open"]
  /\ victim' = [victim EXCEPT ![r] = cached["api"]]
  /\ IF cached["api"] # 0
     THEN Goto(r, "swapping") /\ cached' = [cached EXCEPT !["api"] = 0]
     ELSE Goto(r, "ended") /\ cached' = [cached EXCEPT !["api"] = held[r]]
  /\ UNCHANGED <<lockq, backoff, storeVars, config, made, op, read, held>>

Promote(r) ==
  /\ pc[r] = "swapping" /\ victim[r] = 0
  /\ cached' = [cached EXCEPT !["api"] = held[r]]
  /\ Goto(r, "ended")
  /\ UNCHANGED <<lockq, backoff, storeVars, clientVars, op, read, held, victim>>

(* The test client of a failed test is closed. *)
ProbeFailed(r) ==
  /\ pc[r] = "probing"
  /\ conn' = [conn EXCEPT ![held[r]] = "closed"]
  /\ Goto(r, "ended")
  /\ UNCHANGED <<cacheVars, storeVars, config, made, op, read, held, victim>>

(* The clock passes the next retry time. *)
RetryTimePasses ==
  /\ backoff
  /\ backoff' = FALSE
  /\ UNCHANGED <<cached, lockq, storeVars, clientVars, requestVars>>

-----------------------------------------------------------------------------
ClientInit ==
  /\ stored = 1 /\ edits = 1
  /\ cached  = [k \in Caches |-> 0]
  /\ lockq   = [k \in Caches |-> <<>>]
  /\ backoff = FALSE
  /\ conn    = [c \in Clients |-> "none"]
  /\ config  = [c \in Clients |-> 0]
  /\ made    = 0
  /\ op      = [r \in Requests |-> "none"]
  /\ pc      = [r \in Requests |-> "idle"]
  /\ read    = [r \in Requests |-> 0]
  /\ held    = [r \in Requests |-> 0]
  /\ victim  = [r \in Requests |-> 0]

Arrive(r) ==
  \/ Get(r, "page") \/ Get(r, "browse") \/ Get(r, "run")
  \/ EditServer(r) \/ RemoveServer(r) \/ AddServer(r)
  \/ Probe(r)

(* What a request does next, but for the end of a read without a timeout. *)
Advance(r) ==
  \/ Locked(r) \/ Connected(r) \/ ConnectFailed(r)
  \/ Served(r) \/ UseFailed(r) \/ StartRead(r) \/ ReloginGet(r) \/ CloseVictim(r)
  \/ ClearAgain(r)
  \/ ProbeSucceeded(r) \/ Promote(r) \/ ProbeFailed(r)

ClientNext ==
  \/ \E r \in Requests : Arrive(r) \/ Advance(r) \/ EndRead(r) \/ Relogin(r)
                              \/ RunCancelled(r)
  \/ RetryTimePasses

ClientSpec == ClientInit /\ [][ClientNext]_clientCacheVars

(* Request r cannot go on before the untimed read of q ends: it is its own,*)
(* it closes the client q reads from, or it uses that client behind        *)
(* somebody who closes it.                                                 *)
WaitsFor(r, q) ==
  /\ pc[q] = "reading"
  /\ \/ q = r
     \/ victim[r] = held[q]
     \/ pc[r] = "using" /\ held[r] = held[q] /\ \E s \in Requests : victim[s] = held[q]

(* The event loop runs every task that is ready.  Handshakes, tool lists,  *)
(* calls and the end of a session are under timeouts; lists of resources   *)
(* and prompts are not, and nobody who waits for one is assumed to go on.  *)
FairClientSpec ==
  /\ ClientSpec
  /\ \A r \in Requests :
       WF_clientCacheVars((\A q \in Requests : ~WaitsFor(r, q)) /\ Advance(r))

-----------------------------------------------------------------------------
(* A client in a cache is connected and nobody is closing it, so what a    *)
(* getter hands out works at that moment: every path takes a client out of *)
(* the cache before it closes it, whatever else awaits meanwhile.          *)
CachedClientsOpen ==
  \A k \in Caches : cached[k] # 0 =>
    /\ conn[cached[k]] = "open"
    /\ \A r \in Requests : victim[r] # cached[k]

(* No connection is left open out of reach of those who close clients:     *)
(* without a connection test, which writes the entry outside the lock, an  *)
(* open client is in a cache, is being closed, or is the one that a        *)
(* cancelled test run was connecting.                                      *)
NothingLeaks ==
  (\A r \in Requests : op[r] # "probe") =>
    \A c \in Clients : conn[c] = "open" =>
      \/ \E k \in Caches : cached[k] = c
      \/ \E r \in Requests : victim[r] = c
      \/ \E r \in Requests : op[r] = "run" /\ pc[r] = "ended" /\ held[r] = c

(* A server that just failed is left alone until the retry time, also by   *)
(* the requests that were waiting for the lock when it failed; only the    *)
(* OAuth login and the connection test go ahead at once.                   *)
BackoffRespected ==
  [][ \A r \in Requests :
        (pc[r] # "handshake" /\ pc'[r] = "handshake" /\ op'[r] \in {"page", "browse"})
          => ~backoff
    ]_clientCacheVars

(* Every request that arrives ends, the ones queued for a lock included,   *)
(* unless it waits for ever for a read without a timeout: its own, or one  *)
(* on the very client that it closes or that is closed before it.          *)
EveryRequestEnds ==
  \A r \in Requests :
    (\A q \in Requests : []<>~WaitsFor(r, q)) => (pc[r] # "idle" ~> pc[r] = "ended")

(* A test run works with a client that was built from the configuration it *)
(* loaded: saving an edit takes the client of the old one out              *)
(* (update_mcp_in_profile, "Clear cached client for this MCP").            *)
RunsUseLoadedConfig ==
  \A r \in Requests : op[r] = "run" /\ pc[r] = "using" => config[held[r]] = read[r]
=============================================================================
