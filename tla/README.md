# A formal model of testmcpy

testmcpy runs LLM-driven test suites against MCP servers. Its server
(`testmcpy serve`) executes runs in the background, streams them to browsers
that come and go, caps how many execute at once and keeps a history that
survives crashes. Below the server are the test runner with its retries and
timeouts, the MCP client that concurrent tasks share, and the evaluators that
judge the tool calls of a test. These are the parts whose mistakes a test
hardly reaches, and what these modules model: TLA+ specifications translated
from the source, TLC configurations that check them on small instances, and
TLAPS proofs for instances of any size.

Paths below are relative to the repository (`src/`); `websocket.py` means
`testmcpy/server/websocket.py`.

## The system

| Component | State it keeps | Operations | Talks to |
|---|---|---|---|
| Run registry (`testmcpy/server/run_registry.py`) | `_runs`: a `RunHandle` per run with status, log and event buffers, results, attached queue and attachment token; the slot semaphore | `create_run` (with garbage collection), `acquire_slot`, `log`/`event`, `attach`, `detach`, `buffered_replay`, `finalize`, `get`, `list_active` | called by the run tasks, the dispatchers and the REST routes; shared by all of them |
| Run commands and dispatcher (`websocket.py`, `routers/runs.py`) | per run: position in the command, ad-hoc client, results so far; per socket: current handle and token, drain task, receive task | `_run` around `_run_test_command`, `_run_directory_command`, `_run_benchmark_command`; `_heartbeat`; `handle_test_websocket`, `_watch_attached_run`, `_drain_to_websocket`; the stop route | registry, history, MCP clients, test runner, browser |
| Run history (`run_persistence.py`) | `RunRecord`: began, finished, broken | `begin`, `append`, `finish` | writes the results database while the run goes on |
| Results database (`testmcpy/storage.py`) | `test_runs`, `question_results`, suites, metrics | `save_run`, `save_question_result`, `finish_run`, `heartbeat_run`, `mark_stale_runs_interrupted`, queries | shared by every server process and the CLI |
| Server start-up and sweeper (`testmcpy/server/api.py`) | the sweeper task | `lifespan` reconciliation, `_stale_run_sweeper`, routes | database |
| Browser reconnect client (`ui/src/contexts/TestRunContext.jsx`) | per tab: what it shows of its run, its socket, its reconnection timer; a snapshot in `localStorage` that the tabs share | start, attach, stop, reconnect with back-off, reload and resume | WebSocket dispatcher, REST, the other tabs |
| MCP client (`src/mcp_client.py`, `src/token_manager.py`) | the session, its generation, the list of tools; the lifecycle guard's counters; refresh epoch and failure; the newest token | `initialize`, `call_tool`, `list_tools` and the other reads, refresh of a rejected token, `close` | pages, chats, run commands; MCP servers |
| MCP client caches (`server/api.py`, `server/state.py`, `routers/mcp_profiles.py`) | two dictionaries of connected clients, one for pages and chats, one for test runs; a handshake lock per key in each; the connection back-off | get or create, evict, re-login; edit, remove, add and test a server | pages, run commands, configuration routes |
| Test runner (`src/test_runner.py`) | position in the suite, attempts, the wall clock, the window of used tokens, a client per test with its own credentials | `run_tests`, `_run_test_with_retry`, the four kinds of tests, the rate limiter and the back-off around each request, the loop that executes tool calls | LLM provider, MCP client, evaluators |
| LLM providers (`src/llm_integration.py`) | per test: calls the model made, results that arrived | `generate_with_tools`: collecting, executing locally, streaming | test runner, MCP server, remote APIs |
| Evaluators and scoring (`evals/base_evaluators.py`, `evals/tool_trace.py`, `scoring.py`) | none | verdicts of a trace of tool calls and its results; the score | test runner |
| Gateway smoke lane (`gateway_smoke/`) | the checks of three steps, the requests and bytes spent, the catalogue of tools | `run_smoke`: preflight, discovery and token through the OAuth probe, an MCP session, one approved read, report; the limits of every request | OAuth probe, gateway, authorization servers |
| OAuth probe (`oauth-probe/testmcpy_oauth_probe/`) | what documents said and which of them are trusted, the token endpoint, the token, checks | `discover`, `acquire_token`, `probe_mcp`, `run_target`; the transport with retries and address failover | gateway, authorization servers |
| CLI, offline analysis, agent and chat, configuration files, OAuth flows, LLM qualification | mostly per call | request/response | see `PROJECT.json` |

All server code of one process runs in one asyncio event loop: a task runs
until it awaits. Nothing is interleaved inside such a stretch and everything
may happen at its end. That is why each action of the models is what one task
does **between two awaits**, and why the interesting mistakes sit at awaits:
state that was read before one and used after it, and a `CancelledError` that a
stop throws into it. Processes share only the database.

### What is hard, and what makes each part correct

* **Registry.** A stop may hit a run before, while and after it is granted a
  permit. Correct: permits are conserved, none is idle in front of a parked
  run, at most `TESTMCPY_MAX_CONCURRENT_RUNS` handles say *running*, slots go
  in queue order, the first final status stays, unfinished handles are never
  collected, every run ends.
* **Commands.** Some twenty exits (bad file, failed connection, failed or
  cancelled initialization, test, clean-up, close), for one file or in a batch.
  Correct: what a run streamed, what it stored and the status it ends with
  agree; the slot and the ad-hoc client are given back.
* **Streaming.** Clients reload, take over and vanish while the run publishes.
  Correct: nothing is lost, nothing is sent twice, a client that was superseded
  disturbs nobody, and a dispatcher gets back to its client's next command.
* **History.** Processes die between two writes; the database may refuse
  writes; several processes sweep the same table. Correct: a live or finished
  row is never called interrupted, and a dead one eventually is.
* **MCP client.** Several calls are rejected with a 401 at once, others are in
  flight, and a page closes the client. Correct: no session is closed or
  replaced under a call, one refresh serves all who were rejected on the same
  token, nobody tries again on the session that rejected him, a cancelled
  task leaves no count behind in the guard, and nobody waits for ever, except behind
  a read that the client sends without a timeout.
* **Client caches.** Look-ups, handshakes, evictions, edits and connection tests
  of one server race through two caches. Correct: what a getter hands out is
  connected, one handshake at a time, no connection is left where nobody can
  close it, a server that failed is left alone, nobody waits for ever (except
  behind a list of resources or prompts, which has no timeout), and an edit reaches
  everybody who uses the server.
* **Test runner.** Three layers of waiting meet: the limiter and the back-off
  around a request, the wall clock around an attempt, the retries and pauses
  around those; some exceptions are caught at none of them. Correct: requests stay
  a minute apart, a refused test stays silent for a minute, no attempt outlives its
  limit, the client made for one test is closed whatever struck where, and a suite
  ends with a result for every test unless such an exception ends it.
* **Tool calls and verdicts.** Either the provider or the runner executes a
  call, and evaluators read the same trace through different helpers. Correct:
  a reported call is not executed again, results belong to their calls, a
  stricter evaluator passes only where a looser one does, and what the model
  does later or does right costs it nothing.
* **Browser client.** Connections break, the server restarts and another tab takes
  the run while a tab reconnects, is reloaded or comes back after the end. Correct:
  a tab that shows a run as running can still hear of it or says that it cannot,
  a superseded tab does not fight back, and reconnection ends.

* **Smoke lane and OAuth probe.** Servers that answer anything or nothing stand
  between a program with credentials and its verdict; the run may stop, be refused
  or be cut off in each phase. Correct: the verdict says what was found, being
  blocked hides no failure, a credential goes once and only where the operator or
  trusted metadata of its own issuer sends it, and every run ends with a report.

The hazards are listed with their lines in `PROJECT.json`.

## The modules

```
 RunSlots <-------- RunCommand ------> RunRecord <------ RunHistory ----> RowLifecycle
 (cap, status)      (EXTENDS both)     (operators)       (EXTENDS)   implements (abstract)
     ^                  |
     +--- implements ---+              RunStream    (buffers, attachments, dispatchers)
                                       ClientCache  (the client that a run connects with)

 LifecycleGuard <-- McpClient ------> SharedSession      (what happens on that client)
 (operators)        (EXTENDS)    implements (abstract)

 BrowserTab  (the tabs that watch runs; what the dispatchers send them)

 TestRun  (a suite of tests and its clocks)
 ToolTrace <-- Verdicts <-- ToolRun  (the tool calls of one of its tests)

 OAuthProbe <-- GatewaySmoke <-- Qualification  (a run of either program)
            <-- ProbeRun <------
```

| Module | Models | State and actions against the code |
|---|---|---|
| `RunSlots` | concurrency cap, statuses and garbage collection of the registry | `registry` is `_runs`, `status` is `RunHandle.status`, `permits`/`waiters` are the semaphore's `_value`/`_waiters`, `slot` is where the task is with respect to `acquire_slot`, `cancel` what `Task.cancel()` has done to it. `AcquireFree`/`Park`/`Resume`/`Abandon` are the ways through `acquire_slot`, `Leave` the end of the command (release and `finalize`), `Reap` the awaited heartbeat task. The semaphore and `Task` are CPython 3.11's and marked external. |
| `RunCommand` | what `_run` and the three commands do with a slot | `pc` names the await a command is suspended at: `connect`, `init`, `test`, `cleanup`, `close`; `enter` is the synchronous stretch at the top of a file, during which no other task may step (`Quiet`). `emitted` is all that was published on the handle, `results`, `preResults` and `aggregated` are the lengths the batch loops slice by, `record` is a `RunRecord` per file, `adhoc` the client the command must close. One action per outcome of each await. |
| `RunRecord` | `RunRecord`'s writes, with a database that may refuse each | pure operators shared by `RunCommand` and `RunHistory` |
| `RunStream` | buffers, attachment queue and token of a handle; the dispatcher and the drain task of each socket | `attached` is the token of `attached_queue`, `newest` is `attachment_token`, `queues` holds the queue of every attachment ever made (a reader may still hold an old one), `mode` is the await of the dispatcher, `drain` its drain task, `received` the result of its receive task, `got` what the client was sent. A message is its position in the stream. |
| `RowLifecycle` | abstract: what the status column promises | a row opens as *running* by a live run, gets one final status, and is called *interrupted* only when nobody works on it any more; both `RunCommand` and `RunHistory` implement it |
| `RunHistory` | rows, heartbeats, sweepers, crashes and restarts of several servers | time in ticks of 30 s; `age`/`beatAge` are the ages of `started_at`/`heartbeat_at`, `beatTimer`/`sweepTimer` the sleeping tasks, `fate` whether the run of the row lives. `MarkStale` is `mark_stale_runs_interrupted`, called by `Sweep` (without the check of `started_at`) and by `Restart` (with it). |
| `ClientCache` | both client caches, for one server of one profile | `cached` is `mcp_clients[key]` of each cache, `lockq` the holder and the waiters of `_client_init_locks[key]`, `backoff` whether `_connection_backoff[key]` lies in the future, `stored` the version of the server's entry in the configuration. `conn` and `config` say of each client object whether it is connected and from which version it was built. A request is a page, a list of resources or prompts (`browse`), a test run, an edit, a removal, an addition or a connection test; `pc` is its await, `held` the client it works with, `victim` the one it took out of a cache and is closing. `Lookup` is a getter up to its first await, `Locked` what follows the wait for the lock, `StartRead` and `EndRead` a read that no timeout ends. |
| `LifecycleGuard` | `_ClientLifecycleGuard`, a readers-writer lock that prefers writers | `activeReaders`, `waitingWriters` and `writerActive` are its fields, `parked` the tasks in `Condition.wait()`. A task that is cancelled in the wait reacquires the condition's lock and runs the `finally` block (`LeaveShared`, `LeaveExclusive`). |
| `McpClient` | `MCPClient` with the guard: initialization, calls, reads, close, and `_call_tool_with_lifecycle` | `client` is the token of the open session (0: `self.client is None`), `generation` is `_client_generation`, `cache` whether `_tools_cache` is set, `manager` the newest token of `_token_manager`, `epoch` and `failure` are `_refresh_epoch` and the epoch of `_refresh_failure`. `pc` is the await of each task, `seen` what its call noted in the first attempt. `StartRead` and `AnswerRead` are the reads without a timeout. `Cancel` may strike at every await. |
| `SharedSession` | abstract: the session that users may rely on | it changes only in the hands of one owner, and there is no owner while there are users |
| `TestRun` | `run_tests`, `_run_test_with_retry`, `run_test`, `run_auth_only_test`, `run_multi_turn_test`, `run_load_test`, `_rate_limited_llm_call`, `RateLimiter` | time in ticks of 15 s; `clock` is the wall clock of the attempt or the sleep of the suite, `loadClock` that of a load test, `timer[c]` what the c-th concurrent `run_test` sleeps; `at` is its await, `client` its own MCP client, `window` the ages of `token_usage_history`. `Strike` and `LoadExpires` are the two `asyncio.wait_for`, whose cancellation sends every caller into its `finally` block. `phase` is where `run_tests` is, from `initialize()` (*starting*) to `cleanup()`; on the way out of an exception that clean-up is *unwinding*, and the suite is *lost*. `HookRaised`, `LoadRaised`, `InitializeFailed` and `CleanupFailed` are the exceptions that nobody catches. |
| `ToolTrace` | `normalize_tool_call`, `flatten_request` and the matching and selecting helpers | pure operators; a call is a record with name, gateway target, workspace and two layers of arguments |
| `Verdicts` | the evaluators that read tool calls, and the tool part of `scoring.py` | pure operators, one per evaluator |
| `ToolRun` | `generate_with_tools` of each kind of provider, and the runner's loop that executes calls | `trace` is `tool_calls`, `answers` what a stream answered in the order of the answers, `results` is `tool_results`, `ran` counts what the MCP server executed. The verdicts are evaluated on every trace the model can make. |
| `BrowserTab` | `TestRunProvider` in several tabs, and the server as they see it | `tab` holds the provider's state (`running`, `stopping`, `connection`, `currentRunId`) and refs (`terminal`, `attempts`, `timer`, `ws`, `runIdRef`; `resume` is the pending query of the mount effect), `saved` the snapshot in `localStorage`. `sock` is a WebSocket with both of its ends: what it asked for, where the dispatcher is (`serving`) and what is on its way (`inbox`). `run` is what the server knows of a run, `attached` who is attached to it, `halted` whether its buffer holds a *stopping* event. An action is one event handler of the page (`Start`, `Stop`, `Reattach`, `Load`, `Resume`, `TimerFires`, `Receive`, `OnClose`), a step of a dispatcher (`Serve*`, `AttachServed`) or an accident (`Lose`, `Restart`). |
| `OAuthProbe` | `discover` and `acquire_token` of the probe, one target at a time | `at` is the await, or the code between two, that comes next; `local` the checks that the function still holds, `prm`, `servers`, `metadata` and `endpoint` what the documents left behind, `left` the candidates that `_first_json` has not tried. `ProbeAnswers` is all that may come back; one `...Returns` action per request, `ProbeSkips` for phases that send nothing. `grants`, `proved` and `flaws` are histories: credentials sent, and what was or was not as it should be, judged from the answers themselves (`Fitting`) and not from the checks. |
| `GatewaySmoke` | `run_smoke` with `LimitedTransport` | `steps` holds the checks of the three steps, `calls` and `bytes` what the limits count, `catalogue` the tools listed so far. `LaneRequest`, `LaneRefused`, `LaneAnswer` and `LaneLost` are the ways through `request`, `LaneCutShort` is the total timeout or an unexpected exception. `Report` folds checks into the verdict as `worst` does. |
| `ProbeRun` | `run_target`, `probe_mcp` and `HttpxTransport.request` | `gathered` are the checks of the report, `listed` the pages and tools of `tools/list`; `RunResend` is the next address or attempt of a request that may be sent twice. |
| `Qualification` | composition of the three | a behaviour is a run of the lane or of the probe; the properties speak of both |
| `RunCommand_proofs`, `StreamHistory_proofs`, `ClientCache_proofs`, `McpClient_proofs`, `ToolRun_proofs`, `TestRun_proofs`, `BrowserTab_proofs`, `Qualification_proofs` | theorems | see below |
| `MC*` | instances for TLC, with the symmetry sets | |

Operators whose comment begins with *Mutant of* are plausible mistakes in the
operation below them. They take no part in any specification; put in the place
of that operation they make the property that `PROJECT.json` names for them
fail, which shows that the property depends on the code.

### Abstractions

* Messages carry what the properties distinguish: a type, a terminal status and
  a number of results in `RunCommand`; only their position, and whether they
  are a log line or an event, in `RunStream`.
* A benchmark is a batch with one file per combination; its `combo_*` events
  stand behind `file_*`. The log lines of one stretch stand for each other. A
  file has at least one test. Loading, filtering and
  provider details only decide between "usable" and "not".
* Handles are collected in `RunSlots`; in `RunStream` a run that has no handle is
  one that does not exist yet, and attaching to it is served from history.
* The database refuses a write (`SQLAlchemyError`) or performs it. Other
  exceptions inside a write are not modelled.
* A stop goes through the WebSocket path, which, unlike the REST route, does
  not ask whether the run is finished.
* In `RunCommand` an ad-hoc client whose own initialization fails or is cancelled
  counts as not built, because `adhoc_client` is not assigned yet. `MCPClient`
  closes the partial connection of one that fails; that a cancelled one may stay
  open is in `ClientCache` (`RunCancelled`).
* asyncio is taken as in CPython 3.11 (`requires-python` is `>=3.10,<3.13`, the
  Dockerfile uses 3.11). That `asyncio.wait_for` before 3.12 can swallow a
  cancellation that arrives together with its result is not modelled.
* Timers are punctual: a tick passes only when no timer of a live process is
  due. A beat that finds its row finished changes nothing and is left out.
* `ClientCache` follows one key, because keys do not interact, and so a profile
  of one server. An edit that renames the server is a removal there. A request
  performs one operation; a client counts as connected when `initialize()`
  returned, and may break at any time (`UseFailed`). How long the back-off lasts
  is left open: the retry time may pass at any moment.
* `McpClient` follows one client object. A 401 is any error whose text contains
  it, as in the code; tokens are numbered in the order in which they are issued.
  There are two kinds of reads: `list_tools`, which has a cache and a timeout, and
  one that stands for `list_resources`, `read_resource`, `list_prompts` and
  `get_prompt`, which have neither.
* In `TestRun` the limiter's estimate of a request, 46,000 tokens and more, is
  above its limit of 40,000 per minute. So a request waits whenever anything was
  used in the last minute, and amounts are left out. Providers that run a CLI
  skip the limiter and are not modelled. A tick passes only when nothing is due;
  requests, tools and authentications take any time, `initialize()` and `cleanup()`
  none, because no clock of a test runs meanwhile. A teardown hook or a close
  ends within `Grace`, which no timeout of the code guarantees: the property that
  depends on it names it.
* In `ToolTrace` two values are equal if and only if they print alike (the
  evaluators compare strings in places), and names differ in more than case.
* `BrowserTab` leaves out what pages display: results, logs, progress (a batch
  shows its Stop button a little longer). "Run All LLMs", which runs without a
  socket, and `clearResults`, which no page calls, are not modelled. Several sockets of
  a tab may be open at a time, as in the code; a tab to which that happened is
  marked in `overlap`, because the properties do not hold of it (see below).
* In the `Qualification` modules each document is one record: checks of its contents
  that steer nothing (scopes, grants, client authentication, PKCE) are its `form`.
  The advertised servers are a set; an issuer has as many well-known addresses as
  the resource. A body counts one unit, the required tool is that of the fixture, a
  tool that reports `isError` stands for a JSON-RPC error, an invalid cursor for a
  malformed page. No check of the probe has the status `WARN`, so it is left out.
  Address validation is whether the transport refuses an endpoint. The runs of one
  target do not interact, so a behaviour is one run.
* Bounds that the code does not have and the models name: `MaxStops`,
  `MaxMessages`, `MaxAttach`, `MaxRequests`, `MaxResults`, `MaxCrashes`,
  `MaxClients`, `MaxEdits`, `MaxOps`, `MaxCalls`, `MaxSockets`, `MaxClicks`,
  `MaxLosses`, `Grace`. They
  bound how often something happens, not what happens. `MaxMissed` is an
  assumption about the environment: heartbeats refused in a row.

## What is checked

| Run | Instance | Shows |
|---|---|---|
| `RunCommand_one` | 1 run, 2 files, 2 tests each, 2 stops, any write may fail | a batch ends its stream once; `all_complete` carries exactly the streamed results; status and stream agree; the history holds all streamed results |
| `RunCommand_slots` | 2 runs, 1 slot, 1 stop each, fair | whole commands implement `RunSlots`; every created run ends, so on every exit the slot is given back; a stop that reaches an unfinished run makes it *stopped* |
| `RunStream_clients` | 1 run, 2 clients with 3 requests in all, 2 messages, 3 attachments, log buffer of 1, fair | the client that started the run misses nothing; nobody gets a message twice or out of order; whoever is newest stays connected; the watch of a finished run ends, superseded or detached as it may be |
| `RunHistory_reconcile` | 2 servers, 1 row, beats every tick, sweeps every 2, stale after 6, 5 refused beats, 2 crashes, any write or sweep may fail, fair | live rows are never interrupted; the history implements `RowLifecycle`; a dead row that once beat is reconciled while a server stays up |
| `ClientCache_requests` | 3 requests of any kind on one server, 6 clients, 2 configurations, fair | cached clients are connected and nobody is closing them; connections are not left behind; a server that failed is left alone by those who waited as well; every request ends, unless it waits for ever again for a read without a timeout |
| `McpClient_shared` | 3 tasks, 5 operations, cancellation at every await, fair | a second attempt runs on a new session; the client implements `SharedSession`; every operation ends, if no read without a timeout hangs for ever |
| `ToolRun_verdicts` | all traces of up to 3 calls out of 7, every provider, every outcome and order of results | a reported call runs once; results match calls; the sequence evaluator finds every subsequence; verdicts are ordered by strictness, stay when calls follow, and an expected call never lowers the score |
| `TestRun_suite` | 5 tests, one of each kind and one with short timeout and own credentials, load test of 2 requests by 2 workers, 3 tries in both layers, fair | requests and refused tests keep their distance; no attempt overruns its limit; the clients made for a test are closed; every suite ends, with a result per test or lost to an exception |
| `BrowserTab_tabs` | 2 tabs, 1 run, 3 clicks, 2 lost connections or restarts, 1 attempt to reconnect, 2 sockets per tab, fair | a tab that shows a run as running hears of it or says that it is disconnected; reconnection ends; a tab that comes back after the end settles |
| `Qualification_programs` | 68 configurations of the two programs: every mode and flow, policies, preset endpoints, expected issuers, each limit reached at several places; 2 issuers, 2 addresses per document, 2 pages, fair | a verdict is a pass exactly if everything asked for was done and in order; being blocked hides no failure; credentials go once, and only to their own issuer; every run reports |

Type invariants take no part in the runs; for most modules a theorem establishes
them. The properties that theorems prove for every instance and that a run would add
nothing to are in no run: `SlotCap`, `AdhocLeftOpenOnlyByStop`,
`SessionHasNewestToken`, `RefreshesRejectedToken`, `SupersededStaysAway`,
`NobodyWaitsInVain` and `ReconnectionIsUnderWay` (a state that broke one of them would
show as a wait without end in the liveness properties of their runs) and
`ImplementsLifecycle` of `RunCommand`. TLC agreed to each
on the instance of its module before it was proved. `RunSlots` has no run of its own: `RunCommand` contains its actions, and
theorems give its properties for any number of runs and slots.

Why the bounds are enough. Two runs and one slot give a holder, a waiter and the
hand-over between them, with a stop before, in and after it. In `RunCommand_one`
two files make a batch whose first
file may fail while its second one succeeds; two tests make a file that can be
cut in the middle; a second stop hits the clean-up that the first one caused.
In `RunStream` three attachments let each client be superseded and come back,
and a log buffer of one drops a line that a replay then misses; `MaxRequests` bounds
the messages of all clients together, and three are a start, a take-over and a stop
or a second command. `StaleTicks`,
`BeatTicks` and `SweepTicks` in `RunHistory` have the proportions of the code
(3 min, 30 s, 60 s); `LegacyTicks` (1 h) is scaled down to just above the
others. In `ClientCache` three requests are one that holds the lock, one that
waits for it and one that edits, evicts or tests meanwhile; six clients are one
for each handshake that three requests can make, a re-login after a page
included, so `MaxClients` cuts nothing off there. In `McpClient_shared` the
first operation initializes the client; four more let two calls be rejected on
one session while a third task closes or reads, and one of them come back. In
`ToolRun_verdicts` three calls are the shortest trace in which a step of a
sequence can be skipped and in which a score can go down and up; the seven calls
are a tool under its own name, prefixed and through the gateway, a look-up whose
name begins like a tool's, a gateway call without target, and a tool nobody
expects. In `TestRun_suite` the tests come in an order in which each kind follows
another; a tick of 15 s keeps the proportions of the code (60 s window, 75 s
wait, 60 and 90 s back-off, 120 and 180 s between attempts, 90 and 180 s wall
clock). In `BrowserTab_tabs` three clicks start a run, let the other tab load the
snapshot and take the run over, and stop, reload or attach again; the second loss
is one more than the attempts allow, so a tab gives up; two sockets let a tab
overlap. In `Qualification_programs` two issuers are the right and a wrong one, two
candidates the first and the last, two pages (`PageLimit`, 20 in the code) one before
and one at the cap; limits of calls and bytes are set so that they strike in
discovery, at the token and in the session, and high enough elsewhere to be out of
the way. The proofs are for any numbers.

Deadlock checking is off where a finite number of runs, requests, operations or
calls lets an instance come to its end. `RunHistory` never stops, and `TestRun`
stutters only at the end of its suite: both are checked for deadlock.

### Fairness

* `FairCommandSpec`: weak fairness of each task's steps. The
  event loop runs every task that is ready, the lists of files and tests are finite,
  and every await of a command ends. The last is an assumption about the servers as
  much as about the code: `websocket.py:580` calls `run_test` without the wall clock
  that `_run_test_with_retry` puts around it on the command line, so a test ends only
  because its provider's and its MCP client's requests have timeouts of their own, and
  those of `httpx` are per operation. A provider that trickles its answer for ever
  would hold the slot. Nothing is assumed of stops.
* `FairStreamSpec`: weak fairness of the drain and the dispatcher of each
  socket. Nothing is assumed of the clients or of the run.
* `FairHistorySpec`: time passes, due heartbeats and sweeps fire, and a sweep
  that is due again and again does not fail for ever (strong fairness of
  `Sweep`). Nobody has to restart a crashed server.
* `FairClientSpec`: weak fairness of what each request does next, as long as it
  does not wait for a list of resources or prompts (`WaitsFor`). Handshakes, calls
  and lists of tools are under timeouts, and `asyncio.Lock` serves its waiters in
  order. `client.close()` has no timeout of its own (`api.py:373`): it ends when the
  guard is free and the session is ended, so it hangs behind an untimed read, and
  nothing is assumed of it then. `EveryRequestEnds` is conditional in the same way.
  Nothing is assumed of arrivals, re-logins, stops, untimed reads or the retry time.
* `FairMcpSpec`: weak fairness of what each task does next. Calls, `list_tools`,
  authentication, connections and the end of a session are under timeouts, and
  `asyncio.Condition` wakes everybody whenever the guard is released. There is no
  fairness of `AnswerRead`: the other reads have no timeout, and `EveryOperationEnds`
  speaks of behaviours in which none of them hangs for ever. Nothing is assumed of
  arrivals and cancellations. The guard prefers writers, but operations are finite,
  so none starves.
* `FairBrowserSpec`: weak fairness of "some event handler or dispatcher step that
  is due" (`Due`). Event loops get on with what there is to do, in whatever order.
  Users, runs and the network owe nothing.
* `FairQualificationSpec`: weak fairness of the code between awaits, of sending, and
  of the timer of a request. `LimitedTransport` sets one for the lane's whole request.
  For the probe it is that of `httpx`, which is per operation: a body that trickles is
  bounded only by the limit of its bytes, and taken to reach it.
  Nothing is assumed of servers: they may never answer, redirect to addresses that
  do not exist and page without end.
* `FairTestRunSpec`: weak fairness of the whole next-state relation: time passes
  and the event loop runs whatever is due. A request may hang until the wall
  clock strikes; nothing is assumed of the provider then. `initialize()` and
  `cleanup()`, which no wall clock covers, end well or not, by the timeouts of
  provider and MCP client.

### Disagreements between the code and what it says of itself

Each of these runs checks one statement of a comment, docstring or test, and
TLC refutes it with a behaviour of the code (details in `PROJECT.json`).

| Run | Statement | What happens |
|---|---|---|
| `ClientCache_stale` | saving an edit clears the cached client | the routes clear the cache of `api.py`; test runs use that of `state.py`, which nothing clears, and go on with the old URL and credentials |
| `ToolRun_twice` | the runner skips what the provider executed already | a provider that executes calls locally and drops their results lets the runner execute every call a second time |

More show in the models and have no run.

Of the run server:

* `all_complete` is called a terminal signal (`websocket.py:676`); a stop during
  `runner.cleanup()` makes a completed single run publish a second one with
  status *stopped*, and finalizes it so (`RunCommand`).
* An ad-hoc client is the command's to close (`websocket.py:681`);
  `suppress(Exception)` lets `CancelledError` through, so a stop during
  `runner.cleanup()` skips `adhoc_client.close()` (`RunCommand`).
* Replay and live stream together are to cover every step (`websocket.py:1276`);
  the snapshot is sent, with an await per message, before the client attaches,
  and what is published meanwhile reaches nobody (`RunStream`).
* `attached_queue` is to be `None` when nobody watches; a new command on a
  watching socket leaves without `detach()`, and the old run goes on filling a
  queue without a reader (`Reattach`, `websocket.py:1097`).
* The drain looks up `attached_queue` only when its task starts, so of two
  clients that attach at the same time the winner may lose a message to the
  loser's drain (`DrainStart`, `websocket.py:998`).
* A command received in the iteration in which the drain ends is dropped
  (`WatchEnds`, `websocket.py:1058`).
* A run that ended normally with a failing database keeps a *running* row, which
  `wire_status_for_db_status` then reports as interrupted
  (`run_persistence.py:105`).
* The comment on the sweeper says that a row orphaned by a crashed sibling flips
  within minutes (`api.py:516`); a run that died in its first 30 s, before its
  first heartbeat, waits for a restart, because the sweeper leaves out rows
  without one. `DeadRowsReconciled` has `beaten[r]` as a condition for that
  reason.
* A connection test that succeeds writes its cache entry outside the lock and
  after an await; a client that was cached meanwhile is overwritten and stays
  open (`Promote`, `mcp_profiles.py:941`). `NothingLeaks` leaves out behaviours
  with connection tests for that reason.

Of the MCP client and its caches:

* `close()` is to wait "after any active operation finishes" (`mcp_client.py:1603`).
  `list_resources`, `read_resource`, `list_prompts` and `get_prompt` (1518, 1546, 1562,
  1589) hold the shared side without a timeout: if one is never answered, close,
  refresh and every later reader wait for ever. The task of `call_tool` alone is freed
  by its deadline.
* An edit or an eviction waits at `api.py:373` behind such a read of a page
  (`api.py:976`, 1017). The client is out of the cache by then, so requests that come
  later connect a new one.

Of the test runner (`test_runner.py`):

* A load test catches six types of exceptions (1399, 1408). Another one of its aggregate
  evaluators, an `AttributeError` say, is not caught by `_run_test_with_retry` (1500)
  either, leaves `run_tests`, and with it go the results of all tests that ran before
  (`LoadRaised`). So does an exception of `initialize()` (1423), of `cleanup()` (1455)
  although every test is done, and of a teardown entry that is not a mapping (852),
  which also leaves the test's own client open (`HookRaised`).
* The docstring of `_run_test_with_retry` promises that a rate-limited test is
  retried (1467). With the default timeout of 30 s the back-offs of 60 and 90 s
  around a request exceed the wall clock of 90 s, so a test whose provider
  *raises* the limit times out, and a timeout is never retried.
* The comment at 464 lists back-offs of 60, 90 and 120 s; with three attempts
  only the first two are used. The timeout of a load test (120 s) never fires
  when its wall clock is the default 90 s.
* The limiter records only answers, and nothing survives a load test's
  concurrency: its requests all look at the window before any of them is in it.
  `RequestsSpaced` ends at the first load test for that reason.
* The wall clock, when it strikes during the teardown hooks, skips the close of
  the test's own client (864). `TestClientsClosed` allows exactly that, and the
  teardown entry above.
* `cleanup()` (1571) closes the LLM provider first; if that raises, the MCP client
  stays open.

Of the browser (`TestRunContext.jsx`):

* A run may publish its end between the replay and the attach of a tab that comes
  back. The tab is then told of a started run and of nothing else; the status in
  `run_started` is ignored, and the spinner goes on, against the comment near
  line 100 (`LateAttachSettles` speaks of tabs that connect when the run is over).
* `stopping` is not reset by an error or a take-over, so the next run of the tab
  starts with a disabled Stop button.
* The query of the mount effect may be overtaken by a run that the user starts,
  and a manual reattach by one, too. The tab has two sockets then: the terminal
  event of the old run ends the view of the new one, and the loss of the one that
  is not current is ignored. The properties exempt such tabs (`overlap`).
* A stop while the socket connects is posted for the previous run, or, without one,
  sets `running` to false although `onopen` starts the run anyway (`Stop`).
* A socket that is lost before `run_started` leaves a run that no tab knows of.
* The mount effect persists `running: false` before the query is answered, so a
  second quick reload does not resume.

Of the smoke lane:

* A response over `max_total_bytes` "aborts the run" (`limits.py:24`). In discovery
  the error becomes a check, and the requests that follow, the one with the
  credential included, are still sent (`LaneAnswer`, `ResourceReturns`).
* An exceeded limit is "Reported as ERROR" (`limits.py:18`, and the table in
  `docs/gateway-smoke-lane.md:145`). In the token phase a timeout is taken for a
  credential that is not available, and reported as BLOCKED (`TokenAcquired`).
* A timed-out run "still reports everything gathered so far" (`runner.py:82`); the
  checks that `discover` and `acquire_token` hold locally are lost (`LaneCutShort`
  resets `local`).
* `blocked_report` leaves `limits` empty (`runner.py:880`), and the human format reads
  `limits['max_calls']` (`reporters.py:41`): a configuration that cannot be used ends
  in a `KeyError` instead of exit code 3. Formatting is not modelled.

Of providers and evaluators:

* `_lookup_parameter` prefers the top level, `flatten_request` the request
  (`tool_trace.py:3`); a call that has a parameter in both is judged by two values.
* The loose match lets a call of `search_tools` count as a call of an expected
  `search`, although `_call_match` says that discovery only matches its own name
  (`base_evaluators.py:73`).
* A test that expects `call_tool` itself passes its evaluator, and is penalised
  by `scoring.py`, which counts the tool behind the gateway.
* `llm_integration.py:3637`: `asyncio.wait_for(line_iter.__anext__())` cancels
  httpx's generator at the first heartbeat, so the next line ends the stream
  silently, against the comment at 3643.

Two behaviours are deliberate or harmless and no finding: a single run that
reports an error finishes with registry status *completed*, and a late stop may
publish `stopping` after the terminal event.

## What is proved

TLAPS checks every theorem, for all values of the constants that satisfy the
named assumptions.

**`RunCommand_proofs`**, first part (any finite set of runs, any `Limit` of at least
1): the theorems about `RunSlots`. The
cap alone is not inductive: that a released permit can be handed on without
exceeding it depends on where the tasks are. `SlotInv` adds

* `StatusInv`: a handle's status, its task's place and its registry entry
  agree (*running* exactly while the slot is held);
* `QueueInv`: every task that waits or was granted a permit is in the queue;
* `PermitsConserved` and `NoLostWakeup`.

`WakeUpConserves` and its companions are the lemmas about `_wake_up_next`: it
grants at most one permit out of those it has and leaves nobody pending if it
granted none. From `SlotInvariant` follow `SlotTypesHold`, `PermitsAreSafe`,
`AtMostLimitRunning`, `FinalStatusIsFinal`, `ActiveRunsStayRegistered` and
`SlotsGoInOrder`, that nobody who waits is overtaken.

**`RunCommand_proofs`**, second part. Every action of a command either performs one action of
`RunSlots` or leaves its variables alone (`CommandsImplementSlots`). So the cap
and the conservation of permits hold of the whole commands, whatever they raise
(`CommandsRespectCap`, `CommandsKeepPermits`).

What a run publishes is proved from `CommandInv` (any runs, files, tests and
stops, a database that may refuse any write). None of these properties is
inductive alone: that the last `all_complete` of a batch carries every result
needs the slices to leave no gap, which needs to know where in a file the run is.
`CommandInv` adds to `SlotInv`, for each run,

* `ControlInv`: it is somewhere in its command exactly while it holds its slot;
  at the top of a file nobody has cancelled it; an ad-hoc client is open only
  between its connection and the end of the clean-up, or left by a stop;
* `RowInv`: the row of a file is open exactly while its tests run, with the
  results of the tests before the current one;
* `SliceInv`: `aggregated` and `preResults` agree, and reach `results` at the top
  of each file;
* `StreamInv`, `FilesInv`: the messages so far against the run's status, results
  and file.

The messages are followed one at a time: `Grown` says of a sequence that some
plain messages were added to another one, and `EndAppend` that the last one was,
so that no action needs to reason about positions. There is one lemma per action,
each showing that the action keeps the invariant of its own run (`There`), and
`OthersKeepInv` for all the other runs. `CommandTypesHold`, `BatchesEndOnce`,
`ResultsAreCarried`, `FinalStatusIsAnnounced`, `AdhocClientsAreClosed`,
`FilesAreNested`, `RowsRunOnlyInTests` and the action property
`FinishedRunsStayQuiet` follow.

The last part is about the rows. That the history holds what was streamed
(`HistoryIsComplete`) is a statement about a sum over the files of a run, and a row is
reset when its file is opened; so `SavedInv` says, on top of `CommandInv`, that

* the files still to come have untouched records (`Unopened`), so the reset loses
  nothing;
* a record that can be written has an open row;
* as long as no record is broken, the sum of their rows is the number of results.

The sum is `FoldFunction` of the community modules, a recursive function on the subsets
of its domain. `SumUpTo` and `SumAdds` show that this function exists, `SumOfNothing` and
`SumGrows` that it starts at 0 and grows by one with one place; each takes a smallest
counterexample (`LeastNumber`, `SmallestSet`), because the library's induction
theorems cannot be instantiated here. From the same invariants,
`CommandsKeepPromise` shows that the commands implement `RowLifecycle` for each file
of each run, with `RowOf` and `Working` as the mapping: `Initialized` opens a row,
`LastTest`, `TestRaised` and `TestCancelled` close it, and nothing else touches it
(`OtherStepsKeepRows`). `RunHistory` has the same abstract specification, so the two
models of a run, one with its commands and one with crashes and sweepers, agree on
what a row may do.

**`StreamHistory_proofs`**, first part (any runs and clients, any buffer size and any
bound on messages, attachments and requests): `RunStream`. What a client gets depends
on a queue that the run fills, a drain task that empties it, and on whoever attaches
meanwhile. `StreamInv` says, of each run and of each client,

* `HandleInv`: the queue of the newest attachment holds messages in the order of the
  stream (`Rising`), and only the newest attachment is ever attached;
* `AttachmentInv`, `DrainInv`, `ConnectedInv`: no two clients have one token; a drain
  works for its client or is left over from it; who watches with the newest token is
  attached;
* `ReplayInv`, `GotInv`: what is replayed was published before the attachment, and
  everything still on its way live comes after all that the client was sent;
* `StarterInv`: for the client that started the run, what it got, what its drain holds
  and what is in its queue are together the whole stream, without a gap; once its drain
  is done, it was sent the last message.

A step is first reduced to what it does to the handle (`PublishStep`, `FinalizeStep`,
`DetachStep`, `AttachStep`, `DrainGetStep`), then to what that does to clients that
have no part in it (`QuietKeeps`, `OthersKeep`, `AllQuiet`); `AwayKeeps`,
`ArrivalKeeps`, `WatchingKeeps`, `ForwardLive` and `ForwardEnds` are the clients that
do. `PositionsAreOfTheStream` shows that a replay, which enumerates the positions that
the buffers kept, is a part of the stream, from `KthExists`: a finite set of numbers has
a k-th one. `StreamInvariant` gives `WatchersStayConnected`, `LiveIsBehindReplay`,
`TheStarterMissesNothing` and the types.

**`StreamHistory_proofs`**, second part (any servers and rows, any periods that satisfy
`CutoffAssumption`, that is, a cutoff that outlasts `MaxMissed` refused beats
plus one). That a live row is not interrupted is not inductive: one must know
how stale it can be by now. `HistoryInv` adds

* `RowInv`: the row, the record and the fate of its run agree;
* `FreshInv`: the age of the last beat (or of the start) of a live row plus the
  ticks it may still take until the next accepted beat,
  `beatTimer + (MaxMissed - missed) * BeatTicks`, stay within the cutoff. A tick
  moves one unit from the budget to the age; a refused beat pays for a new
  period with one of the misses left.

From `HistoryInvariant` follow `HistoryTypesHold`, `LiveRunsAreSafe` and, action by action with
`rowStatus` and `alive` as the refinement mapping, `HistoryKeepsPromise`.

**`ClientCache_proofs`** (any requests, any number of clients and edits). That a
cached client is open is not inductive: a request may be about to close it.
`CacheInv` adds

* `Owned`: what a handshake or a connection test works on is in no cache and in
  nobody else's hands, until it is cached;
* `Victims` and `Distinct`: what is being closed was connected once, and the two
  caches share no client, so taking one out of its cache takes it out of reach;
* `Fresh`: client objects are new.

One lemma per kind of step (`ConstructPreserves`, `PopPreserves`,
`BystanderPreserves`, ...) serves the many actions that share it.
`CacheInvariant` and `CachedClientsStayOpen` follow.

That no connection is left behind (`NoClientLeaks`) needs to know that a cache entry is
empty while someone connects for it, or the newcomer would overwrite it, and so
needs the locks. `LockAndLeakInv` adds

* `LockTasks` and `HeadConnects`: the queue of a lock holds each task that waits for it
  or is past its wait exactly once, and whoever connects is at its head. `OneLess` and
  `OneMore` say this of a sequence that loses its head or a task in the middle, or gets
  one more at its end; `JoinKeeps`, `LeaveKeeps` and `StayKeeps` of a request, and
  `StepStages` sorts every action into one of the three;
* `Stages`: what kind a request is in each place, and where it may still have a client
  to close;
* `LeakInv`: every open client can be reached, and whoever connects finds the entry
  empty.

`StepEffects` reduces every action to what it does to connections and entries, so
`LeakStep` argues about four kinds of effect and not about twenty actions.
`LocksHoldTheirTasks` (with the types), `NoClientLeaks` and the action property
`TheBackoffIsRespected` follow.

**`McpClient_proofs`** (any tasks and operations). None of the properties of the
client is inductive alone, because each depends on the guard being exact while
tasks come, wait, leave and are cancelled. `McpInv` adds

* `Guarded`: `activeReaders` is the number of tasks in a shared section,
  `waitingWriters` that of tasks parked for the exclusive one, `writerActive`
  says whether a task is in it, and then it is the only one; and whoever sleeps at
  the guard without having been woken could not go on if it looked again
  (`Sleeping`), which every release, pass and cancellation has to keep;
* `Initializing`: as long as the first operation runs, it runs alone;
* `Observations`: what a call noted about session and epoch is not newer than
  they are now, and if the session it noted is still open, so is its token.

One lemma per way through the guard (enter, park, leave, abandon) serves all
actions. From `Guarded` follows `WaitersAreAwaited`: as long as somebody is parked,
somebody has been woken or holds a side of the guard and will wake the others, so a
cancelled writer leaves no reader behind. From `McpInvariant` follow
`McpTypesHold`, `SessionKeepsNewestToken`,
`NoRefreshIsWasted`, `RetriesUseNewSession`, and, with the generation as the
session, the readers as its users and the writers as its owners, the refinement
`ClientKeepsSessions`.

**`ToolRun_proofs`** (any calls, tools and length of the trace). `RunInv` says what
was executed where: while the model is asked, a stream has executed exactly what
it answered, once; after a reported result nothing is left to the runner's loop;
and the loop of a provider that only collects is at the first call that did not
run. `NoCallRunsTwice` follows. `VerdictsAreOrdered` rests on lemmas about the
operators, above all `FirstIsLeast`: the `CHOOSE` in `First` is well defined for
every set of positions that is not empty.

`SequencesAreFound` is about the loop of `tool_call_sequence`, the recursive function
`Reached`. `ReachedUpTo` shows that the function exists, by the least length for which
it would not; `ReachedSteps` that it rises by at most one with each call;
`ReachedEmbeds` that what it reached can be found in the trace in order, and
`EmbedsReached` that it is never behind any other way to find it: taking the first
match is enough.

`ResultsInv` says whose the results are: the stream answered no call twice, and its
results are the answers in the order the provider reports them; the runner's are those
of the calls before `next`. That an order of calls with all calls answered is the order
of the trace is `AllAnsweredInOrder`, from `RanksAreInOrder`. `ResultsBelongToCalls`
follows.

What one more call does is followed from the operators up: to what is selected
(`SelectedStay`, `FittingStay`, `RangedStay`), to the first of it (`FirstStays`), to the
verdicts (`ExactlyStays`, `RangeStays`: `VerdictsAreFinal`) and to the score, as
cross-multiplied fractions (`PrimaryCallsGrow`, `MultiplierGrows`, `ScoreGrows`:
`ExpectedCallsHelp`). `RunAssumption` asks that `Expected` be finite: a test file lists
its evaluators.

**`TestRun_proofs`** (any suite, periods and numbers of tries). `TestInv` adds up
time: while the wall clock of an attempt runs, what elapsed and what is left are
its limit; once it struck, everybody who takes part is in a clean-up whose end is
bounded (`WallClock`); and while the suite starts, pauses or ends, all callers rest
(`Resting`). Before the first load test there is one active caller and
the limiter's window holds the last answer or nothing, so the single sleep from
its oldest entry is enough (`LastAnswer`); and the last refusal is older than the
last answer, or someone sleeps for the rest of its minute (`LastRefusal`). Each of
these is needed for the others to be inductive: a refused request leaves nothing
in the window, and only the length of its back-off keeps the next one away.
Every step of a caller is first reduced to what it does to its own clocks
(`CallerMoves`, `CallerIsAlone`). `WallClockHolds`, `RequestsAreSpaced`,
`RefusalsAreRespected` and `TestClientsAreClosed` follow. That a set of ages has an
oldest (`OldestExists`) comes from the well-foundedness of finite sets.

**`BrowserTab_proofs`** (any tabs, runs, sockets, clicks, losses and attempts). That
a tab is never blind is not inductive: when its socket closes, one must know that
the tab still reacts to it. `BrowserInv` adds, for each tab,

* `OneAlive`: unless it overlapped, the socket that is alive is the current one, so
  every message and every end that arrives concerns the run on display;
* `WsUsed` and `TimerAlone`: the current socket is not a slot that was given back,
  and a timer runs only without one;
* `NotOver` and `Away`: a run on display had no terminal event, and a displaced tab
  had one, which is why `OnClose` does not schedule anything for it.

What the server and the network do only lets sockets fade (`ServerKeeps`); what a
tab does leaves the sockets of the others alone (`EventKeeps`), so each event is
left with its own tab. From `BrowserInvariant` follow `BrowserTypesHold`, with the
bound on `attempts`, `TabsAreNeverBlind` and `SupersededTabsStayAway`.

`ReconnectionNeverHangs` is about a tab that says it is reconnecting: it has a timer, or a
socket that is still to be made, whose end it has not seen yet, or over which the server
has a question it can answer or a message that will end the wait. A question can be
answered only if the server once had the run, so `WaitInv` says that of every run a tab,
the snapshot, a socket or a message names (`TabKnown`, `SocketKnown`), and that a socket
that was answered has more to deliver than *stopping* (`Coming`, `ReplaySpeaks`). It holds
with two sockets at a time, too.

**`Qualification_proofs`** (any targets, issuers, limits and answers). Neither of the
two properties about credentials is inductive: when the credential goes out, the
documents that led to the endpoint were read several awaits ago. `CredentialInv` adds

* `GrantInv`: a credential that was sent is being waited for or was, so no phase
  that comes later leads back to sending it, a retry of the transport included;
* `DocumentInv` with `Home`: an endpoint that may be used is the preset one or has
  the issuer of the metadata it was read from, which is expected and was advertised
  by a resource document that is kept; a document with the wrong identity leaves
  neither endpoint nor servers.

`SelectedIsTrusted` is the lemma about `_select_authorization_server`. The assumption
about `Targets` says what `build_target` and `ProbeTarget` can make. From
`CredentialInvariant` follow `GrantsAreNotRepeated` and `CredentialsGoHome`.

What the reports say is proved from `TruthInv`, on top of it. A report is folded from
checks that were made in many places; the history `flaws` says what was wrong from the
answers themselves. `TruthInv` keeps the two in step before there is a report:

* `LaneGathers` and `RunGathers`: some check so far is a failure or an error exactly if
  there is a flaw, apart from the missing token of a target that asks for none
  (`Faults`); the lane has no blocked check yet, its fixture step is empty until the
  read, and only a missing token may be a flaw while the steps are clean;
* `PhaseInv`: which phases have a token, and that its absence is recorded.

`ReturnsTell` and `SkipsTell` show this for every answer and every omission of the
probe, `SessionTells` and `RoundTripTells` for the two MCP sessions; `ReportTells` and
`StopTells` are about the folding: a lane that stops before its read has a skipped step
and is no pass. `TruthInvariant` gives `ReportsTellTruth` and `BlocksHideNothing`.

Every invariant and action property that a run checks, and each of the three
refinements, is the statement of a theorem. Only model-checked are the liveness
properties (`StopDecides`, `EveryRunFinishes`, `WatchOfFinishedRunEnds`,
`DeadRowsReconciled`, `EveryRequestEnds`, `EveryOperationEnds`, `EverySuiteEnds`,
`ReconnectionEnds`, `LateAttachSettles`, `EveryRunReports`): they need fairness and
`ENABLED`, which are outside of what the prover does. What the proofs have of them is
their safety part: permits, locks and tokens are handed on and not lost
(`NoWakeupIsLost`, `WaitersAreAwaited`, `LocksHoldTheirTasks`, `WatchersStayConnected`,
`WallClockHolds`), and a tab that waits has something to wait for
(`ReconnectionNeverHangs`).

## What is not modelled

* The chat WebSocket, the read-only REST routes, report and metric queries,
  migrations: request/response without interleavings of interest.
* Of the MCP client: the expansion of gateway tools, the kinds of authentication,
  the keyring behind `TokenManager`. `StdioMCPClient` has one sequential user at a
  time (`cli/commands/wizard.py:193`, `mcp_profiles.py:980`), so its pipe never
  sees two requests.
* Of the test runner: token estimates, cost limits, the batch runner, providers
  that run a CLI. Of the providers: wire formats, authentication, token counts.
* Of the evaluators: those of text, SQL, latency, cost and authentication, which
  are functions of one value.
* OAuth flows, auth debugging, agent and chat: adapters of remote services.
* Scrubber and offline analysis (baseline, CI gate, schema diff, comparison):
  sequential computations over text and saved results.
* Of the browser: the pages around the provider and what they display.
* Of the smoke lane and the probe: sanitising, reporters, address validation and
  pinning, the manifest of several targets.
* CLI presentation and the LLM qualification (`qualification/runner.py`).

## Plan

In this order; each with its MC module, runs, mutants and, where it is a state
machine, its inductive invariant.

1. `RunHistory` with the commands of `RunCommand` in place of its abstract runs: both
   implement `RowLifecycle`, which says what may be assumed.
2. Saving of configuration files, the CLI's session checkpoint.
