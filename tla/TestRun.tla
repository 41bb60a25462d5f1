------------------------------ MODULE TestRun ------------------------------
(***************************************************************************)
(* TestRunner.run_tests of src/test_runner.py: a suite of tests, one after *)
(* the other, of a provider whose API limits tokens by the minute.  Time   *)
(* passes in ticks.  Three layers of waiting meet: the limiter and the     *)
(* back-off around each request, the wall clock around each attempt of a   *)
(* test, and the retries and pauses around those.                          *)
(*                                                                         *)
(* The limiter's estimate of a request (46,000 tokens and more) is above   *)
(* its limit (40,000), so a request waits whenever anything was used in    *)
(* the last minute; how much does not matter.                              *)
(***************************************************************************)
EXTENDS Integers, Sequences, FiniteSets

CONSTANTS
  Suite,       (* the tests: [kind, auth, timeout], timeout in ticks       *)
  Steps,       (* steps of a multi-turn test                               *)
  Requests,    (* requests of a load test                                  *)
  Workers,     (* how many of them may run at a time                       *)
  LoadTimeout, (* of a load test as a whole                                *)
  Minute,      (* the limiter's window and WALL_CLOCK_SLACK_SECONDS        *)
  Buffer,      (* by how much the limiter waits longer than a minute       *)
  Pause,       (* between two tests                                        *)
  LlmTries,    (* max_retries of one request                               *)
  TestTries,   (* max_test_retries + 1                                     *)
  Grace        (* bound: a teardown hook, or a close, ends within          *)

Kinds == {"single", "multi", "auth_only", "load"}

ASSUME TestRunAssumption ==
  /\ Suite \in Seq([kind : Kinds, auth : BOOLEAN, timeout : Nat]) /\ Suite # <<>>
  /\ \A i \in DOMAIN Suite : Suite[i].kind = "auth_only" => Suite[i].auth
  /\ {Steps, Requests, Workers, LoadTimeout, Minute, Buffer, LlmTries, TestTries} \subseteq Nat \ {0}
  /\ {Pause, Grace} \subseteq Nat

VARIABLES
  test,     (* the current test                                            *)
  phase,    (* of run_tests                                                *)
  tries,    (* attempts of the test, this one included                     *)
  clock,    (* ticks left of the wall clock, or of the sleep               *)
  loadClock, (* ticks left of a load test                                  *)
  expired,  (* what struck in this attempt                                 *)
  step,     (* of a multi-turn test                                        *)
  at,       (* where each concurrent run_test awaits                       *)
  timer,    (* ticks left of what it awaits, if that is bounded            *)
  attempt,  (* of its request                                              *)
  client,   (* its MCP client for the test's own credentials               *)
  verdict,  (* its TestResult; "refused" if that mentions a rate limit     *)
  window,   (* ages of the entries of token_usage_history                  *)
  results,  (* how many tests of the suite have a result                   *)
  sinceUse, sinceRefusal, lasted  (* history: ticks since the last answer, *)
            (* since the test was refused, since the attempt began         *)

timeVars == <<clock, loadClock, timer, window, sinceUse, sinceRefusal, lasted>>
suiteVars == <<test, phase, tries, results>>
callVars == <<step, at, attempt, client, verdict>>
testVars == <<timeVars, suiteVars, callVars, expired>>

Callers == 1..Requests

Off == -1

(* Where a history counter stops: nothing depends on more than a minute.   *)
Long == Minute

Current == Suite[test]

Limit == Current.timeout + Minute

Taking == IF Current.kind = "load" THEN Callers ELSE {1}

AllDone == \A c \in Taking : at[c] = "done"

Oldest == CHOOSE x \in window : \A y \in window : y <= x

(* Mutant of LlmRetryWait: the first one is missing. *)
LlmRetryWaitLate(n) == (n - 1) * (Minute \div 2)

LlmRetryWait(n) == Minute + (n - 1) * (Minute \div 2)

TestRetryWait(n) == 2 * Minute + (n - 1) * Minute

-----------------------------------------------------------------------------
(* _run_test_with_retry: an attempt begins *)

Fresh ==
  /\ loadClock' = IF Suite[test'].kind = "load" THEN LoadTimeout ELSE Off
  /\ clock' = Suite[test'].timeout + Minute
  /\ step' = 1 /\ lasted' = 0 /\ expired' = "nothing"
  /\ at' = [c \in Callers |-> "idle"] /\ timer' = [c \in Callers |-> 0]
  /\ attempt' = [c \in Callers |-> 1] /\ client' = [c \in Callers |-> "none"]
  /\ verdict' = [c \in Callers |-> "none"]

TestRunInit ==
  /\ test = 1 /\ phase = "starting" /\ tries = 1 /\ results = 0
  /\ loadClock = (IF Suite[1].kind = "load" THEN LoadTimeout ELSE Off)
  /\ clock = Suite[1].timeout + Minute
  /\ step = 1 /\ lasted = 0 /\ expired = "nothing"
  /\ at = [c \in Callers |-> "idle"] /\ timer = [c \in Callers |-> 0]
  /\ attempt = [c \in Callers |-> 1] /\ client = [c \in Callers |-> "none"]
  /\ verdict = [c \in Callers |-> "none"]
  /\ window = {} /\ sinceUse = Long /\ sinceRefusal = Long

(* initialize() of the provider and the MCP client.                        *)
Initialized ==
  /\ phase = "starting" /\ phase' = "running"
  /\ UNCHANGED <<timeVars, test, tries, results, callVars, expired>>

(* run_tests does not catch what it raises. *)
InitializeFailed ==
  /\ phase = "starting" /\ phase' = "unwinding"
  /\ UNCHANGED <<timeVars, test, tries, results, callVars, expired>>

Goto(c, pc) == at' = [at EXCEPT ![c] = pc]

(* Mutant of Finally: only run_test closes its client. *)
FinallyOfRunTest(c) == IF Current.kind \in {"multi", "auth_only"} THEN "done" ELSE "tearing"

(* Where a caller goes when its work is done, has failed or is cancelled:  *)
(* into its finally block, if it has one.  Only run_test has hooks.        *)
Finally(c) ==
  CASE Current.kind = "multi"     -> "done"
    [] Current.kind = "auth_only" -> "closing"
    [] OTHER                      -> "tearing"

(* Mutant of AfterStrike: the wait of the limiter is not interrupted. *)
AfterStrikeUnlessWaiting(c) ==
  CASE at[c] = "waiting" -> "waiting"
    [] at[c] \in {"idle", "tearing", "closing", "done"} -> "done"
    [] OTHER -> Finally(c)

(* A cancellation in the finally block leaves it. *)
AfterStrike(c) ==
  IF at[c] \in {"idle", "tearing", "closing", "done"} THEN "done" ELSE Finally(c)

Leave(c, result) ==
  /\ Goto(c, Finally(c))
  /\ timer' = [timer EXCEPT ![c] = Grace]
  /\ verdict' = [verdict EXCEPT ![c] = result]

-----------------------------------------------------------------------------
(* run_test, run_auth_only_test, a step of run_multi_turn_test *)

MayBegin(c) ==
  /\ at[c] = "idle" /\ c \in Taking
  /\ Cardinality({d \in Callers : at[d] \notin {"idle", "done"}}) <
       (IF Current.kind = "load" THEN Workers ELSE 1)

(* A multi-turn test does not use the test's credentials.                  *)
Begin(c) ==
  /\ phase = "running" /\ MayBegin(c)
  /\ IF Current.auth /\ Current.kind # "multi"
     THEN Goto(c, "connecting") /\ client' = [client EXCEPT ![c] = "open"]
     ELSE Goto(c, "limiting") /\ UNCHANGED client
  /\ UNCHANGED <<timeVars, suiteVars, step, attempt, verdict, expired>>

(* Failed or not, an authentication is followed by the test.               *)
Connected(c) ==
  /\ at[c] = "connecting"
  /\ Goto(c, IF Current.kind = "auth_only" THEN "working" ELSE "limiting")
  /\ UNCHANGED <<timeVars, suiteVars, step, attempt, client, verdict, expired>>

(* Hooks, tools or initialization raise. *)
SetupFailed(c) ==
  /\ at[c] \in {"connecting", "limiting"} /\ attempt[c] = 1
  /\ Leave(c, "failed")
  /\ UNCHANGED <<clock, loadClock, window, sinceUse, sinceRefusal, lasted, suiteVars, step,
                 attempt, client, expired>>

(* Mutant of WaitTime: the buffer has the wrong sign. *)
WaitTimeShort == Minute - Buffer - Oldest

(* calculate_wait_time *)
WaitTime == Minute + Buffer - Oldest

LimitRequest(c) ==
  /\ at[c] = "limiting"
  /\ IF window = {}
     THEN Goto(c, "calling") /\ UNCHANGED timer
     ELSE Goto(c, "waiting") /\ timer' = [timer EXCEPT ![c] = WaitTime]
  /\ UNCHANGED <<clock, loadClock, window, sinceUse, sinceRefusal, lasted, suiteVars, step,
                 attempt, client, verdict, expired>>

(* The window is not looked at again. *)
Woken(c) ==
  /\ at[c] = "waiting" /\ timer[c] = 0
  /\ Goto(c, "calling")
  /\ UNCHANGED <<timeVars, suiteVars, step, attempt, client, verdict, expired>>

(* The provider returns; what it says may mention a rate limit.            *)
Answered(c) ==
  /\ at[c] = "calling"
  /\ Goto(c, "working")
  /\ window' = window \union {0} /\ sinceUse' = 0
  /\ \E said \in {"answered", "refused"} :
       /\ verdict' = [verdict EXCEPT ![c] = said]
       /\ sinceRefusal' = IF said = "refused" THEN 0 ELSE sinceRefusal
  /\ UNCHANGED <<clock, loadClock, timer, lasted, suiteVars, step, attempt, client, expired>>

(* It raises a rate limit error, and nothing is recorded as used.          *)
Refused(c) ==
  /\ at[c] = "calling"
  /\ sinceRefusal' = 0
  /\ IF attempt[c] < LlmTries
     THEN /\ Goto(c, "backing")
          /\ timer' = [timer EXCEPT ![c] = LlmRetryWait(attempt[c])]
          /\ UNCHANGED verdict
     ELSE Leave(c, "refused")
  /\ UNCHANGED <<clock, loadClock, window, sinceUse, lasted, suiteVars, step, attempt, client,
                 expired>>

BackedOff(c) ==
  /\ at[c] = "backing" /\ timer[c] = 0
  /\ Goto(c, "limiting")
  /\ attempt' = [attempt EXCEPT ![c] = @ + 1]
  /\ UNCHANGED <<timeVars, suiteVars, step, client, verdict, expired>>

(* It raises anything else, or so do the tools it calls or the evaluators. *)
Raised(c) ==
  /\ at[c] \in {"calling", "working"}
  /\ Leave(c, "failed")
  /\ UNCHANGED <<clock, loadClock, window, sinceUse, sinceRefusal, lasted, suiteVars, step,
                 attempt, client, expired>>

NextStep(c) ==
  /\ at[c] = "working" /\ Current.kind = "multi" /\ step < Steps
  /\ Goto(c, "limiting") /\ step' = step + 1
  /\ attempt' = [attempt EXCEPT ![c] = 1]
  /\ UNCHANGED <<timeVars, suiteVars, client, verdict, expired>>

(* A test that passes may have mentioned a rate limit. *)
Judged(c) ==
  /\ at[c] = "working" /\ (Current.kind = "multi" => step = Steps)
  /\ \E result \in {"passed", IF verdict[c] = "refused" THEN "refused" ELSE "failed"} :
       Leave(c, result)
  /\ UNCHANGED <<clock, loadClock, window, sinceUse, sinceRefusal, lasted, suiteVars, step,
                 attempt, client, expired>>

(* The hooks ran; the calls that raise are skipped. *)
TornDown(c) ==
  /\ at[c] = "tearing"
  /\ Goto(c, IF client[c] = "open" THEN "closing" ELSE "done")
  /\ timer' = [timer EXCEPT ![c] = IF client[c] = "open" THEN Grace ELSE 0]
  /\ UNCHANGED <<clock, loadClock, window, sinceUse, sinceRefusal, lasted, suiteVars, step,
                 attempt, client, verdict, expired>>

Closed(c) ==
  /\ at[c] = "closing"
  /\ Goto(c, "done")
  /\ client' = [client EXCEPT ![c] = "closed"]
  /\ timer' = [timer EXCEPT ![c] = 0]
  /\ UNCHANGED <<clock, loadClock, window, sinceUse, sinceRefusal, lasted, suiteVars, step,
                 attempt, verdict, expired>>

(* A teardown entry that is no mapping raises in the finally block itself: *)
(* the client stays as it is.  A load test counts a failed request; from a *)
(* single test nobody catches it.                                          *)
HookRaised(c) ==
  /\ at[c] = "tearing" /\ Current.kind \in {"single", "load"}
  /\ Goto(c, "done")
  /\ timer' = [timer EXCEPT ![c] = 0]
  /\ client' = [client EXCEPT ![c] = IF @ = "open" THEN "cut off" ELSE @]
  /\ IF Current.kind = "single"
     THEN phase' = "unwinding" /\ clock' = Off /\ loadClock' = Off
     ELSE UNCHANGED <<phase, clock, loadClock>>
  /\ UNCHANGED <<window, sinceUse, sinceRefusal, lasted, test, tries, results, step, attempt,
                 verdict, expired>>

-----------------------------------------------------------------------------
(* Timeouts *)

(* Everybody who takes part is cancelled. *)
CancelAll ==
  /\ at' = [c \in Callers |-> IF c \in Taking THEN AfterStrike(c) ELSE at[c]]
  /\ timer' = [c \in Callers |->
                 IF at'[c] = "done" THEN 0 ELSE IF at'[c] = at[c] THEN timer[c] ELSE Grace]
  /\ client' = [c \in Callers |->
                  IF at'[c] = "done" /\ client[c] = "open" THEN "cut off" ELSE client[c]]
  /\ UNCHANGED <<suiteVars, step, attempt, verdict, window, sinceUse, sinceRefusal, lasted>>

(* The wall clock of the attempt. *)
Strike ==
  /\ phase = "running" /\ clock = 0 /\ ~AllDone
  /\ clock' = Off /\ expired' = "test" /\ UNCHANGED loadClock
  /\ CancelAll

LoadExpires ==
  /\ phase = "running" /\ loadClock = 0 /\ ~AllDone
  /\ loadClock' = Off /\ expired' = "load" /\ UNCHANGED clock
  /\ CancelAll

-----------------------------------------------------------------------------
(* _run_test_with_retry and run_tests *)

(* Neither a timeout nor a load test's summary mentions a rate limit.      *)
WasRefused == expired = "nothing" /\ Current.kind # "load" /\ verdict[1] = "refused"

(* Mutant of Retry: it does not count. *)
RetryUncounted ==
  /\ phase = "running" /\ AllDone
  /\ WasRefused /\ tries < TestTries
  /\ phase' = "retrying" /\ clock' = TestRetryWait(tries) /\ loadClock' = Off
  /\ UNCHANGED <<test, tries, results, callVars, expired, timer, window, sinceUse, sinceRefusal,
                 lasted>>

Retry ==
  /\ phase = "running" /\ AllDone
  /\ WasRefused /\ tries < TestTries
  /\ phase' = "retrying" /\ tries' = tries + 1
  /\ clock' = TestRetryWait(tries) /\ loadClock' = Off
  /\ UNCHANGED <<test, results, callVars, expired, timer, window, sinceUse, sinceRefusal, lasted>>

Settle ==
  /\ phase = "running" /\ AllDone
  /\ ~(WasRefused /\ tries < TestTries)
  /\ results' = results + 1
  /\ phase' = IF test = Len(Suite) THEN "cleaning" ELSE "pausing"
  /\ clock' = (IF test = Len(Suite) THEN Off ELSE Pause) /\ loadClock' = Off
  /\ UNCHANGED <<test, tries, callVars, expired, timer, window, sinceUse, sinceRefusal, lasted>>

(* run_load_test lets out what is not in its list of exceptions: what its  *)
(* configuration raises before the requests, or its evaluators after them. *)
LoadRaised ==
  /\ phase = "running" /\ Current.kind = "load" /\ expired = "nothing"
  /\ AllDone \/ \A c \in Callers : at[c] = "idle"
  /\ phase' = "unwinding" /\ clock' = Off /\ loadClock' = Off
  /\ UNCHANGED <<test, tries, results, callVars, expired, timer, window, sinceUse, sinceRefusal,
                 lasted>>

TryAgain ==
  /\ phase = "retrying" /\ clock = 0
  /\ phase' = "running"
  /\ UNCHANGED <<test, tries, results, window, sinceUse, sinceRefusal>>
  /\ Fresh

NextTest ==
  /\ phase = "pausing" /\ clock = 0
  /\ phase' = "running" /\ test' = test + 1 /\ tries' = 1
  /\ sinceRefusal' = Long
  /\ UNCHANGED <<results, window, sinceUse>>
  /\ Fresh

(* cleanup() in the finally block of run_tests, which then returns the     *)
(* results, or passes on the exception that led there.                     *)
CleanedUp ==
  /\ phase \in {"cleaning", "unwinding"}
  /\ phase' = IF phase = "cleaning" THEN "ended" ELSE "lost"
  /\ UNCHANGED <<timeVars, test, tries, results, callVars, expired>>

(* Its own exception takes the results along. *)
CleanupFailed ==
  /\ phase \in {"cleaning", "unwinding"} /\ phase' = "lost"
  /\ UNCHANGED <<timeVars, test, tries, results, callVars, expired>>

-----------------------------------------------------------------------------
(* Time *)

Sleeping(c) == at[c] \in {"waiting", "backing", "tearing", "closing"}

(* Nobody is due: a request, a tool or an authentication may take any time.*)
(* How long initialize() and cleanup() take does not matter.               *)
Idle ==
  /\ phase \in {"running", "retrying", "pausing"}
  /\ clock # 0 /\ loadClock # 0
  /\ phase = "running" =>
       /\ ~AllDone
       /\ \A c \in Callers :
            /\ at[c] # "limiting" /\ ~MayBegin(c)
            /\ Sleeping(c) => timer[c] > 0

Down(n) == IF n > 0 THEN n - 1 ELSE n

Up(n) == IF n < Long THEN n + 1 ELSE n

Tick ==
  /\ Idle
  /\ clock' = Down(clock) /\ loadClock' = Down(loadClock)
  /\ timer' = [c \in Callers |-> Down(timer[c])]
  /\ window' = {age + 1 : age \in window} \ {Minute}
  /\ sinceUse' = Up(sinceUse) /\ sinceRefusal' = Up(sinceRefusal) /\ lasted' = lasted + 1
  /\ UNCHANGED <<suiteVars, callVars, expired>>

Done == phase \in {"ended", "lost"} /\ UNCHANGED testVars

TestRunNext ==
  \/ \E c \in Callers :
       \/ Begin(c) \/ Connected(c) \/ SetupFailed(c) \/ LimitRequest(c) \/ Woken(c)
       \/ Answered(c) \/ Refused(c) \/ BackedOff(c) \/ Raised(c) \/ NextStep(c) \/ Judged(c)
       \/ TornDown(c) \/ HookRaised(c) \/ Closed(c)
  \/ Initialized \/ InitializeFailed
  \/ Strike \/ LoadExpires \/ Retry \/ Settle \/ LoadRaised \/ TryAgain \/ NextTest
  \/ CleanedUp \/ CleanupFailed
  \/ Tick \/ Done

TestRunSpec == TestRunInit /\ [][TestRunNext]_testVars

(* Time passes and the event loop runs whatever is due.  initialize() and  *)
(* cleanup() come to an end, well or not: the requests of the providers    *)
(* are under httpx timeouts, those of the MCP client under its own.        *)
FairTestRunSpec == TestRunSpec /\ WF_testVars(TestRunNext)

-----------------------------------------------------------------------------
Pcs == {"idle", "connecting", "limiting", "waiting", "calling", "backing", "working",
        "tearing", "closing", "done"}

Phases == {"starting", "running", "retrying", "pausing", "cleaning", "unwinding", "ended", "lost"}

SuiteTypes ==
  /\ test \in DOMAIN Suite /\ phase \in Phases
  /\ tries \in 1..TestTries /\ results \in 0..Len(Suite)
  /\ expired \in {"nothing", "test", "load"} /\ step \in 1..Steps

CallerTypes ==
  /\ at \in [Callers -> Pcs] /\ attempt \in [Callers -> 1..LlmTries]
  /\ client \in [Callers -> {"none", "open", "closed", "cut off"}]
  /\ verdict \in [Callers -> {"none", "answered", "passed", "failed", "refused"}]

TimeTypes ==
  /\ clock \in Nat \union {Off} /\ loadClock \in Nat \union {Off}
  /\ timer \in [Callers -> Nat] /\ window \subseteq 0..Minute - 1
  /\ {sinceUse, sinceRefusal, lasted} \subseteq Nat

TestRunTypeOK == SuiteTypes /\ CallerTypes /\ TimeTypes

LoadSeen == \E i \in 1..test : Suite[i].kind = "load"

Sends(c) == at[c] # "calling" /\ at'[c] = "calling"

(* Although the limiter computes its wait once, from the oldest entry, and *)
(* never looks again, a request is only sent a minute after the last       *)
(* answer: as long as no load test ran, there is never a second entry.     *)
RequestsSpaced ==
  [][\A c \in Callers : Sends(c) /\ ~LoadSeen => sinceUse >= Minute]_testVars

(* Whichever of the two layers of retries takes it up, a test that was     *)
(* refused stays silent for a minute.                                      *)
RefusalsRespected ==
  [][\A c \in Callers : Sends(c) /\ ~LoadSeen => sinceRefusal >= Minute]_testVars

(* The MCP client with a test's own credentials does not outlive the test, *)
(* whatever raised or was cancelled where, except when a timeout strikes a *)
(* caller that is in its finally block already, or that block raises.      *)
TestClientsClosed ==
  [][\A c \in Callers :
       /\ phase' # "running" => client'[c] # "open"
       /\ client[c] = "open" /\ client'[c] = "cut off" => at[c] \in {"tearing", "closing"}]_testVars

(* The wall clock holds: no attempt takes longer than its limit and the    *)
(* clean-up that follows, stuck stream or not.                             *)
NoTestOverruns == phase = "running" => lasted <= Limit + 2 * Grace

(* However often it is refused, delayed or stuck, a suite ends with every  *)
(* test having a result, unless an exception that nobody catches loses all *)
(* of them: of initialize() or cleanup(), of a load test outside the list  *)
(* in run_load_test, of a teardown entry that is no mapping.               *)
EverySuiteEnds == <>(\/ phase = "ended" /\ results = Len(Suite)
                     \/ phase = "lost")
=============================================================================
