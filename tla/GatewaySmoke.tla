---------------------------- MODULE GatewaySmoke ----------------------------
(***************************************************************************)
(* The gateway smoke lane (run_smoke): preflight, protocol and auth,       *)
(* bounded discovery of the tools, one approved read, and a report; over   *)
(* a transport that enforces the limits of the configuration.              *)
(***************************************************************************)
EXTENDS OAuthProbe

VARIABLES
  steps,     (* the checks of each step, and whether it says why it has none *)
  calls,     (* how many requests LimitedTransport let through               *)
  bytes,     (* total_bytes: the bodies that came back, of one unit each     *)
  catalogue  (* what tools/list has shown so far                             *)

laneVars == <<steps, calls, bytes, catalogue>>

(* What the lane asks the probe to qualify (build_target) *)
BuildTarget(c) ==
  [program |-> "lane", config |-> c,
   flow |-> c.mode, disposable |-> FALSE, secrets |-> c.secrets,
   configured |-> c.mode = "client_credentials" /\ c.configured,
   legacy |-> c.legacy, expected |-> c.expected, wellKnown |-> c.wellKnown,
   prmPolicy |-> IF c.requireMetadata THEN "required" ELSE "supported",
   asPolicy |-> IF c.mode = "client_credentials" /\ ~c.configured THEN "required" ELSE "ignore",
   oidcPolicy |-> "ignore", errorProbe |-> FALSE]

ASSUME LaneAssumption == \A t \in Targets : t.program = "lane" => ~t.errorProbe

StepIds == {"protocol_auth", "tool_discovery", "fixture_read"}
Untouched == [checks |-> {}, reason |-> FALSE]
EmptyCatalogue == [pages |-> 0, fixture |-> "absent", others |-> 0]

LaneInit ==
  /\ steps = [s \in StepIds |-> Untouched]
  /\ calls = 0 /\ bytes = 0
  /\ catalogue = EmptyCatalogue

(* run.current *)
CurrentStep ==
  CASE at = "list"                  -> "tool_discovery"
    [] at \in {"select", "fixture"} -> "fixture_read"
    [] OTHER                        -> "protocol_auth"

-----------------------------------------------------------------------------
(* The report *)

(* Mutant of Worst: a block outranks what was found before it. *)
BlockFirstWorst(statuses) ==
  IF "BLOCKED" \in statuses THEN "BLOCKED"
  ELSE IF statuses \cap {"ERROR", "SKIPPED"} # {} THEN "ERROR"
  ELSE IF "FAIL" \in statuses THEN "FAIL" ELSE "PASS"

(* worst *)
Worst(statuses) ==
  IF "ERROR" \in statuses THEN "ERROR"
  ELSE IF "FAIL" \in statuses THEN "FAIL"
  ELSE IF "BLOCKED" \in statuses THEN "BLOCKED"
  ELSE IF "SKIPPED" \in statuses THEN "ERROR" ELSE "PASS"

StepStatus(s) ==
  IF steps[s].reason /\ steps[s].checks = {} THEN "SKIPPED"
  ELSE Worst(steps[s].checks \ {"INFO"})

Report == Worst({StepStatus(s) : s \in StepIds})

(* step.checks.extend *)
Checked(s, statuses) == [steps EXCEPT ![s].checks = @ \cup statuses]

(* run.skip_unrun *)
SkipUnrun(st) ==
  [s \in StepIds |-> IF st[s].checks = {} THEN [st[s] EXCEPT !.reason = TRUE] ELSE st[s]]

(* The lane stops in its current step, with these checks. *)
StopWith(statuses) ==
  /\ steps' = SkipUnrun(Checked(CurrentStep, statuses))
  /\ at' = "report"

(* _from_probe *)
FromProbe(status, blocked) ==
  CASE status = "SKIP"                             -> "INFO"
    [] blocked /\ status \in {"FAIL", "ERROR"}     -> "BLOCKED"
    [] OTHER                                       -> status

-----------------------------------------------------------------------------
(* Before the first request, and between discover and acquire_token *)

(* The steps that preflight blocks, and the first one for a configuration  *)
(* that cannot be used at all (blocked_report).                            *)
BlockedSteps ==
  LET c == target.config
  IN  (IF ~c.usable \/ c.placeholders \/ ~c.secrets THEN {"protocol_auth"} ELSE {})
        \cup (IF c.usable /\ ~c.approved THEN {"fixture_read"} ELSE {})

Preflight ==
  /\ at = "begin"
  /\ IF BlockedSteps = {}
     THEN at' = "challenge" /\ UNCHANGED steps
     ELSE /\ at' = "report"
          /\ steps' = SkipUnrun([s \in StepIds |->
               IF s \in BlockedSteps THEN [steps[s] EXCEPT !.checks = {"BLOCKED"}] ELSE steps[s]])
  /\ UNCHANGED <<documentVars, local, token, catalogue, proved, flaws>>

(* discover has returned, and acquire_token begins. *)
Discovered ==
  /\ at = "discovered" /\ at' = "contract"
  /\ steps' = Checked("protocol_auth", {FromProbe(c, FALSE) : c \in local})
  /\ local' = {}
  /\ UNCHANGED <<documentVars, token, catalogue, proved, flaws>>

(* acquire_token has returned.  Without a token for a reason outside the   *)
(* gateway, what failed is reported as blocked.                            *)
TokenAcquired ==
  /\ at = "acquired" /\ local' = {}
  /\ LET blocked  == token = "unavailable"
         statuses == {FromProbe(c, blocked) : c \in local}
     IN  IF token = "held"
         THEN at' = "initialize" /\ steps' = Checked("protocol_auth", statuses)
         ELSE StopWith(statuses)
  /\ UNCHANGED <<documentVars, token, catalogue, proved, flaws>>

-----------------------------------------------------------------------------
(* The requests of the MCP session *)

Pages == [kind : {"page"}, fixture : {"absent", "reads", "writes", "odd"},
          others : {0, 1}, more : BOOLEAN]

SessionAnswers(phase) ==
  CASE phase = "initialize" ->
         [kind : {"status", "malformed", "rpc_error", "off_contract", "incapable", "negotiated"}]
    [] phase \in {"initialized", "dismissed"} -> [kind : {"status", "accepted"}]
    [] phase = "list"    -> Pages \cup [kind : {"status", "malformed", "rpc_error"}]
    [] phase = "fixture" -> [kind : {"status", "malformed", "rpc_error", "mismatch", "match"}]

SessionPhases == {"initialize", "initialized", "dismissed", "list", "fixture"}

(* A response that McpSession refuses to read, and one that never came. *)
NoMessage(result) == result.kind \in {"failed", "malformed"}

InitializeReturns(result) ==
  /\ at = "initialize"
  /\ CASE NoMessage(result)                    -> StopWith({"ERROR"})
       [] result.kind = "status"               -> StopWith({"FAIL"})
       [] result.kind \in {"rpc_error", "off_contract"} -> StopWith({"PASS", "FAIL"})
       [] result.kind = "incapable" ->
            at' = "dismissed" /\ steps' = Checked("protocol_auth", {"PASS", "FAIL"})
       [] OTHER ->
            at' = "initialized" /\ steps' = Checked("protocol_auth", {"PASS"})
  /\ UNCHANGED catalogue

(* The answer to a notification is not read.  A server that lacks a        *)
(* capability is told that the session begins, and is left then.           *)
InitializedReturns(result) ==
  /\ at \in {"initialized", "dismissed"}
  /\ \/ result.kind = "failed" /\ StopWith({"ERROR"})
     \/ result.kind = "status" /\ StopWith({"FAIL"})
     \/ result.kind = "accepted" /\ at = "dismissed" /\ StopWith({"PASS"})
     \/ /\ result.kind = "accepted" /\ at = "initialized"
        /\ at' = "list" /\ steps' = Checked("protocol_auth", {"PASS"})
  /\ UNCHANGED catalogue

(* A tool of a page was seen on an earlier one. *)
Duplicate(page) == catalogue.fixture # "absent" /\ page.fixture # "absent"

WithPage(page) ==
  [pages   |-> catalogue.pages + 1,
   fixture |-> IF page.fixture = "absent" THEN catalogue.fixture ELSE page.fixture,
   others  |-> catalogue.others + page.others]

ToolCount(c) == c.others + IF c.fixture = "absent" THEN 0 ELSE 1

(* Mutant of CatalogueChecks: the page cap ends the list unnoticed. *)
CappedCatalogueChecks(page, c) ==
  {Holds(ToolCount(c) <= target.config.maxTools),
   Holds(c.pages <= target.config.maxListBytes), Holds(c.fixture \in {"reads", "writes"})}

(* The catalogue is complete, within its budgets, and shows the tool that  *)
(* the configuration requires, with its arguments.                         *)
CatalogueChecks(page, c) ==
  {Holds(~page.more), Holds(ToolCount(c) <= target.config.maxTools),
   Holds(c.pages <= target.config.maxListBytes), Holds(c.fixture \in {"reads", "writes"})}

ListReturns(result) ==
  /\ at = "list"
  /\ IF result.kind = "page" /\ ~Duplicate(result)
     THEN LET c == WithPage(result)
          IN  /\ catalogue' = c
              /\ IF result.more /\ c.pages < target.config.maxPages
                 THEN UNCHANGED <<at, steps>>
                 ELSE /\ at' = "select"
                      /\ steps' = Checked("tool_discovery", CatalogueChecks(result, c))
     ELSE /\ StopWith({IF result.kind \in {"status", "rpc_error"} THEN "FAIL" ELSE "ERROR"})
          /\ UNCHANGED catalogue

(* _step_fixture up to its request.  The hints of a dispatcher say nothing *)
(* about the tool that it dispatches to.                                   *)
SelectFixture ==
  /\ at = "select"
  /\ CASE catalogue.fixture = "absent" ->
            at' = "report" /\ steps' = Checked("fixture_read", {"FAIL"})
       [] catalogue.fixture = "writes" /\ ~target.config.dispatched ->
            at' = "report" /\ steps' = Checked("fixture_read", {"PASS", "BLOCKED"})
       [] OTHER ->
            at' = "fixture" /\ steps' = Checked("fixture_read", {"PASS"})
  /\ UNCHANGED <<documentVars, local, token, catalogue, proved, flaws>>

FixtureReturns(result) ==
  /\ at = "fixture" /\ at' = "report"
  /\ steps' = Checked("fixture_read",
       CASE NoMessage(result)          -> {"ERROR"}
         [] result.kind \in {"status", "rpc_error"} -> {"FAIL"}
         [] OTHER                      -> {"PASS", Holds(result.kind = "match")})
  /\ UNCHANGED catalogue

SessionReturns(result) ==
  /\ \/ InitializeReturns(result) \/ InitializedReturns(result)
     \/ ListReturns(result) \/ FixtureReturns(result)
  /\ UNCHANGED <<documentVars, local, token>>

(* History: what is as it should be. *)
SessionFitting(phase, a) ==
  CASE phase = "initialize" -> a.kind = "negotiated"
    [] phase = "list" ->
         /\ a.kind = "page" /\ ~Duplicate(a)
         /\ LET c == WithPage(a)
            IN  IF a.more THEN c.pages < target.config.maxPages
                ELSE /\ ToolCount(c) <= target.config.maxTools /\ c.pages <= target.config.maxListBytes
                     /\ c.fixture \in {"reads", "writes"}
    [] phase = "fixture" -> a.kind = "match"
    [] OTHER -> a.kind = "accepted"

LaneFitting(a) ==
  IF at \in SessionPhases THEN SessionFitting(at, a) ELSE Fitting(at, a)

-----------------------------------------------------------------------------
(* LimitedTransport *)

LaneSends == ProbeSends \/ at \in SessionPhases

(* A form with a credential leaves for the token endpoint, unless the      *)
(* transport refuses the address.                                          *)
SendsGrant == at = "token" /\ endpoint.form = "fine"

LaneReturns(result) ==
  /\ \/ ProbeReturns(result) /\ UNCHANGED <<steps, catalogue>>
     \/ SessionReturns(result)
  /\ Judge(at, LaneFitting(result))
  /\ UNCHANGED target

LaneRequest ==
  /\ call = Idle /\ LaneSends /\ calls < target.config.maxCalls
  /\ call' = [attempt |-> 1, address |-> 1] /\ calls' = calls + 1
  /\ grants' = IF SendsGrant THEN grants + 1 ELSE grants
  /\ UNCHANGED <<target, at, documentVars, local, token, proved, flaws, steps, bytes, catalogue>>

(* max_calls: the request is not sent. *)
LaneRefused ==
  /\ call = Idle /\ LaneSends /\ calls >= target.config.maxCalls
  /\ LaneReturns(Failed(FALSE))
  /\ UNCHANGED <<call, grants, calls, bytes>>

(* max_total_bytes: the response counts, and is withheld. *)
LaneAnswer ==
  /\ call # Idle /\ call' = Idle
  /\ ~(at = "token" /\ endpoint.form = "refused")
  /\ \E a \in IF at \in SessionPhases THEN SessionAnswers(at) ELSE ProbeAnswers(at) :
       LaneReturns(IF bytes + 1 > target.config.maxBytes THEN Failed(Refusing(a)) ELSE a)
  /\ bytes' = bytes + 1
  /\ UNCHANGED <<grants, calls>>

(* The per-call timeout, or the transport gives up. *)
LaneLost ==
  /\ call # Idle /\ call' = Idle
  /\ LaneReturns(Failed(TRUE))
  /\ UNCHANGED <<grants, calls, bytes>>

(* The total timeout, or an exception that nothing expects. *)
LaneCutShort ==
  /\ call # Idle /\ call' = Idle
  /\ StopWith({"ERROR"}) /\ local' = {} /\ Judge(at, FALSE)
  /\ UNCHANGED <<target, documentVars, token, grants, calls, bytes, catalogue>>

(* The code between two awaits *)
LaneCode ==
  /\ call = Idle
  /\ \/ Preflight \/ Discovered \/ TokenAcquired \/ SelectFixture
     \/ /\ ProbeSkips /\ UNCHANGED <<steps, catalogue, proved>>
        /\ flaws' = IF Skippable THEN flaws ELSE flaws \cup {at}
  /\ UNCHANGED <<target, call, grants, calls, bytes>>

LaneNext ==
  LaneCode \/ LaneRequest \/ LaneRefused \/ LaneAnswer \/ LaneLost \/ LaneCutShort
=============================================================================
