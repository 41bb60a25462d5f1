------------------------------ MODULE ProbeRun ------------------------------
(***************************************************************************)
(* The OAuth probe's own run of one target (ProbeRunner.run_target), with  *)
(* the authenticated MCP round trip (probe_mcp), over a transport that     *)
(* retries the requests that may be sent twice (HttpxTransport.request).   *)
(***************************************************************************)
EXTENDS OAuthProbe

CONSTANT
  PageLimit  (* the pages of tools/list that probe_mcp reads *)

ASSUME PageAssumption == PageLimit \in Nat \ {0}

VARIABLES
  gathered,  (* the checks of the report                                   *)
  listed     (* the pages and the tools that were listed                   *)

runVars == <<gathered, listed>>

RunInit == gathered = {} /\ listed = [pages |-> 0, tools |-> 0]

(* exit_code *)
ExitCode ==
  IF "ERROR" \in gathered THEN 2 ELSE IF "FAIL" \in gathered THEN 1 ELSE 0

-----------------------------------------------------------------------------
(* run_target, between the functions that it calls *)

CheckTarget ==
  /\ at = "begin" /\ UNCHANGED local
  /\ IF target.urlFine
     THEN at' = "challenge" /\ gathered' = {"PASS"}
     ELSE at' = "report" /\ gathered' = {"ERROR"}

DiscoveryDone ==
  /\ at = "discovered" /\ at' = "contract"
  /\ gathered' = gathered \cup local /\ local' = {}

TokenDone ==
  /\ at = "acquired"
  /\ at' = IF token = "held" THEN "initialize" ELSE "report"
  /\ gathered' = gathered \cup local \cup IF token = "held" THEN {} ELSE {"SKIP"}
  /\ local' = {}

-----------------------------------------------------------------------------
(* probe_mcp *)

RoundTripPhases == {"initialize", "initialized", "list"}

RoundTripAnswers(phase) ==
  CASE phase = "initialize"  -> [kind : {"status", "malformed", "off_contract", "negotiated"}]
    [] phase = "initialized" -> [kind : {"status", "accepted"}]
    [] phase = "list"        -> [kind : {"status", "malformed"}]
                                  \cup [kind : {"page"}, tools : {0, 1}, more : BOOLEAN]

(* probe_mcp returns. *)
RoundTripEnds(statuses) ==
  /\ at' = "report" /\ local' = {}
  /\ gathered' = gathered \cup local \cup statuses

RoundTripGoesOn(next, statuses) ==
  /\ at' = next /\ local' = local \cup statuses /\ UNCHANGED gathered

RoundTripReturns(result) ==
  /\ at \in RoundTripPhases
  /\ CASE result.kind = "failed" -> RoundTripEnds({"ERROR"}) /\ UNCHANGED listed
       [] result.kind = "status" -> RoundTripEnds({"FAIL"}) /\ UNCHANGED listed
       [] result.kind = "malformed" ->
            /\ RoundTripEnds({"ERROR"} \cup IF at = "initialize" THEN {"PASS"} ELSE {})
            /\ UNCHANGED listed
       [] result.kind = "off_contract" -> RoundTripEnds({"PASS", "FAIL"}) /\ UNCHANGED listed
       [] result.kind = "negotiated" -> RoundTripGoesOn("initialized", {"PASS"}) /\ UNCHANGED listed
       [] result.kind = "accepted" -> RoundTripGoesOn("list", {"PASS"}) /\ UNCHANGED listed
       [] result.kind = "page" ->
            /\ listed' = [pages |-> listed.pages + 1, tools |-> listed.tools + result.tools]
            /\ CASE ~result.more -> RoundTripEnds({Holds(listed'.tools >= target.minTools)})
                 [] result.more /\ listed'.pages = PageLimit -> RoundTripEnds({"FAIL"})
                 [] OTHER -> RoundTripGoesOn("list", {})
  /\ UNCHANGED <<documentVars, token>>

(* History: what is as it should be. *)
RunFitting(a) ==
  CASE at = "initialize"  -> a.kind = "negotiated"
    [] at = "initialized" -> a.kind = "accepted"
    [] at = "list" ->
         a.kind = "page" /\ IF a.more THEN listed.pages + 1 < PageLimit
                            ELSE listed.tools + a.tools >= target.minTools
    [] OTHER -> Fitting(at, a)

-----------------------------------------------------------------------------
(* HttpxTransport.request *)

RunSends == ProbeSends \/ at \in RoundTripPhases

(* Mutant of RetrySafe: every request may be sent twice. *)
AnyRequest == call # Idle

(* The GETs of _first_json, and nothing else. *)
RetrySafe == at \in {"prm", "as", "oidc"}

CountGrant ==
  grants' = IF at = "token" /\ endpoint.form = "fine" THEN grants + 1 ELSE grants

RunRequest ==
  /\ call = Idle /\ RunSends
  /\ call' = [attempt |-> 1, address |-> 1]
  /\ CountGrant
  /\ UNCHANGED <<target, at, documentVars, local, token, proved, flaws, runVars>>

(* The next address, or, when all were tried or the server is busy, the    *)
(* next attempt.                                                           *)
RunResend ==
  /\ call # Idle /\ RetrySafe
  /\ \/ /\ call.address < target.addresses
        /\ call' = [call EXCEPT !.address = @ + 1]
     \/ /\ call.attempt <= target.retries
        /\ call' = [attempt |-> call.attempt + 1, address |-> 1]
  /\ CountGrant
  /\ UNCHANGED <<target, at, documentVars, local, token, proved, flaws, runVars>>

RunReturns(result) ==
  /\ \/ ProbeReturns(result) /\ UNCHANGED runVars
     \/ RoundTripReturns(result)
  /\ Judge(at, result.kind # "failed" /\ RunFitting(result))
  /\ call' = Idle
  /\ UNCHANGED <<target, grants>>

RunAnswer ==
  /\ call # Idle
  /\ ~(at = "token" /\ endpoint.form = "refused")
  /\ \E a \in IF at \in RoundTripPhases THEN RoundTripAnswers(at) ELSE ProbeAnswers(at) :
       RunReturns(a)

(* No attempt is left, the body cannot be read, or it is too long. *)
RunLost == call # Idle /\ RunReturns(Failed(TRUE))

(* "final containment" *)
RunUnhandled ==
  /\ call # Idle /\ call' = Idle
  /\ at' = "report" /\ local' = {} /\ gathered' = gathered \cup {"ERROR"}
  /\ Judge(at, FALSE)
  /\ UNCHANGED <<target, documentVars, token, grants, listed>>

RunCode ==
  /\ call = Idle
  /\ \/ /\ CheckTarget \/ DiscoveryDone \/ TokenDone
        /\ UNCHANGED <<documentVars, token, flaws, listed>>
     \/ /\ ProbeSkips /\ UNCHANGED runVars
        /\ flaws' = IF Skippable THEN flaws ELSE flaws \cup {at}
  /\ UNCHANGED <<target, call, grants, proved>>

RunNext == RunCode \/ RunRequest \/ RunResend \/ RunAnswer \/ RunLost \/ RunUnhandled
=============================================================================
