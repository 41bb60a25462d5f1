--------------------------- MODULE Qualification ---------------------------
(***************************************************************************)
(* The two programs that qualify a gateway with the OAuth probe: the smoke *)
(* lane and the probe itself.  A run is of one of them.                    *)
(***************************************************************************)
EXTENDS GatewaySmoke, ProbeRun

qualificationVars == <<probeVars, laneVars, runVars>>

QualificationInit == ProbeInit /\ LaneInit /\ RunInit

QualificationNext ==
  \/ target.program = "lane" /\ LaneNext /\ UNCHANGED runVars
  \/ target.program = "probe" /\ RunNext /\ UNCHANGED laneVars

QualificationSpec == QualificationInit /\ [][QualificationNext]_qualificationVars

(* The timer of a request ends every wait, and the code goes on.  Of the   *)
(* servers nothing is assumed: they may never answer.                      *)
FairQualificationSpec ==
  /\ QualificationSpec
  /\ WF_qualificationVars(target.program = "lane"
       /\ (LaneCode \/ LaneRequest \/ LaneRefused \/ LaneLost) /\ UNCHANGED runVars)
  /\ WF_qualificationVars(target.program = "probe"
       /\ (RunCode \/ RunRequest \/ RunLost) /\ UNCHANGED laneVars)

-----------------------------------------------------------------------------
(* A report of the lane is a pass exactly if everything that was asked for *)
(* was done and was as it should be, up to the approved read.  The probe   *)
(* exits with 0 exactly if nothing that it looked at was wrong, and, where *)
(* it is to have a token, the tools were listed with it.  (Step.status and *)
(* worst fold the checks of a run that may stop, be refused, be cut off or *)
(* lose checks anywhere.)                                                  *)
ReportTellsTruth ==
  at = "report" =>
    IF target.program = "lane"
    THEN (Report = "PASS") <=> (flaws = {} /\ "fixture" \in proved)
    ELSE (ExitCode = 0) <=>
           /\ target.urlFine
           /\ IF target.flow = "none" THEN flaws = {"token"}
              ELSE flaws = {} /\ "list" \in proved

(* A run that is reported as blocked found nothing wrong with the gateway: *)
(* it was stopped before its first request, it could not get a token for a *)
(* reason outside the gateway, or the fixture says that it writes.         *)
(* (models.py: "a FAIL or ERROR found before the lane was blocked must not *)
(* be hidden by the block".)                                               *)
BlockHidesNothing ==
  at = "report" /\ target.program = "lane" /\ Report = "BLOCKED" =>
    /\ flaws \subseteq {"token"}
    /\ BlockedSteps # {} => calls = 0
    /\ "token" \in flaws => token = "unavailable"
    /\ flaws = {} /\ BlockedSteps = {} => catalogue.fixture = "writes"

(* Credentials are on their way only to the endpoint that the operator     *)
(* configured, or to one named by metadata whose issuer is its own, is     *)
(* expected, and is the one that the trusted protected-resource metadata   *)
(* advertises, or, in the legacy profile that knows no such metadata, the  *)
(* origin of the gateway or the one expected issuer.  (discover drops the  *)
(* endpoint and the servers of a document with the wrong identity.)        *)
CredentialsStayHome ==
  at = "token" /\ call # Idle =>
    /\ prm.resource = "other" => target.legacy
    /\ \/ target.configured /\ endpoint = Configured
       \/ /\ ~target.configured
          /\ endpoint.by \in Issuers /\ endpoint.by = metadata.issuer
          /\ target.expected # {} => endpoint.by \in target.expected
          /\ \/ endpoint.by \in servers
             \/ /\ target.legacy /\ servers = {}
                /\ target.expected = {} => endpoint.by = Origin

(* A credential is sent to the token endpoint at most once, whatever fails *)
(* on the way, and a refresh token that may not be used up never, not even *)
(* by a probe of the endpoint.  (HttpxTransport: a retry or a second       *)
(* address could redeem a code or rotate a refresh token twice.)           *)
GrantsAreSingle ==
  /\ grants <= IF NonDisposable THEN 0 ELSE 1
  /\ NonDisposable => ~(at = "contract" /\ call # Idle)

(* A run ends with its report, though the gateway never answers, pages     *)
(* without end, or fails in any way.                                       *)
EveryRunReports == <>(at = "report")
=============================================================================
