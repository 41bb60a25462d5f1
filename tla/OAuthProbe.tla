----------------------------- MODULE OAuthProbe -----------------------------
(***************************************************************************)
(* Discovery and token acquisition of the OAuth probe (discover and        *)
(* acquire_token), as the programs that use them see it: one task that     *)
(* sends a request, waits, and goes on with what came back.  The servers   *)
(* at the other end answer whatever they like.                             *)
(*                                                                         *)
(* A check is its status.  Checks of the contents of a document that steer *)
(* nothing (scopes, grants, client authentication, PKCE) are the one       *)
(* "form" of the document: "sound" if all hold, "lacking" if one fails,    *)
(* "broken" if a field cannot be read.                                     *)
(***************************************************************************)
EXTENDS Naturals, FiniteSets

CONSTANTS
  Targets,  (* what a program may be asked to qualify (TargetConfig), with *)
            (* the configuration of the program itself                     *)
  Issuers,
  Origin,   (* the issuer at the root of the MCP server                    *)
  NoIssuer

ASSUME ProbeAssumption ==
  /\ Origin \in Issuers /\ Issuers \cap {NoIssuer, "invalid"} = {}
  /\ \A t \in Targets : t.program \in {"lane", "probe"} /\ t.expected \subseteq Issuers

VARIABLES
  target,      (* one of Targets                                           *)
  at,          (* the await, or the code between two, that comes next      *)
  call,        (* the request on its way: its attempt, and its address     *)
  left,        (* the candidates that _first_json has not tried            *)
  local,       (* checks of the function that runs, which it still holds   *)
  prm,         (* the protected-resource metadata                          *)
  servers,     (* the authorization servers that are trusted because of it *)
  metadata,    (* the authorization-server metadata                        *)
  endpoint,    (* token_endpoint                                           *)
  token,       (* "none", "held", or why there is none                     *)
  grants,      (* history: how often a credential went to the endpoint     *)
  proved,      (* history: the requests that were answered as they should  *)
  flaws        (* history: where something was not as it should be         *)

documentVars == <<left, prm, servers, metadata, endpoint>>
probeVars == <<target, at, call, documentVars, local, token, grants, proved, flaws>>

Idle == [attempt |-> 0, address |-> 0]
NoDocument == [resource |-> "none", issuer |-> NoIssuer]
NoEndpoint == [by |-> "nobody", form |-> "none"]
Configured == [by |-> "operator", form |-> "fine"]

ProbeInit ==
  /\ target \in Targets
  /\ at = "begin" /\ call = Idle
  /\ left = 0 /\ local = {}
  /\ prm = NoDocument /\ servers = {} /\ metadata = NoDocument
  /\ endpoint = IF target.configured THEN Configured ELSE NoEndpoint
  /\ token = "none" /\ grants = 0
  /\ proved = {} /\ flaws = {}

PolicyResult(policy, present) ==
  CASE policy = "ignore"             -> "SKIP"
    [] policy = "forbidden"          -> IF present THEN "FAIL" ELSE "PASS"
    [] policy = "required" /\ ~present  -> "FAIL"
    [] policy = "supported" /\ ~present -> "SKIP"
    [] OTHER                         -> "PASS"

Holds(b) == IF b THEN "PASS" ELSE "FAIL"

-----------------------------------------------------------------------------
(* What may come back *)

Failed(logged) == [kind |-> "failed", logged |-> logged]

NotFound == [kind |-> "404"]
Unusable == [kind |-> "unusable"]   (* another status, or not JSON *)

ResourceDocuments ==
  [kind : {"document"}, resource : {"ours", "other", "invalid"}, servers : SUBSET Issuers,
   form : {"sound", "lacking", "broken"}]

ServerDocuments ==
  [kind : {"document"}, issuer : Issuers \cup {"invalid"},
   endpoint : {"none", "fine", "unsafe", "refused", "invalid"},
   form : {"sound", "lacking", "broken", "untyped"}]

ProbeAnswers(phase) ==
  CASE phase = "challenge" ->
         {a \in [kind : {"challenge"}, expected : BOOLEAN, bearer : BOOLEAN, url : BOOLEAN] :
            a.url => a.bearer}
    [] phase = "prm"  -> {NotFound, Unusable} \cup ResourceDocuments
    [] phase = "as"   -> {NotFound, Unusable} \cup ServerDocuments
    [] phase = "oidc" -> {NotFound, Unusable} \cup [kind : {"document"}, same : BOOLEAN]
    [] phase = "contract" -> [kind : {"contract"}, status : {"PASS", "FAIL", "ERROR"}]
    [] phase = "token" ->
         [kind : {"rejected", "unreadable", "malformed", "late", "sound", "lacking"}]

(* The status of a token answer is not 200. *)
Refusing(a) == a.kind \in {"rejected", "unreadable"}

(* selected_issuer *)
Selected ==
  LET expected == target.expected
      matching == IF expected = {} THEN servers ELSE servers \cap expected
      only(S)  == IF Cardinality(S) = 1 THEN CHOOSE i \in S : TRUE ELSE NoIssuer
  IN  IF servers # {} THEN only(matching)
      ELSE IF ~target.legacy THEN NoIssuer
      ELSE IF expected # {} THEN only(expected) ELSE Origin

(* Which phases send a request, in the state that they are reached in. *)
ServerNeeded(policy) == Selected # NoIssuer /\ policy # "ignore"

NonDisposable == target.flow = "refresh_token" /\ ~target.disposable
Grant == target.flow \in {"client_credentials", "refresh_token", "authorization_code"}
Usable(e) == e.form \in {"fine", "refused"}

ProbeSends ==
  CASE at = "challenge" -> TRUE
    [] at = "prm"       -> target.prmPolicy # "ignore"
    [] at = "as"        -> ServerNeeded(target.asPolicy)
    [] at = "oidc"      -> ServerNeeded(target.oidcPolicy)
    [] at = "contract"  -> target.errorProbe /\ ~NonDisposable /\ Usable(endpoint)
    [] at = "token"     -> Grant /\ ~NonDisposable /\ Usable(endpoint) /\ target.secrets
    [] OTHER            -> FALSE

-----------------------------------------------------------------------------
(* discover *)

ChallengeReturns(result) ==
  /\ at = "challenge" /\ at' = "prm"
  /\ local' = local \cup
       IF result.kind = "failed" THEN {"ERROR"}
       ELSE {Holds(result.expected), PolicyResult("required", result.bearer)}
  /\ left' = target.wellKnown + IF result.kind = "challenge" /\ result.url THEN 1 ELSE 0
  /\ UNCHANGED <<prm, servers, metadata, endpoint, token>>

(* Mutant of NextCandidate: the same candidate again. *)
SameCandidate(result) ==
  /\ at \in {"prm", "as", "oidc"} /\ result.kind = "404" /\ left > 1
  /\ UNCHANGED <<at, local, documentVars, token>>

(* _first_json goes on with the next candidate. *)
NextCandidate(result) ==
  /\ at \in {"prm", "as", "oidc"} /\ result.kind = "404" /\ left > 1
  /\ left' = left - 1
  /\ UNCHANGED <<at, local, prm, servers, metadata, endpoint, token>>

(* Servers are advertised, and not one of them is the one to use. *)
Ambiguous == servers # {} /\ Selected = NoIssuer

(* The candidates are used up, or none was asked for. *)
Absent(phase, policy, next) ==
  /\ at = phase /\ at' = next
  /\ left' = target.wellKnown
  /\ local' = local \cup {PolicyResult(policy, FALSE)}
       \cup IF phase = "as" /\ Ambiguous THEN {"FAIL"} ELSE {}
  /\ UNCHANGED <<prm, servers, metadata, endpoint, token>>

(* Mutant of TrustedServers: the identity of the document does not matter. *)
AnyServers(document) == document.servers

(* Metadata of another resource names no server to go on with. *)
TrustedServers(document) == IF document.resource = "ours" THEN document.servers ELSE {}

ResourceReturns(result) ==
  \/ result.kind = "404" /\ left = 1 /\ Absent("prm", target.prmPolicy, "as")
  \/ /\ at = "prm" /\ at' = "as" /\ left' = target.wellKnown
     /\ result.kind \in {"failed", "unusable"}
     /\ local' = local \cup {"ERROR"}
     /\ UNCHANGED <<prm, servers, metadata, endpoint, token>>
  \/ /\ at = "prm" /\ at' = "as" /\ left' = target.wellKnown
     /\ result.kind = "document"
     /\ LET ours    == result.resource = "ours"
            trusted == TrustedServers(result)
            broken  == result.resource = "invalid" \/ result.form = "broken"
        IN  /\ prm' = [resource |-> result.resource, issuer |-> NoIssuer]
            /\ endpoint' = IF result.resource = "other" THEN NoEndpoint ELSE endpoint
            /\ servers' = IF broken THEN {} ELSE trusted
            /\ local' = local \cup {PolicyResult(target.prmPolicy, TRUE)}
                 \cup (IF result.resource # "invalid" THEN {Holds(ours)} ELSE {})
                 \cup (IF broken THEN {"ERROR"}
                       ELSE {Holds(target.legacy \/ trusted # {}), Holds(result.form = "sound")})
     /\ UNCHANGED <<metadata, token>>

ServerReturns(result) ==
  /\ at = "as"
  /\ \/ /\ result.kind = "404" /\ left = 1
        /\ Absent("as", target.asPolicy, "oidc")
     \/ /\ at' = "oidc" /\ left' = target.wellKnown
        /\ result.kind \in {"failed", "unusable"}
        /\ local' = local \cup {"ERROR"}
        /\ UNCHANGED <<prm, servers, metadata, endpoint, token>>
     \/ /\ at' = "oidc" /\ left' = target.wellKnown
        /\ result.kind = "document"
        /\ metadata' = [resource |-> "none", issuer |-> result.issuer]
        /\ LET issuerOk == /\ result.issuer = Selected
                           /\ target.expected = {} \/ result.issuer \in target.expected
               value    == IF issuerOk THEN result.endpoint ELSE "none"
               reached  == /\ result.issuer # "invalid" /\ result.form # "untyped"
                           /\ value # "invalid"
           IN  /\ endpoint' = IF ~reached THEN endpoint
                              ELSE IF target.configured THEN Configured
                              ELSE IF value = "none" THEN NoEndpoint
                              ELSE [by |-> result.issuer, form |-> value]
               /\ local' = local \cup {PolicyResult(target.asPolicy, TRUE)}
                    \cup (IF result.issuer # "invalid" THEN {Holds(issuerOk)} ELSE {})
                    \cup (IF ~reached \/ value = "refused" \/ result.form = "broken"
                          THEN {"ERROR"} ELSE {Holds(result.form = "sound")})
        /\ UNCHANGED <<prm, servers, token>>

OidcReturns(result) ==
  /\ at = "oidc"
  /\ \/ result.kind = "404" /\ left = 1 /\ Absent("oidc", target.oidcPolicy, "discovered")
     \/ /\ at' = "discovered"
        /\ local' = local \cup
             IF result.kind = "document"
             THEN {PolicyResult(target.oidcPolicy, TRUE), Holds(result.same)} ELSE {"ERROR"}
        /\ result.kind # "404"
        /\ UNCHANGED <<documentVars, token>>

-----------------------------------------------------------------------------
(* acquire_token *)

ContractReturns(result) ==
  /\ at = "contract" /\ at' = "token"
  /\ local' = local \cup {IF result.kind = "failed" THEN "ERROR" ELSE result.status}
  /\ UNCHANGED <<documentVars, token>>

(* The token was obtained, or there is none, and why. *)
Acquired(t, statuses) ==
  /\ at = "token" /\ at' = "acquired"
  /\ token' = t /\ local' = local \cup statuses
  /\ UNCHANGED documentVars

TokenReturns(result) ==
  CASE result.kind = "failed"     ->
         Acquired(IF result.logged THEN "unavailable" ELSE "malformed", {"ERROR"})
    [] result.kind = "rejected"   -> Acquired("unavailable", {"FAIL"})
    [] result.kind = "unreadable" -> Acquired("unavailable", {"ERROR"})
    [] result.kind = "malformed"  -> Acquired("malformed", {"ERROR"})
    [] result.kind = "late"       -> Acquired("malformed", {"PASS", "ERROR"})
    [] OTHER -> Acquired("held", {"PASS", Holds(result.kind = "sound")})

ProbeReturns(result) ==
  \/ ChallengeReturns(result) \/ NextCandidate(result)
  \/ ResourceReturns(result) \/ ServerReturns(result) \/ OidcReturns(result)
  \/ ContractReturns(result)
  \/ at = "token" /\ TokenReturns(result)

-----------------------------------------------------------------------------
(* The phases that need no request *)

ProbeSkips ==
  /\ ~ProbeSends
  /\ \/ Absent("prm", target.prmPolicy, "as")
     \/ Absent("as", target.asPolicy, "oidc")
     \/ Absent("oidc", target.oidcPolicy, "discovered")
     \/ /\ at = "contract" /\ at' = "token"
        /\ local' = local \cup IF target.errorProbe THEN {"SKIP"} ELSE {}
        /\ UNCHANGED <<documentVars, token>>
     \/ /\ target.flow = "bearer"
        /\ IF target.secrets
           THEN \E claims \in {"PASS", "FAIL", "SKIP"} : Acquired("held", {"PASS", claims})
           ELSE Acquired("malformed", {"ERROR"})
     \/ target.flow = "none" /\ Acquired("malformed", {"SKIP"})
     \/ Grant /\ (NonDisposable \/ Usable(endpoint)) /\ Acquired("malformed", {"ERROR"})
     \/ Grant /\ ~NonDisposable /\ ~Usable(endpoint) /\ Acquired("unavailable", {"ERROR"})
-----------------------------------------------------------------------------
(* History: what is as it should be, said of the answers themselves *)

PolicyOf(phase) ==
  [prm |-> target.prmPolicy, as |-> target.asPolicy, oidc |-> target.oidcPolicy][phase]

Fitting(phase, a) ==
  CASE a.kind = "challenge" -> a.expected /\ a.bearer
    [] a.kind = "contract"  -> a.status = "PASS"
    [] a.kind = "404"       -> left > 1 \/ PolicyOf(phase) # "required"
    [] a.kind = "document"  ->
         /\ PolicyOf(phase) # "forbidden"
         /\ phase = "prm" => /\ a.resource = "ours" /\ a.form = "sound"
                             /\ target.legacy \/ a.servers # {}
         /\ phase = "as" => /\ a.issuer = Selected /\ a.form = "sound"
                            /\ target.expected = {} \/ a.issuer \in target.expected
                            /\ a.endpoint \notin {"refused", "invalid"}
         /\ phase = "oidc" => a.same
    [] OTHER -> a.kind = "sound"

(* A phase that sends nothing is as it should be. *)
Skippable ==
  CASE at = "as"    -> target.asPolicy # "required" /\ ~Ambiguous
    [] at = "oidc"  -> target.oidcPolicy # "required"
    [] at = "token" -> token' = "held" /\ "FAIL" \notin local' \ local
    [] OTHER        -> TRUE

Judge(phase, fits) ==
  /\ proved' = IF fits THEN proved \cup {phase} ELSE proved \ {phase}
  /\ flaws'  = IF fits THEN flaws ELSE flaws \cup {phase}
=============================================================================
