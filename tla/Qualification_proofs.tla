------------------------ MODULE Qualification_proofs ------------------------
(***************************************************************************)
(* Theorems about Qualification: where credentials go and how often, and   *)
(* what the reports say, for any targets, any issuers, any limits and      *)
(* whatever the servers answer.                                            *)
(***************************************************************************)
EXTENDS Qualification, FiniteSetTheorems, TLAPS

(* The phases in which a credential may have been sent already *)
Spent == {"acquired", "initialize", "initialized", "dismissed", "list", "select",
          "fixture", "report"}

(* A credential that was sent is being waited for, or was.  Whoever waits  *)
(* at the token endpoint may, and at one that may be used.                 *)
GrantInv ==
  /\ grants \in {0, 1}
  /\ grants = 1 => /\ ~NonDisposable
                   /\ at \in Spent \/ (at = "token" /\ call # Idle)
  /\ at \in {"contract", "token"} /\ call # Idle => ~NonDisposable /\ Usable(endpoint)

(* An endpoint that may be used, by the identities that led to it *)
Home ==
  /\ prm.resource = "other" => target.legacy
  /\ IF target.configured THEN endpoint = Configured
     ELSE /\ endpoint.by \in Issuers /\ endpoint.by = metadata.issuer
          /\ target.expected # {} => endpoint.by \in target.expected
          /\ \/ endpoint.by \in servers
             \/ /\ target.legacy /\ servers = {}
                /\ target.expected = {} => endpoint.by = Origin

(* What the documents left behind, phase by phase *)
DocumentInv ==
  /\ servers \subseteq Issuers
  /\ prm.resource = "other" => servers = {}
  /\ Usable(endpoint) => Home
  /\ at \in {"begin", "challenge", "prm", "as"} /\ ~target.configured => endpoint = NoEndpoint
  /\ at \in {"begin", "challenge", "prm"} => servers = {} /\ prm = NoDocument
  /\ at = "as" /\ call # Idle => Selected # NoIssuer

(* The inductive invariant *)
CredentialInv == target \in Targets /\ GrantInv /\ DocumentInv

-----------------------------------------------------------------------------
LEMMA NoEndpointUnusable == ~Usable(NoEndpoint)
BY DEF Usable, NoEndpoint

(* The selected issuer comes from the servers that are trusted, or, where  *)
(* there are none, from the operator or from the gateway itself.           *)
LEMMA SelectedIsTrusted ==
  ASSUME target \in Targets, servers \subseteq Issuers, Selected # NoIssuer
  PROVE  /\ Selected \in Issuers
         /\ target.expected # {} => Selected \in target.expected
         /\ \/ Selected \in servers
            \/ /\ target.legacy /\ servers = {}
               /\ target.expected = {} => Selected = Origin
<1> DEFINE matching == IF target.expected = {} THEN servers ELSE servers \cap target.expected
           only(S)  == IF Cardinality(S) = 1 THEN CHOOSE i \in S : TRUE ELSE NoIssuer
<1>1. target.expected \subseteq Issuers /\ Origin \in Issuers
  BY ProbeAssumption
<1>2. \A S : only(S) # NoIssuer => only(S) \in S
  BY FS_EmptySet
<1>3. Selected = IF servers # {} THEN only(matching)
                 ELSE IF ~target.legacy THEN NoIssuer
                 ELSE IF target.expected # {} THEN only(target.expected) ELSE Origin
  BY DEF Selected
<1> HIDE DEF only
<1>4. CASE servers # {}
  <2>1. Selected = only(matching)
    BY <1>3, <1>4
  <2>2. Selected \in matching
    BY <1>2, <2>1
  <2> QED  BY <1>1, <2>2
<1>5. CASE servers = {}
  BY <1>1, <1>2, <1>3, <1>5
<1> QED  BY <1>4, <1>5

(* The phases of discover and acquire_token *)
ProbePhases == {"challenge", "prm", "as", "oidc", "contract", "token"}

(* The steps of the probe keep to their order. *)
LEMMA ReturnsAreOrdered ==
  ASSUME NEW result, ProbeReturns(result)
  PROVE  /\ at \in ProbePhases /\ at' \in ProbePhases \cup Spent \cup {"discovered"}
         /\ at = "token" => at' = "acquired"
         /\ at' \in {"challenge", "prm"} => at \in {"challenge", "prm"}
         /\ at' = "as" => at \in {"prm", "as"}
BY DEF ProbeReturns, ChallengeReturns, NextCandidate, ResourceReturns, ServerReturns, OidcReturns,
       ContractReturns, TokenReturns, Acquired, Absent, ProbePhases, Spent

LEMMA SkipsAreOrdered ==
  ASSUME ProbeSkips, at \in ProbePhases
  PROVE  /\ at' \in ProbePhases \cup Spent \cup {"discovered"}
         /\ at = "token" => at' = "acquired"
         /\ at' \notin {"begin", "challenge", "prm"}
         /\ at' = "as" => at = "prm"
         /\ UNCHANGED <<prm, servers, metadata, endpoint>>
BY DEF ProbeSkips, Acquired, Absent, ProbePhases, Spent, documentVars

(* What came back leaves an endpoint only where it may be used. *)
LEMMA ReturnsKeepDocuments ==
  ASSUME target \in Targets, DocumentInv, NEW result,
         ProbeReturns(result), target' = target, call' = Idle,
         result \in ProbeAnswers(at) \/ result.kind = "failed",
         at = "as" => Selected # NoIssuer
  PROVE  DocumentInv'
<1> USE DEF DocumentInv
<1>1. CASE UNCHANGED <<prm, servers, metadata, endpoint>>
  <2>1. Home' <=> Home
    BY <1>1 DEF Home
  <2>2. Usable(endpoint)' <=> Usable(endpoint)
    BY <1>1 DEF Usable
  <2>3. at' \in {"begin", "challenge", "prm", "as"} => at \in {"begin", "challenge", "prm", "as"}
    BY ReturnsAreOrdered DEF ProbePhases, Spent
  <2>4. at' \in {"begin", "challenge", "prm"} => at \in {"begin", "challenge", "prm"}
    BY ReturnsAreOrdered DEF ProbePhases, Spent
  <2> QED  BY <1>1, <2>1, <2>2, <2>3, <2>4 DEF Idle
<1>2. CASE at = "prm" /\ ~UNCHANGED <<prm, servers, metadata, endpoint>>
  <2> DEFINE trusted == TrustedServers(result)
             broken  == result.resource = "invalid" \/ result.form = "broken"
  <2>1. /\ result.kind = "document" /\ at' = "as"
        /\ prm' = [resource |-> result.resource, issuer |-> NoIssuer]
        /\ endpoint' = IF result.resource = "other" THEN NoEndpoint ELSE endpoint
        /\ servers' = IF broken THEN {} ELSE trusted
        /\ UNCHANGED metadata
    BY <1>2 DEF ProbeReturns, ChallengeReturns, NextCandidate, ResourceReturns, ServerReturns,
       OidcReturns, ContractReturns, Absent
  <2>2. result \in ResourceDocuments
    BY <1>2, <2>1 DEF ProbeAnswers, NotFound, Unusable
  <2>3. servers' \subseteq Issuers /\ (prm'.resource = "other" => servers' = {})
    BY <2>1, <2>2 DEF ResourceDocuments, TrustedServers
  <2>4. ~target.configured => endpoint' = NoEndpoint
    BY <1>2, <2>1
  <2>5. Usable(endpoint)' => Home'
    <3>1. SUFFICES ASSUME Usable(endpoint)' PROVE Home'
      OBVIOUS
    <3>2. endpoint' # NoEndpoint
      BY <3>1, NoEndpointUnusable DEF Usable
    <3>3. target.configured /\ endpoint' = endpoint /\ prm'.resource # "other"
      BY <2>1, <2>4, <3>2
    <3>4. Usable(endpoint)
      BY <3>1, <3>3 DEF Usable
    <3> QED  BY <3>3, <3>4 DEF Home
  <2> QED  BY <2>1, <2>3, <2>4, <2>5
<1>3. CASE at = "as" /\ ~UNCHANGED <<prm, servers, metadata, endpoint>>
  <2> DEFINE issuerOk == /\ result.issuer = Selected
                         /\ target.expected = {} \/ result.issuer \in target.expected
             value    == IF issuerOk THEN result.endpoint ELSE "none"
             reached  == /\ result.issuer # "invalid" /\ result.form # "untyped"
                         /\ value # "invalid"
  <2>1. /\ at' = "oidc" /\ UNCHANGED <<prm, servers>>
        /\ metadata' = [resource |-> "none", issuer |-> result.issuer]
        /\ endpoint' = IF ~reached THEN endpoint
                       ELSE IF target.configured THEN Configured
                       ELSE IF value = "none" THEN NoEndpoint
                       ELSE [by |-> result.issuer, form |-> value]
    BY <1>3 DEF ProbeReturns, ChallengeReturns, NextCandidate, ResourceReturns, ServerReturns,
       OidcReturns, ContractReturns, Absent
  <2>2. /\ Selected \in Issuers
        /\ target.expected # {} => Selected \in target.expected
        /\ \/ Selected \in servers
           \/ /\ target.legacy /\ servers = {}
              /\ target.expected = {} => Selected = Origin
    BY <1>3, SelectedIsTrusted
  <2>3. prm.resource = "other" => target.legacy
    BY <2>2
  <2>4. Usable(endpoint)' => Home'
    <3>1. SUFFICES ASSUME Usable(endpoint)' PROVE Home'
      OBVIOUS
    <3>2. endpoint' # NoEndpoint
      BY <3>1, NoEndpointUnusable DEF Usable
    <3>3. CASE target.configured
      <4>1. endpoint' = Configured
        <5>1. CASE reached
          BY <2>1, <3>3, <5>1
        <5>2. CASE ~reached
          <6>1. endpoint' = endpoint
            BY <2>1, <5>2
          <6>2. Usable(endpoint)
            BY <3>1, <6>1 DEF Usable
          <6> QED  BY <3>3, <6>1, <6>2 DEF Home
        <5> QED  BY <5>1, <5>2
      <4> QED  BY <2>1, <2>3, <3>3, <4>1 DEF Home
    <3>4. CASE ~target.configured
      <4>1. endpoint = NoEndpoint
        BY <1>3, <3>4
      <4>2. endpoint' = [by |-> result.issuer, form |-> value] /\ value # "none"
        BY <2>1, <3>2, <3>4, <4>1
      <4>3. result.issuer = Selected
        BY <4>2
      <4>4. endpoint'.by = Selected /\ metadata'.issuer = Selected
        BY <2>1, <4>2, <4>3
      <4> QED  BY <2>1, <2>2, <2>3, <3>4, <4>4 DEF Home
    <3> QED  BY <3>3, <3>4
  <2> QED  BY <2>1, <2>4
<1>4. at \in {"prm", "as"} \/ UNCHANGED <<prm, servers, metadata, endpoint>>
  BY DEF ProbeReturns, ChallengeReturns, NextCandidate, ResourceReturns, ServerReturns, OidcReturns,
     ContractReturns, TokenReturns, Acquired, Absent, documentVars
<1> QED  BY <1>1, <1>2, <1>3, <1>4

-----------------------------------------------------------------------------
(* Steps of either program *)

(* A probe request returns, with an answer or without. *)
LEMMA ProbeAnswered ==
  ASSUME CredentialInv, NEW result, ProbeReturns(result), target' = target, call' = Idle,
         grants' = grants, result \in ProbeAnswers(at) \/ result.kind = "failed",
         call # Idle \/ ProbeSends
  PROVE  CredentialInv'
<1> USE DEF CredentialInv
<1>1. at = "as" => Selected # NoIssuer
  BY DEF DocumentInv, ProbeSends, ServerNeeded
<1>2. DocumentInv'
  BY <1>1, ReturnsKeepDocuments
<1>3. GrantInv'
  <2>1. at \notin Spent /\ (at = "token" => at' = "acquired")
    BY ReturnsAreOrdered DEF ProbePhases, Spent
  <2>2. grants = 1 => at' \in Spent
    BY <2>1 DEF GrantInv, Spent
  <2>3. NonDisposable' <=> NonDisposable
    BY DEF NonDisposable
  <2> QED  BY <2>2, <2>3 DEF GrantInv
<1> QED  BY <1>2, <1>3

(* Code between two awaits, which sends nothing and reads no document *)
LEMMA CodeKeeps ==
  ASSUME CredentialInv, target' = target, call = Idle, call' = call, grants' = grants,
         UNCHANGED <<prm, servers, metadata, endpoint>>,
         at \in Spent => at' \in Spent, at = "token" => at' \in Spent,
         at' \in {"begin", "challenge", "prm"} => at \in {"begin", "challenge", "prm"},
         at' = "as" => at \in {"prm", "as"}
  PROVE  CredentialInv'
<1>1. Home' <=> Home
  BY DEF Home
<1>2. (Usable(endpoint)' <=> Usable(endpoint)) /\ (NonDisposable' <=> NonDisposable)
  BY DEF Usable, NonDisposable
<1>3. GrantInv'
  BY <1>2 DEF CredentialInv, GrantInv
<1>4. DocumentInv'
  BY <1>1, <1>2 DEF CredentialInv, DocumentInv
<1> QED  BY <1>3, <1>4 DEF CredentialInv

(* A request ends in a phase after the token, or the run is given up. *)
LEMMA Over ==
  ASSUME CredentialInv, target' = target, call' = Idle, grants' = grants,
         UNCHANGED <<prm, servers, metadata, endpoint>>,
         at' \in Spent
  PROVE  CredentialInv'
<1>1. Home' <=> Home
  BY DEF Home
<1>2. (Usable(endpoint)' <=> Usable(endpoint)) /\ (NonDisposable' <=> NonDisposable)
  BY DEF Usable, NonDisposable
<1>3. GrantInv'
  BY <1>2 DEF CredentialInv, GrantInv, Spent
<1>4. DocumentInv'
  BY <1>1, <1>2 DEF CredentialInv, DocumentInv, Spent
<1> QED  BY <1>3, <1>4 DEF CredentialInv

(* A request is sent, for the first time or again. *)
LEMMA Sent ==
  ASSUME CredentialInv, UNCHANGED <<target, at, documentVars>>, call' # Idle \/ at # "token",
         call # Idle \/ ProbeSends \/ at \in Spent,
         \/ grants' = grants
         \/ call = Idle /\ at = "token" /\ grants' = grants + 1
  PROVE  CredentialInv'
<1> USE DEF CredentialInv
<1>1. Home' <=> Home
  BY DEF Home, documentVars
<1>2. (Usable(endpoint)' <=> Usable(endpoint)) /\ (NonDisposable' <=> NonDisposable)
  BY DEF Usable, NonDisposable, documentVars
<1>3. GrantInv'
  <2>1. at \in {"contract", "token"} => ~NonDisposable /\ Usable(endpoint)
    BY DEF GrantInv, ProbeSends, Spent
  <2>2. at = "token" /\ call = Idle => grants = 0
    BY DEF GrantInv, Spent
  <2> QED  BY <1>2, <2>1, <2>2 DEF GrantInv
<1>4. DocumentInv'
  <2>1. at = "as" => Selected # NoIssuer
    BY DEF DocumentInv, ProbeSends, ServerNeeded, Spent
  <2>2. Selected' = Selected
    BY DEF Selected, documentVars
  <2> QED  BY <1>1, <1>2, <2>1, <2>2 DEF DocumentInv, documentVars
<1> QED  BY <1>3, <1>4

-----------------------------------------------------------------------------
(* The smoke lane *)

LEMMA LaneReturnsKeep ==
  ASSUME CredentialInv, NEW result, LaneReturns(result), call' = Idle, grants' = grants,
         \/ at \notin SessionPhases /\ result \in ProbeAnswers(at)
         \/ at \in SessionPhases
         \/ result.kind = "failed",
         call # Idle \/ LaneSends
  PROVE  CredentialInv'
<1>1. target' = target
  BY DEF LaneReturns
<1>2. CASE ProbeReturns(result)
  <2>1. at \notin SessionPhases
    BY <1>2, ReturnsAreOrdered DEF ProbePhases, SessionPhases
  <2>2. call # Idle \/ ProbeSends
    BY <2>1 DEF LaneSends
  <2> QED  BY <1>1, <1>2, <2>1, <2>2, ProbeAnswered
<1>3. CASE SessionReturns(result)
  <2>1. at' \in Spent
    BY <1>3 DEF SessionReturns, InitializeReturns, InitializedReturns, ListReturns, FixtureReturns,
       StopWith, Spent
  <2> QED  BY <1>1, <1>3, <2>1, Over DEF SessionReturns, documentVars
<1> QED  BY <1>2, <1>3 DEF LaneReturns

LEMMA LaneKeeps ==
  ASSUME CredentialInv, LaneNext
  PROVE  CredentialInv'
<1>1. CASE LaneCode
  <2>1. /\ call = Idle /\ UNCHANGED <<target, call, grants>>
    BY <1>1 DEF LaneCode
  <2>2. CASE Preflight \/ Discovered \/ TokenAcquired \/ SelectFixture
    <3>1. /\ UNCHANGED <<prm, servers, metadata, endpoint>>
          /\ at \in Spent => at' \in Spent
          /\ at # "token" /\ at' # "as"
          /\ at' \in {"begin", "challenge", "prm"} => at = "begin"
      BY <2>2 DEF Preflight, Discovered, TokenAcquired, SelectFixture, StopWith, documentVars, Spent
    <3> QED  BY <2>1, <3>1, CodeKeeps
  <2>3. CASE ProbeSkips
    <3>1. at \in ProbePhases
      BY <2>3 DEF ProbeSkips, Absent, Acquired, ProbePhases
    <3>2. at \notin Spent
      BY <3>1 DEF ProbePhases, Spent
    <3>3. at = "token" => at' \in Spent
      BY <2>3, <3>1, SkipsAreOrdered DEF Spent
    <3> QED  BY <2>1, <2>3, <3>1, <3>2, <3>3, SkipsAreOrdered, CodeKeeps
  <2> QED  BY <1>1, <2>2, <2>3 DEF LaneCode
<1>2. CASE LaneRequest
  <2>1. call' # Idle
    BY <1>2 DEF LaneRequest, Idle
  <2>2. at \in SessionPhases => at \in Spent
    BY DEF SessionPhases, Spent
  <2> QED  BY <1>2, <2>1, <2>2, Sent DEF LaneRequest, LaneSends, SendsGrant
<1>3. CASE LaneRefused
  BY <1>3, LaneReturnsKeep DEF LaneRefused, Failed
<1>4. CASE LaneAnswer
  <2>1. PICK a \in IF at \in SessionPhases THEN SessionAnswers(at) ELSE ProbeAnswers(at) :
          LaneReturns(IF bytes + 1 > target.config.maxBytes THEN Failed(Refusing(a)) ELSE a)
    BY <1>4 DEF LaneAnswer
  <2>2. CASE bytes + 1 > target.config.maxBytes
    BY <1>4, <2>1, <2>2, LaneReturnsKeep DEF LaneAnswer, Failed
  <2>3. CASE ~(bytes + 1 > target.config.maxBytes)
    BY <1>4, <2>1, <2>3, LaneReturnsKeep DEF LaneAnswer
  <2> QED  BY <2>2, <2>3
<1>5. CASE LaneLost
  BY <1>5, LaneReturnsKeep DEF LaneLost, Failed
<1>6. CASE LaneCutShort
  BY <1>6, Over DEF LaneCutShort, StopWith, documentVars, Spent
<1> QED  BY <1>1, <1>2, <1>3, <1>4, <1>5, <1>6 DEF LaneNext

-----------------------------------------------------------------------------
(* The probe *)

LEMMA RunReturnsKeep ==
  ASSUME CredentialInv, NEW result, RunReturns(result), call # Idle,
         \/ at \notin RoundTripPhases /\ result \in ProbeAnswers(at)
         \/ at \in RoundTripPhases /\ result \in RoundTripAnswers(at)
         \/ result.kind = "failed"
  PROVE  CredentialInv'
<1>1. target' = target /\ grants' = grants /\ call' = Idle
  BY DEF RunReturns
<1>2. CASE ProbeReturns(result)
  <2>1. at \notin RoundTripPhases
    BY <1>2, ReturnsAreOrdered DEF ProbePhases, RoundTripPhases
  <2> QED  BY <1>1, <1>2, <2>1, ProbeAnswered
<1>3. CASE RoundTripReturns(result)
  <2>1. at' \in Spent
    <3>1. result.kind \in {"failed", "status", "malformed", "off_contract", "negotiated",
                           "accepted", "page"}
      BY <1>3 DEF RoundTripReturns, RoundTripAnswers, RoundTripPhases, ProbeAnswers
    <3> QED  BY <1>3, <3>1 DEF RoundTripReturns, RoundTripEnds, RoundTripGoesOn, Spent
  <2> QED  BY <1>1, <1>3, <2>1, Over DEF RoundTripReturns, documentVars
<1> QED  BY <1>2, <1>3 DEF RunReturns

LEMMA RunKeeps ==
  ASSUME CredentialInv, RunNext
  PROVE  CredentialInv'
<1>1. CASE RunCode
  <2>1. /\ call = Idle /\ UNCHANGED <<target, call, grants>>
    BY <1>1 DEF RunCode
  <2>2. CASE CheckTarget \/ DiscoveryDone \/ TokenDone
    <3>1. /\ at \in Spent => at' \in Spent
          /\ at # "token" /\ at' # "as"
          /\ at' \in {"begin", "challenge", "prm"} => at = "begin"
      BY <2>2 DEF CheckTarget, DiscoveryDone, TokenDone, Spent
    <3>2. UNCHANGED documentVars
      BY <1>1, <2>2 DEF RunCode, CheckTarget, DiscoveryDone, TokenDone, ProbeSkips, Absent, Acquired
    <3> QED  BY <2>1, <3>1, <3>2, CodeKeeps DEF documentVars
  <2>3. CASE ProbeSkips
    <3>1. at \in ProbePhases
      BY <2>3 DEF ProbeSkips, Absent, Acquired, ProbePhases
    <3>2. at \notin Spent
      BY <3>1 DEF ProbePhases, Spent
    <3>3. at = "token" => at' \in Spent
      BY <2>3, <3>1, SkipsAreOrdered DEF Spent
    <3> QED  BY <2>1, <2>3, <3>1, <3>2, <3>3, SkipsAreOrdered, CodeKeeps
  <2> QED  BY <1>1, <2>2, <2>3 DEF RunCode
<1>2. CASE RunRequest
  <2>1. call' # Idle
    BY <1>2 DEF RunRequest, Idle
  <2>2. at \in RoundTripPhases => at \in Spent
    BY DEF RoundTripPhases, Spent
  <2> QED  BY <1>2, <2>1, <2>2, Sent DEF RunRequest, RunSends, CountGrant
<1>3. CASE RunResend
  <2>1. grants' = grants
    BY <1>3 DEF RunResend, RetrySafe, CountGrant
  <2>2. at # "token"
    BY <1>3 DEF RunResend, RetrySafe
  <2> QED  BY <1>3, <2>1, <2>2, Sent DEF RunResend
<1>4. CASE RunAnswer
  <2>1. PICK a \in IF at \in RoundTripPhases THEN RoundTripAnswers(at) ELSE ProbeAnswers(at) :
          RunReturns(a)
    BY <1>4 DEF RunAnswer
  <2> QED  BY <1>4, <2>1, RunReturnsKeep DEF RunAnswer
<1>5. CASE RunLost
  BY <1>5, RunReturnsKeep DEF RunLost, Failed
<1>6. CASE RunUnhandled
  BY <1>6, Over DEF RunUnhandled, documentVars, Spent
<1> QED  BY <1>1, <1>2, <1>3, <1>4, <1>5, <1>6 DEF RunNext

-----------------------------------------------------------------------------
LEMMA InitKeeps == QualificationInit => CredentialInv
<1> SUFFICES ASSUME QualificationInit PROVE CredentialInv
  OBVIOUS
<1>1. /\ target \in Targets /\ at = "begin" /\ call = Idle
      /\ prm = NoDocument /\ servers = {} /\ metadata = NoDocument
      /\ endpoint = IF target.configured THEN Configured ELSE NoEndpoint
      /\ grants = 0
  BY DEF QualificationInit, ProbeInit
<1>2. GrantInv
  BY <1>1 DEF GrantInv
<1>3. prm.resource = "none"
  BY <1>1 DEF NoDocument
<1>4. Usable(endpoint) => Home
  BY <1>1, <1>3, NoEndpointUnusable DEF Home
<1>5. DocumentInv
  BY <1>1, <1>3, <1>4 DEF DocumentInv
<1> QED  BY <1>1, <1>2, <1>5 DEF CredentialInv

(* The invariant of both programs, whatever the servers answer, the        *)
(* limits cut off and the transport sends again.                           *)
THEOREM CredentialInvariant == QualificationSpec => []CredentialInv
<1>1. CredentialInv /\ [QualificationNext]_qualificationVars => CredentialInv'
  <2> SUFFICES ASSUME CredentialInv, [QualificationNext]_qualificationVars
               PROVE  CredentialInv'
    OBVIOUS
  <2>1. CASE LaneNext
    BY <2>1, LaneKeeps
  <2>2. CASE RunNext
    BY <2>2, RunKeeps
  <2>3. CASE UNCHANGED qualificationVars
    BY <2>3 DEF qualificationVars, probeVars, documentVars, CredentialInv, GrantInv, DocumentInv,
       Home, Usable, Selected, NonDisposable
  <2> QED  BY <2>1, <2>2, <2>3 DEF QualificationNext
<1> QED  BY InitKeeps, <1>1, PTL DEF QualificationSpec

(* A credential is sent to the token endpoint at most once, and a refresh  *)
(* token that may not be used up never (acquire_token, and the retries of  *)
(* HttpxTransport.request).                                                *)
THEOREM GrantsAreNotRepeated == QualificationSpec => []GrantsAreSingle
<1>1. CredentialInv => GrantsAreSingle
  BY DEF CredentialInv, GrantInv, GrantsAreSingle
<1> QED  BY CredentialInvariant, <1>1, PTL

(* A credential is on its way only to an endpoint of the operator, or of   *)
(* metadata that the trusted issuer gave of itself (discover).             *)
THEOREM CredentialsGoHome == QualificationSpec => []CredentialsStayHome
<1>1. CredentialInv => CredentialsStayHome
  BY DEF CredentialInv, GrantInv, DocumentInv, Home, CredentialsStayHome
<1> QED  BY CredentialInvariant, <1>1, PTL

-----------------------------------------------------------------------------
(* Checks and reports, of any records                                      *)

(* The checks that say that something was wrong, before the report *)
Dirty(S) == S \cap {"FAIL", "ERROR"} # {}

ProbeStatuses == {"PASS", "FAIL", "ERROR", "SKIP"}
CheckStatuses == {"PASS", "FAIL", "ERROR", "BLOCKED", "INFO"}
StepRecords == [StepIds -> [checks : SUBSET CheckStatuses, reason : BOOLEAN]]

LEMMA DirtyUnion == \A S, T : Dirty(S \cup T) <=> Dirty(S) \/ Dirty(T)
BY DEF Dirty

LEMMA DirtyOne == \A s : Dirty({s}) <=> s \in {"FAIL", "ERROR"}
BY DEF Dirty

LEMMA DirtyNone == ~Dirty({})
BY DEF Dirty

(* Report and StepStatus of any records *)
StatusIn(st, s) ==
  IF st[s].reason /\ st[s].checks = {} THEN "SKIPPED" ELSE Worst(st[s].checks \ {"INFO"})

ReportIn(st) == Worst({StatusIn(st, s) : s \in StepIds})

LEMMA ReportIsIn == Report = ReportIn(steps) /\ Report' = ReportIn(steps')
BY DEF Report, ReportIn, StepStatus, StatusIn

(* What the status of a step says of it *)
LEMMA StatusTells ==
  ASSUME NEW st \in StepRecords, NEW s \in StepIds
  PROVE  /\ StatusIn(st, s) \in {"ERROR", "FAIL"} <=> Dirty(st[s].checks)
         /\ StatusIn(st, s) = "BLOCKED" => "BLOCKED" \in st[s].checks
         /\ "BLOCKED" \in st[s].checks => StatusIn(st, s) \in {"ERROR", "FAIL", "BLOCKED"}
         /\ StatusIn(st, s) = "SKIPPED" <=> st[s].reason /\ st[s].checks = {}
<1>1. st[s].checks \subseteq CheckStatuses
  BY DEF StepRecords
<1>2. "SKIPPED" \notin st[s].checks \ {"INFO"}
  BY <1>1 DEF CheckStatuses
<1> QED  BY <1>1, <1>2 DEF StatusIn, Worst, Dirty

(* When a report is a pass, and what one that is blocked implies *)
LEMMA ReportTells ==
  ASSUME NEW st \in StepRecords
  PROVE  /\ ReportIn(st) = "PASS" <=>
              \A s \in StepIds : /\ ~Dirty(st[s].checks) /\ "BLOCKED" \notin st[s].checks
                                 /\ ~(st[s].reason /\ st[s].checks = {})
         /\ ReportIn(st) = "BLOCKED" => /\ \A s \in StepIds : ~Dirty(st[s].checks)
                                        /\ \E s \in StepIds : "BLOCKED" \in st[s].checks
<1> DEFINE all == {StatusIn(st, s) : s \in StepIds}
<1>1. /\ "ERROR" \in all <=> \E s \in StepIds : StatusIn(st, s) = "ERROR"
      /\ "FAIL" \in all <=> \E s \in StepIds : StatusIn(st, s) = "FAIL"
      /\ "BLOCKED" \in all <=> \E s \in StepIds : StatusIn(st, s) = "BLOCKED"
      /\ "SKIPPED" \in all <=> \E s \in StepIds : StatusIn(st, s) = "SKIPPED"
  OBVIOUS
<1>2. /\ ReportIn(st) = "PASS" <=> all \cap {"ERROR", "FAIL", "BLOCKED", "SKIPPED"} = {}
      /\ ReportIn(st) = "BLOCKED" => "ERROR" \notin all /\ "FAIL" \notin all /\ "BLOCKED" \in all
  <2> HIDE DEF all
  <2>1. ReportIn(st) = Worst(all)
    BY DEF ReportIn, all
  <2> QED  BY <2>1 DEF Worst
<1> HIDE DEF all
<1>3. ReportIn(st) = "PASS" <=> \A s \in StepIds :
        StatusIn(st, s) \notin {"ERROR", "FAIL", "BLOCKED", "SKIPPED"}
  BY <1>1, <1>2
<1>4. ReportIn(st) = "BLOCKED" =>
        /\ \A s \in StepIds : StatusIn(st, s) \notin {"ERROR", "FAIL"}
        /\ \E s \in StepIds : StatusIn(st, s) = "BLOCKED"
  BY <1>1, <1>2
<1> QED  BY <1>3, <1>4, StatusTells

-----------------------------------------------------------------------------
(* What was found wrong.  To have no token is as it should be for a target *)
(* that asks for none.                                                     *)
Faults == IF target.flow = "none" THEN flaws \ {"token"} ELSE flaws

(* The checks of discover and acquire_token tell what came back.           *)
LEMMA ReturnsTell ==
  ASSUME target \in Targets, NEW result, ProbeReturns(result), target' = target,
         result \in ProbeAnswers(at) \/ result.kind = "failed",
         servers \subseteq Issuers, at = "as" => Selected # NoIssuer
  PROVE  /\ Dirty(local') <=> Dirty(local) \/ result.kind = "failed" \/ ~Fitting(at, result)
         /\ local \subseteq ProbeStatuses => local' \subseteq ProbeStatuses
<1> USE DEF Dirty
<1>1. \A p : \A b \in BOOLEAN : PolicyResult(p, b) \in ProbeStatuses
  BY DEF PolicyResult, ProbeStatuses
<1>2. \A p : /\ PolicyResult(p, TRUE) \in {"FAIL", "ERROR"} <=> p = "forbidden"
             /\ PolicyResult(p, FALSE) \in {"FAIL", "ERROR"} <=> p = "required"
  BY DEF PolicyResult
<1>3. \A b \in BOOLEAN : Holds(b) \in {"FAIL", "ERROR"} <=> ~b
  BY DEF Holds
<1>4. \A b : Holds(b) \in ProbeStatuses
  BY DEF Holds, ProbeStatuses
<1>5. CASE ChallengeReturns(result)
  <2>1. at = "challenge"
    BY <1>5 DEF ChallengeReturns
  <2>2. CASE result.kind = "failed"
    BY <1>5, <2>2 DEF ChallengeReturns, ProbeStatuses
  <2>3. CASE result.kind # "failed"
    <3>1. /\ result.kind = "challenge" /\ result.expected \in BOOLEAN /\ result.bearer \in BOOLEAN
      BY <2>1, <2>3 DEF ProbeAnswers
    <3>2. local' = local \cup ({Holds(result.expected)} \cup {PolicyResult("required", result.bearer)})
      BY <1>5, <2>3 DEF ChallengeReturns
    <3>3. PolicyResult("required", result.bearer) \in {"FAIL", "ERROR"} <=> ~result.bearer
      BY <3>1 DEF PolicyResult
    <3>4. Fitting(at, result) <=> result.expected /\ result.bearer
      BY <3>1 DEF Fitting
    <3> QED  BY <1>1, <1>3, <1>4, <2>3, <3>1, <3>2, <3>3, <3>4
  <2> QED  BY <2>2, <2>3
<1>6. CASE NextCandidate(result)
  BY <1>6 DEF NextCandidate, Fitting
<1>7. CASE \E next : Absent(at, PolicyOf(at), next) /\ result.kind = "404" /\ left = 1
  <2>1. local' = local \cup {PolicyResult(PolicyOf(at), FALSE)}
    BY <1>7 DEF Absent, Ambiguous
  <2>2. Fitting(at, result) <=> PolicyOf(at) # "required"
    BY <1>7 DEF Fitting
  <2> QED  BY <1>1, <1>2, <1>7, <2>1, <2>2
<1>8. CASE ResourceReturns(result) /\ result.kind # "404"
  <2>1. at = "prm" /\ PolicyOf(at) = target.prmPolicy
    <3>1. at = "prm"
      BY <1>8 DEF ResourceReturns, Absent
    <3> QED  BY <3>1 DEF PolicyOf
  <2>2. CASE result.kind = "document"
    <3> DEFINE ours    == result.resource = "ours"
               trusted == TrustedServers(result)
               broken  == result.resource = "invalid" \/ result.form = "broken"
               found   == {PolicyResult(target.prmPolicy, TRUE)}
                 \cup (IF result.resource # "invalid" THEN {Holds(ours)} ELSE {})
                 \cup (IF broken THEN {"ERROR"}
                       ELSE {Holds(target.legacy \/ trusted # {}), Holds(result.form = "sound")})
    <3>1. result.resource \in {"ours", "other", "invalid"} /\ result.form \in {"sound", "lacking", "broken"}
      BY <2>1, <2>2 DEF ProbeAnswers, NotFound, Unusable, ResourceDocuments
    <3>2. local' = local \cup found
      BY <1>8, <2>2 DEF ResourceReturns, Absent
    <3>3. Fitting(at, result) <=> /\ target.prmPolicy # "forbidden"
                                  /\ ours /\ result.form = "sound"
                                  /\ target.legacy \/ result.servers # {}
      BY <2>1, <2>2 DEF Fitting
    <3>4. ours => trusted = result.servers
      BY DEF TrustedServers
    <3>5. found \subseteq ProbeStatuses
      BY <1>1, <1>4 DEF ProbeStatuses
    <3>6. Holds(target.legacy \/ trusted # {}) \in {"FAIL", "ERROR"} <=> ~(target.legacy \/ trusted # {})
      BY DEF Holds
    <3>7. (Holds(ours) \in {"FAIL", "ERROR"} <=> ~ours)
          /\ (Holds(result.form = "sound") \in {"FAIL", "ERROR"} <=> result.form # "sound")
      BY DEF Holds
    <3>8. Dirty(found) <=> ~Fitting(at, result)
      <4> HIDE DEF trusted
      <4>1. CASE broken
        BY <3>1, <3>3, <4>1
      <4>2. CASE ~broken
        BY <1>2, <3>1, <3>3, <3>4, <3>6, <3>7, <4>2
      <4> QED  BY <4>1, <4>2
    <3> HIDE DEF found
    <3> QED  BY <2>2, <3>2, <3>5, <3>8
  <2>3. CASE result.kind # "document"
    <3>1. local' = local \cup {"ERROR"}
      BY <1>8, <2>3 DEF ResourceReturns, Absent
    <3>2. result.kind \in {"failed", "unusable"}
      BY <1>8, <2>1, <2>3 DEF ProbeAnswers, NotFound, Unusable, ResourceDocuments
    <3> QED  BY <3>1, <3>2 DEF Fitting, ProbeStatuses
  <2> QED  BY <2>2, <2>3
<1>9. CASE ServerReturns(result) /\ result.kind # "404"
  <2>1. at = "as" /\ PolicyOf(at) = target.asPolicy
    BY <1>9 DEF ServerReturns, PolicyOf
  <2>2. CASE result.kind = "document"
    <3> DEFINE issuerOk == /\ result.issuer = Selected
                           /\ target.expected = {} \/ result.issuer \in target.expected
               value    == IF issuerOk THEN result.endpoint ELSE "none"
               reached  == /\ result.issuer # "invalid" /\ result.form # "untyped"
                           /\ value # "invalid"
               found    == {PolicyResult(target.asPolicy, TRUE)}
                 \cup (IF result.issuer # "invalid" THEN {Holds(issuerOk)} ELSE {})
                 \cup (IF ~reached \/ value = "refused" \/ result.form = "broken"
                       THEN {"ERROR"} ELSE {Holds(result.form = "sound")})
    <3>1. result.form \in {"sound", "lacking", "broken", "untyped"}
      BY <2>1, <2>2 DEF ProbeAnswers, NotFound, Unusable, ServerDocuments
    <3>2. local' = local \cup found
      BY <1>9, <2>2 DEF ServerReturns, Absent
    <3>3. Fitting(at, result) <=> /\ target.asPolicy # "forbidden"
                                  /\ issuerOk /\ result.form = "sound"
                                  /\ result.endpoint \notin {"refused", "invalid"}
      BY <2>1, <2>2 DEF Fitting
    <3>4. found \subseteq ProbeStatuses
      BY <1>1, <1>4 DEF ProbeStatuses
    <3>5. Selected # "invalid"
      <4>1. "invalid" \notin Issuers /\ Origin \in Issuers
        BY ProbeAssumption
      <4> QED  BY <2>1, <4>1, SelectedIsTrusted
    <3>6. (Holds(issuerOk) \in {"FAIL", "ERROR"} <=> ~issuerOk)
          /\ (Holds(result.form = "sound") \in {"FAIL", "ERROR"} <=> result.form # "sound")
      BY DEF Holds
    <3>7. Dirty(found) <=> ~Fitting(at, result)
      <4>1. CASE ~issuerOk
        BY <1>2, <3>1, <3>3, <3>6, <4>1
      <4>2. CASE issuerOk
        <5>1. result.issuer # "invalid" /\ value = result.endpoint
          BY <3>5, <4>2
        <5> QED  BY <1>2, <3>1, <3>3, <3>6, <4>2, <5>1
      <4> QED  BY <4>1, <4>2
    <3> HIDE DEF found
    <3> QED  BY <2>2, <3>2, <3>4, <3>7
  <2>3. CASE result.kind # "document"
    <3>1. local' = local \cup {"ERROR"}
      BY <1>9, <2>3 DEF ServerReturns, Absent
    <3>2. result.kind \in {"failed", "unusable"}
      BY <1>9, <2>1, <2>3 DEF ProbeAnswers, NotFound, Unusable, ServerDocuments
    <3> QED  BY <3>1, <3>2 DEF Fitting, ProbeStatuses
  <2> QED  BY <2>2, <2>3
<1>10. CASE OidcReturns(result) /\ result.kind # "404"
  <2>1. at = "oidc" /\ PolicyOf(at) = target.oidcPolicy
    BY <1>10 DEF OidcReturns, PolicyOf
  <2>2. CASE result.kind = "document"
    <3>1. result.same \in BOOLEAN
      BY <2>1, <2>2 DEF ProbeAnswers, NotFound, Unusable
    <3>2. local' = local \cup ({PolicyResult(target.oidcPolicy, TRUE)} \cup {Holds(result.same)})
      BY <1>10, <2>2 DEF OidcReturns, Absent
    <3>3. Fitting(at, result) <=> PolicyOf(at) # "forbidden" /\ result.same
      BY <2>1, <2>2 DEF Fitting
    <3> QED  BY <1>1, <1>2, <1>3, <1>4, <2>1, <2>2, <3>1, <3>2, <3>3
  <2>3. CASE result.kind # "document"
    <3>1. local' = local \cup {"ERROR"}
      BY <1>10, <2>3 DEF OidcReturns, Absent
    <3>2. result.kind \in {"failed", "unusable"}
      BY <1>10, <2>1, <2>3 DEF ProbeAnswers, NotFound, Unusable
    <3> QED  BY <3>1, <3>2 DEF Fitting, ProbeStatuses
  <2> QED  BY <2>2, <2>3
<1>11. CASE ContractReturns(result)
  <2>1. at = "contract" /\ local' = local \cup {IF result.kind = "failed" THEN "ERROR" ELSE result.status}
    BY <1>11 DEF ContractReturns
  <2>2. CASE result.kind = "failed"
    BY <2>1, <2>2 DEF ProbeStatuses
  <2>3. CASE result.kind # "failed"
    <3>1. result.kind = "contract" /\ result.status \in {"PASS", "FAIL", "ERROR"}
      BY <2>1, <2>3 DEF ProbeAnswers
    <3> QED  BY <2>1, <3>1 DEF Fitting, ProbeStatuses
  <2> QED  BY <2>2, <2>3
<1>12. CASE at = "token" /\ TokenReturns(result)
  <2>1. result.kind \in {"rejected", "unreadable", "malformed", "late", "sound", "lacking", "failed"}
    BY <1>12 DEF ProbeAnswers
  <2>2. Fitting(at, result) <=> result.kind = "sound"
    BY <2>1 DEF Fitting
  <2> DEFINE found == CASE result.kind \in {"failed", "unreadable", "malformed"} -> {"ERROR"}
                        [] result.kind = "rejected" -> {"FAIL"}
                        [] result.kind = "late" -> {"PASS", "ERROR"}
                        [] OTHER -> {"PASS", Holds(result.kind = "sound")}
  <2>3. local' = local \cup found
    BY <1>12, <2>1 DEF TokenReturns, Acquired
  <2>4. (Dirty(found) <=> result.kind # "sound") /\ found \subseteq ProbeStatuses
    BY <2>1 DEF Holds, Dirty, ProbeStatuses
  <2> QED  BY <2>2, <2>3, <2>4
<1>13. result.kind = "404" /\ (ResourceReturns(result) \/ ServerReturns(result) \/ OidcReturns(result))
          => \E next : Absent(at, PolicyOf(at), next) /\ result.kind = "404" /\ left = 1
  <2>1. SUFFICES ASSUME result.kind = "404",
                        ResourceReturns(result) \/ ServerReturns(result) \/ OidcReturns(result)
                 PROVE  left = 1 /\ \E next : Absent(at, PolicyOf(at), next)
    OBVIOUS
  <2>2. /\ left = 1
        /\ \/ Absent("prm", target.prmPolicy, "as")
           \/ Absent("as", target.asPolicy, "oidc")
           \/ Absent("oidc", target.oidcPolicy, "discovered")
    BY <2>1 DEF ResourceReturns, ServerReturns, OidcReturns
  <2>3. \A phase, policy, next : Absent(phase, policy, next) => at = phase
    BY DEF Absent
  <2>4. /\ at = "prm" => PolicyOf(at) = target.prmPolicy
        /\ at = "as" => PolicyOf(at) = target.asPolicy
        /\ at = "oidc" => PolicyOf(at) = target.oidcPolicy
    BY DEF PolicyOf
  <2>5. CASE Absent("prm", target.prmPolicy, "as")
    BY <2>2, <2>3, <2>4, <2>5
  <2>6. CASE Absent("as", target.asPolicy, "oidc")
    BY <2>2, <2>3, <2>4, <2>6
  <2>7. CASE Absent("oidc", target.oidcPolicy, "discovered")
    BY <2>2, <2>3, <2>4, <2>7
  <2> QED  BY <2>2, <2>5, <2>6, <2>7
<1> QED  BY <1>5, <1>6, <1>7, <1>8, <1>9, <1>10, <1>11, <1>12, <1>13 DEF ProbeReturns

(* A fault stays one, and what was found keeps in step with the history.   *)
LEMMA FaultsGrow ==
  ASSUME NEW fits, Judge(at, fits), target' = target, at = "token" => target.flow # "none"
  PROVE  /\ Faults' # {} <=> Faults # {} \/ ~fits
         /\ "token" \in flaws => "token" \in flaws'
BY DEF Judge, Faults

(* The phases that need no request tell why. *)
LEMMA SkipsTell ==
  ASSUME target \in Targets, ProbeSkips, target' = target,
         flaws' = IF Skippable THEN flaws ELSE flaws \cup {at},
         Dirty(local) => Faults # {}
  PROVE  /\ Dirty(local') \/ Faults # {} <=> Faults' # {}
         /\ at # "token" /\ ~Dirty(local') => flaws' = flaws
         /\ Dirty(local) => Dirty(local')
         /\ local \subseteq ProbeStatuses => local' \subseteq ProbeStatuses
         /\ at \in ProbePhases /\ at' \in ProbePhases \cup {"discovered", "acquired"}
         /\ at = "token" /\ token' # "held" => "token" \in flaws'
         /\ at # "token" => token' = token
         /\ at = "token" <=> at' = "acquired"
         /\ target.flow = "none" /\ at = "token" => token' # "held"
         /\ at = "contract" /\ ~target.errorProbe => local' = local
<1> USE DEF Dirty
<1>1. \A p : PolicyResult(p, FALSE) \in ProbeStatuses
  BY DEF PolicyResult, ProbeStatuses
<1>2. \A p : PolicyResult(p, FALSE) \in {"FAIL", "ERROR"} <=> p = "required"
  BY DEF PolicyResult
<1>3. at \in {"prm", "as", "oidc"} => at \in ProbePhases \ {"token", "contract"}
  BY DEF ProbePhases
<1>4. CASE Absent("prm", target.prmPolicy, "as")
  <2>1. target.prmPolicy = "ignore" /\ at = "prm"
    BY <1>4 DEF ProbeSkips, ProbeSends, Absent
  <2>2. PolicyResult("ignore", FALSE) = "SKIP"
    BY DEF PolicyResult
  <2>3. local' = local \cup {"SKIP"} /\ flaws' = flaws /\ at' = "as" /\ token' = token
    BY <1>4, <2>1, <2>2 DEF Absent, Skippable
  <2> QED  BY <2>1, <2>3 DEF Faults, ProbeStatuses, ProbePhases
<1>5. CASE Absent("as", target.asPolicy, "oidc")
  <2>1. /\ local' = local \cup ({PolicyResult(target.asPolicy, FALSE)}
                              \cup IF Ambiguous THEN {"FAIL"} ELSE {})
        /\ at = "as" /\ at' = "oidc" /\ token' = token
    BY <1>5 DEF Absent
  <2>2. Skippable <=> target.asPolicy # "required" /\ ~Ambiguous
    BY <2>1 DEF Skippable
  <2>3. Faults' = IF Skippable THEN Faults ELSE Faults \cup {"as"}
    BY <2>1 DEF Faults
  <2> HIDE DEF Skippable
  <2> QED  BY <1>1, <1>2, <2>1, <2>2, <2>3 DEF ProbeStatuses, ProbePhases
<1>6. CASE Absent("oidc", target.oidcPolicy, "discovered")
  <2>1. /\ local' = local \cup {PolicyResult(target.oidcPolicy, FALSE)}
        /\ at = "oidc" /\ at' = "discovered" /\ token' = token
    BY <1>6 DEF Absent
  <2>2. Skippable <=> target.oidcPolicy # "required"
    BY <2>1 DEF Skippable
  <2>3. Faults' = IF Skippable THEN Faults ELSE Faults \cup {"oidc"}
    BY <2>1 DEF Faults
  <2> QED  BY <1>1, <1>2, <2>1, <2>2, <2>3 DEF ProbePhases
<1>7. CASE /\ at = "contract" /\ at' = "token"
           /\ local' = local \cup IF target.errorProbe THEN {"SKIP"} ELSE {}
           /\ UNCHANGED <<documentVars, token>>
  <2>1. flaws' = flaws
    BY <1>7 DEF Skippable
  <2> QED  BY <1>7, <2>1 DEF Faults, ProbeStatuses, ProbePhases
<1>8. ASSUME NEW t, NEW found, Acquired(t, found), found \subseteq ProbeStatuses,
             Dirty(found) <=> target.flow # "none" /\ ~(t = "held" /\ "FAIL" \notin found),
             t = "held" => "ERROR" \notin found /\ target.flow # "none"
      PROVE  /\ Dirty(local') \/ Faults # {} <=> Faults' # {}
             /\ at' = "acquired" /\ token' = t /\ local' = local \cup found
             /\ t # "held" => "token" \in flaws'
  <2>2. at = "token" /\ at' = "acquired" /\ token' = t /\ local' = local \cup found
    BY <1>8 DEF Acquired
  <2>3. Skippable <=> t = "held" /\ "FAIL" \notin found \ local
    BY <2>2 DEF Skippable
  <2>4. Faults' = IF Skippable \/ target.flow = "none" THEN Faults ELSE Faults \cup {"token"}
    BY <2>2 DEF Faults
  <2>5. ~Skippable => "token" \in flaws'
    BY <2>2
  <2> HIDE DEF Skippable
  <2>6. Dirty(local') \/ Faults # {} <=> Faults' # {}
    <3>1. CASE Skippable
      BY <1>8, <2>2, <2>3, <2>4, <3>1
    <3>2. CASE ~Skippable
      BY <1>8, <2>2, <2>3, <2>4, <3>2
    <3> QED  BY <3>1, <3>2
  <2> QED  BY <2>2, <2>3, <2>5, <2>6
<1>9. CASE at = "token"
  <2>1. CASE target.flow = "bearer" /\ target.secrets
    <3>1. \E claims \in {"PASS", "FAIL", "SKIP"} : Acquired("held", {"PASS", claims})
      BY <1>9, <2>1 DEF ProbeSkips, Absent, Grant
    <3>2. PICK claims \in {"PASS", "FAIL", "SKIP"} : Acquired("held", {"PASS", claims})
      BY <3>1
    <3>3. {"PASS", claims} \subseteq ProbeStatuses
      BY DEF ProbeStatuses
    <3> QED  BY <1>8, <1>9, <2>1, <3>2, <3>3 DEF ProbePhases
  <2>2. CASE target.flow = "none"
    <3>1. Acquired("malformed", {"SKIP"})
      BY <1>9, <2>2 DEF ProbeSkips, Absent, Grant
    <3> QED  BY <1>8, <1>9, <2>2, <3>1 DEF ProbeStatuses, ProbePhases
  <2>3. CASE target.flow # "none" /\ ~(target.flow = "bearer" /\ target.secrets)
    <3>1. \E t \in {"malformed", "unavailable"} : Acquired(t, {"ERROR"})
      BY <1>9, <2>3 DEF ProbeSkips, Absent
    <3>2. PICK t \in {"malformed", "unavailable"} : Acquired(t, {"ERROR"})
      BY <3>1
    <3> QED  BY <1>8, <1>9, <2>3, <3>2 DEF ProbeStatuses, ProbePhases
  <2> QED  BY <2>1, <2>2, <2>3
<1>10. at = "token" \/ Absent("prm", target.prmPolicy, "as") \/ Absent("as", target.asPolicy, "oidc")
         \/ Absent("oidc", target.oidcPolicy, "discovered")
         \/ /\ at = "contract" /\ at' = "token"
            /\ local' = local \cup IF target.errorProbe THEN {"SKIP"} ELSE {}
            /\ UNCHANGED <<documentVars, token>>
  BY DEF ProbeSkips, Acquired
<1> QED  BY <1>4, <1>5, <1>6, <1>7, <1>9, <1>10

-----------------------------------------------------------------------------
(* The phases with a token in hand *)
Authorized == SessionPhases \cup {"select"}

(* Who waits where, and with which token *)
PhaseInv ==
  /\ call # Idle => at \in ProbePhases \cup SessionPhases
  /\ call # Idle /\ at = "token" => Grant
  /\ call # Idle /\ at = "contract" => target.errorProbe
  /\ target.flow = "none" => token # "held"
  /\ at \in Authorized => token = "held"
  /\ at = "acquired" /\ token # "held" => "token" \in flaws

(* Before the report of the lane *)
LaneGathers ==
  /\ \A s \in StepIds : ~steps[s].reason /\ "BLOCKED" \notin steps[s].checks
  /\ (\E s \in StepIds : Dirty(steps[s].checks)) \/ Dirty(local) <=> Faults # {}
  /\ "fixture" \notin proved
  /\ at # "fixture" => steps["fixture_read"].checks = {}
  /\ at \in Authorized => local = {}
  /\ at \in {"contract", "token"} => ~Dirty(local)
  /\ at = "acquired" => \/ \E s \in StepIds : Dirty(steps[s].checks)
                        \/ flaws \subseteq {"token"}
  /\ at # "begin" => BlockedSteps = {}
  /\ at = "begin" => /\ calls = 0 /\ flaws = {} /\ local = {}
                     /\ \A s \in StepIds : steps[s] = Untouched

LaneInv ==
  /\ steps \in StepRecords
  /\ IF at = "report" THEN ReportTellsTruth /\ BlockHidesNothing ELSE LaneGathers

(* Before the report of the probe *)
RunGathers ==
  /\ Dirty(gathered) \/ Dirty(local) <=> Faults # {}
  /\ IF at = "begin" THEN gathered = {} ELSE target.urlFine
  /\ listed.pages \in Nat /\ listed.pages < PageLimit

RunInv == IF at = "report" THEN ReportTellsTruth ELSE RunGathers

(* The inductive invariant of the reports *)
TruthInv ==
  /\ PhaseInv
  /\ local \subseteq ProbeStatuses
  /\ target.program = "lane" => LaneInv
  /\ target.program = "probe" => RunInv

(* What a step of discover or acquire_token tells *)
ProbeTold ==
  /\ PhaseInv'
  /\ Dirty(local') \/ Faults # {} <=> Faults' # {}
  /\ Dirty(local) => Dirty(local')
  /\ local' \subseteq ProbeStatuses
  /\ at \in ProbePhases /\ at' \in (ProbePhases \ {"contract"}) \cup {"discovered", "acquired"}
  /\ at = "token" <=> at' = "acquired"
  /\ at' = "token" /\ ~target.errorProbe => at = "contract" /\ local' = local
  /\ flaws' \subseteq flaws \cup {at} /\ proved' \subseteq proved \cup {at}

LEMMA ProbeAnswerTold ==
  ASSUME CredentialInv, PhaseInv, local \subseteq ProbeStatuses, Dirty(local) => Faults # {},
         NEW result, ProbeReturns(result), target' = target, call' = Idle,
         Judge(at, result.kind # "failed" /\ Fitting(at, result)),
         result \in ProbeAnswers(at) \/ result.kind = "failed",
         call # Idle \/ ProbeSends
  PROVE  ProbeTold
<1> DEFINE fits == result.kind # "failed" /\ Fitting(at, result)
<1>1. at = "as" => Selected # NoIssuer
  BY DEF CredentialInv, DocumentInv, ProbeSends, ServerNeeded
<1>2. /\ at = "token" => Grant /\ target.flow # "none"
      /\ at = "contract" => target.errorProbe
  BY DEF PhaseInv, ProbeSends, Grant
<1>3. /\ Dirty(local') <=> Dirty(local) \/ ~fits
      /\ local' \subseteq ProbeStatuses
  BY <1>1, ReturnsTell DEF CredentialInv, DocumentInv
<1>4. /\ Faults' # {} <=> Faults # {} \/ ~fits
      /\ "token" \in flaws => "token" \in flaws'
  BY <1>2, FaultsGrow
<1>5. flaws' \subseteq flaws \cup {at} /\ proved' \subseteq proved \cup {at}
  BY DEF Judge
<1>6. /\ at \in ProbePhases
      /\ at' \in (ProbePhases \ {"contract"}) \cup {"discovered", "acquired"}
      /\ at = "token" <=> at' = "acquired"
      /\ at' = "token" => at = "contract"
  BY DEF ProbeReturns, ChallengeReturns, NextCandidate, ResourceReturns, ServerReturns, OidcReturns,
         ContractReturns, TokenReturns, Acquired, Absent, ProbePhases
<1>7. CASE at = "token"
  <2>1. result.kind \in {"rejected", "unreadable", "malformed", "late", "sound", "lacking", "failed"}
    BY <1>7 DEF ProbeAnswers
  <2>2. token' # "held" => result.kind \notin {"sound", "lacking"}
    BY <1>7, <2>1 DEF ProbeReturns, TokenReturns, Acquired, ChallengeReturns, NextCandidate,
       ResourceReturns, ServerReturns, OidcReturns, ContractReturns, Absent
  <2>3. result.kind # "sound" => ~fits
    BY <1>7, <2>1 DEF Fitting
  <2>4. token' # "held" => "token" \in flaws'
    BY <1>7, <2>2, <2>3 DEF Judge
  <2>5. PhaseInv'
    BY <1>2, <1>6, <1>7, <2>4 DEF PhaseInv, Authorized, SessionPhases
  <2> QED  BY <1>3, <1>4, <1>5, <1>6, <1>7, <2>5 DEF ProbeTold, ProbePhases
<1>8. CASE at # "token"
  <2>1. token' = token
    BY <1>8 DEF ProbeReturns, ChallengeReturns, NextCandidate, ResourceReturns, ServerReturns,
       OidcReturns, ContractReturns, Absent
  <2>2. PhaseInv'
    BY <1>6, <1>8, <2>1 DEF PhaseInv, Authorized, SessionPhases, ProbePhases
  <2> QED  BY <1>2, <1>3, <1>4, <1>5, <1>6, <1>8, <2>2 DEF ProbeTold
<1> QED  BY <1>7, <1>8

LEMMA ProbeSkipTold ==
  ASSUME CredentialInv, PhaseInv, local \subseteq ProbeStatuses, Dirty(local) => Faults # {},
         ProbeSkips, UNCHANGED <<target, call, proved>>, call = Idle,
         flaws' = IF Skippable THEN flaws ELSE flaws \cup {at}
  PROVE  ProbeTold
<1>1. target \in Targets
  BY DEF CredentialInv
<1>2. at' # "contract" /\ (at' = "token" => at = "contract")
  BY DEF ProbeSkips, Absent, Acquired
<1>3. PhaseInv'
  BY <1>1, SkipsTell DEF PhaseInv, Authorized, SessionPhases, ProbePhases
<1> QED  BY <1>1, <1>2, <1>3, SkipsTell DEF ProbeTold

(* Such a step keeps the invariant of either program. *)
LEMMA LaneProbeKeeps ==
  ASSUME TruthInv, target.program = "lane", target \in Targets, target' = target,
         ProbeTold, UNCHANGED steps
  PROVE  TruthInv'
<1>1. /\ LaneGathers /\ at \notin {"begin", "fixture"} /\ steps' = steps
      /\ at' \notin {"begin", "report", "fixture"} /\ at' \notin Authorized
  BY DEF TruthInv, LaneInv, ProbeTold, ProbePhases, Authorized, SessionPhases
<1>2. ~target.errorProbe
  BY LaneAssumption
<1>3. BlockedSteps' = BlockedSteps
  BY DEF BlockedSteps
<1>4. \/ \E s \in StepIds : Dirty(steps[s].checks)
      \/ at' = "acquired" => flaws' \subseteq {"token"}
  BY <1>1 DEF LaneGathers, ProbeTold, Faults
<1>5. "fixture" \notin proved'
  BY <1>1 DEF LaneGathers, ProbeTold, ProbePhases
<1>6. at' \in {"contract", "token"} => ~Dirty(local')
  BY <1>1, <1>2 DEF LaneGathers, ProbeTold, ProbePhases
<1>7. (\E s \in StepIds : Dirty(steps'[s].checks)) \/ Dirty(local') <=> Faults' # {}
  BY <1>1 DEF LaneGathers, ProbeTold
<1>8. LaneGathers'
  BY <1>1, <1>3, <1>4, <1>5, <1>6, <1>7 DEF LaneGathers
<1> QED  BY <1>1, <1>8 DEF TruthInv, LaneInv, ProbeTold

LEMMA RunProbeKeeps ==
  ASSUME TruthInv, target.program = "probe", target' = target, ProbeTold, UNCHANGED runVars
  PROVE  TruthInv'
<1>1. RunGathers /\ at # "begin" /\ at' \notin {"begin", "report"}
  BY DEF TruthInv, RunInv, ProbeTold, ProbePhases
<1>2. RunGathers'
  BY <1>1 DEF RunGathers, ProbeTold, runVars
<1> QED  BY <1>1, <1>2 DEF TruthInv, RunInv, ProbeTold

-----------------------------------------------------------------------------
(* The reports of the smoke lane *)

LEMMA CheckedTells ==
  ASSUME steps \in StepRecords, NEW step \in StepIds, NEW S \in SUBSET CheckStatuses
  PROVE  /\ Checked(step, S) \in StepRecords
         /\ \A s \in StepIds :
              /\ Checked(step, S)[s].reason = steps[s].reason
              /\ Checked(step, S)[s].checks = steps[s].checks \cup IF s = step THEN S ELSE {}
BY DEF Checked, StepRecords

LEMMA SkipUnrunTells ==
  ASSUME NEW st \in StepRecords
  PROVE  /\ SkipUnrun(st) \in StepRecords
         /\ \A s \in StepIds :
              /\ SkipUnrun(st)[s].checks = st[s].checks
              /\ st[s].checks = {} => SkipUnrun(st)[s].reason
BY DEF SkipUnrun, StepRecords

(* A lane that stops before its read is no pass. *)
LEMMA StopTells ==
  ASSUME steps \in StepRecords, LaneGathers, NEW S \in SUBSET CheckStatuses, StopWith(S)
  PROVE  /\ steps' \in StepRecords /\ at' = "report"
         /\ at \notin {"select", "fixture"} \/ Dirty(S) => Report' # "PASS"
         /\ "BLOCKED" \notin S => Report' # "BLOCKED"
         /\ Report' = "BLOCKED" => \A s \in StepIds : ~Dirty(steps[s].checks)
<1> DEFINE st == Checked(CurrentStep, S)
<1>1. CurrentStep \in StepIds /\ "fixture_read" \in StepIds
  BY DEF CurrentStep, StepIds
<1>2. /\ st \in StepRecords
      /\ \A s \in StepIds : st[s].checks = steps[s].checks \cup IF s = CurrentStep THEN S ELSE {}
  BY <1>1, CheckedTells
<1>3. at' = "report" /\ steps' = SkipUnrun(st)
  BY DEF StopWith
<1> HIDE DEF st
<1>4. /\ steps' \in StepRecords
      /\ \A s \in StepIds : /\ steps'[s].checks = st[s].checks
                            /\ st[s].checks = {} => steps'[s].reason
  BY <1>2, <1>3, SkipUnrunTells
<1>5. /\ Report' = "PASS" =>
           \A s \in StepIds : ~Dirty(steps'[s].checks) /\ ~(steps'[s].reason /\ steps'[s].checks = {})
      /\ Report' = "BLOCKED" => /\ \A s \in StepIds : ~Dirty(steps'[s].checks)
                                /\ \E s \in StepIds : "BLOCKED" \in steps'[s].checks
  BY <1>4, ReportTells, ReportIsIn
<1>6. ASSUME at \notin {"select", "fixture"} PROVE Report' # "PASS"
  <2>1. CurrentStep # "fixture_read" /\ steps["fixture_read"].checks = {}
    BY <1>6 DEF CurrentStep, LaneGathers
  <2>2. st["fixture_read"].checks = {}
    BY <1>1, <1>2, <2>1
  <2> QED  BY <1>1, <1>4, <1>5, <2>2
<1>7. ASSUME Dirty(S) PROVE Report' # "PASS"
  BY <1>1, <1>2, <1>4, <1>5, <1>7, DirtyUnion
<1>8. ASSUME "BLOCKED" \notin S PROVE Report' # "BLOCKED"
  <2>1. \A s \in StepIds : "BLOCKED" \notin steps[s].checks
    BY DEF LaneGathers
  <2>2. \A s \in StepIds : "BLOCKED" \notin st[s].checks
    BY <1>2, <1>8, <2>1
  <2>3. \A s \in StepIds : "BLOCKED" \notin steps'[s].checks
    BY <1>4, <2>2
  <2> QED BY <1>5, <2>3
<1>9. Report' = "BLOCKED" => \A s \in StepIds : ~Dirty(steps[s].checks)
  BY <1>2, <1>4, <1>5, DirtyUnion
<1> QED  BY <1>3, <1>4, <1>6, <1>7, <1>8, <1>9

LEMMA LaneStops ==
  ASSUME TruthInv, target.program = "lane", LaneGathers,
         NEW S \in SUBSET CheckStatuses, StopWith(S), "BLOCKED" \notin S,
         at \notin {"select", "fixture"} \/ Dirty(S),
         UNCHANGED <<target, token>>, call' = Idle, local' \subseteq ProbeStatuses,
         "fixture" \notin proved' \/ flaws' # {}
  PROVE  TruthInv'
<1>1. steps' \in StepRecords /\ at' = "report" /\ Report' \notin {"PASS", "BLOCKED"}
  BY StopTells DEF TruthInv, LaneInv
<1>2. ReportTellsTruth' /\ BlockHidesNothing'
  BY <1>1 DEF ReportTellsTruth, BlockHidesNothing
<1>3. PhaseInv'
  BY <1>1 DEF TruthInv, PhaseInv, Authorized, SessionPhases
<1> QED  BY <1>1, <1>2, <1>3 DEF TruthInv, LaneInv

(* A step with a token in hand that leads on *)
LEMMA LaneGoesOn ==
  ASSUME TruthInv, target.program = "lane", LaneGathers, at \in Authorized, at' \in Authorized,
         NEW step \in StepIds, NEW S \in SUBSET CheckStatuses, "BLOCKED" \notin S,
         steps' = Checked(step, S), step = "fixture_read" => at' = "fixture",
         flaws' # {} <=> flaws # {} \/ Dirty(S),
         "fixture" \notin proved', at # "fixture",
         UNCHANGED <<target, token, local>>, call' = Idle
  PROVE  TruthInv'
<1>1. token = "held" /\ target.flow # "none" /\ local = {}
  BY DEF TruthInv, PhaseInv, LaneGathers
<1>2. /\ steps' \in StepRecords
      /\ \A s \in StepIds :
           /\ steps'[s].reason = steps[s].reason
           /\ steps'[s].checks = steps[s].checks \cup IF s = step THEN S ELSE {}
  BY CheckedTells DEF TruthInv, LaneInv
<1>3. (\E s \in StepIds : Dirty(steps'[s].checks))
         <=> (\E s \in StepIds : Dirty(steps[s].checks)) \/ Dirty(S)
  BY <1>2, DirtyUnion, DirtyNone
<1>4. (\E s \in StepIds : Dirty(steps'[s].checks)) \/ Dirty(local') <=> Faults' # {}
  BY <1>1, <1>3, DirtyNone DEF LaneGathers, Faults
<1>5. at' # "fixture" => steps'["fixture_read"].checks = {}
  BY <1>2 DEF LaneGathers, StepIds
<1>6. BlockedSteps' = BlockedSteps /\ BlockedSteps = {}
  BY DEF BlockedSteps, LaneGathers, Authorized, SessionPhases
<1>7. LaneGathers'
  <2>1. \A s \in StepIds : ~steps'[s].reason /\ "BLOCKED" \notin steps'[s].checks
    BY <1>2 DEF LaneGathers
  <2>2. at' \notin {"begin", "contract", "token", "acquired"}
    BY DEF Authorized, SessionPhases
  <2> QED  BY <1>1, <1>4, <1>5, <1>6, <2>1, <2>2 DEF LaneGathers
<1>8. PhaseInv'
  BY <1>1 DEF PhaseInv, Authorized, SessionPhases
<1>9. at' # "report"
  BY DEF Authorized, SessionPhases
<1> QED  BY <1>1, <1>2, <1>7, <1>8, <1>9 DEF TruthInv, LaneInv

(* The answer to the approved read ends a run that gathered all the rest. *)
LEMMA FixtureTells ==
  ASSUME TruthInv, target.program = "lane", NEW result, FixtureReturns(result),
         UNCHANGED <<target, token, local>>, call' = Idle,
         Judge(at, SessionFitting(at, result))
  PROVE  TruthInv'
<1> DEFINE found == CASE NoMessage(result)          -> {"ERROR"}
                      [] result.kind \in {"status", "rpc_error"} -> {"FAIL"}
                      [] OTHER                      -> {"PASS", Holds(result.kind = "match")}
<1>1. /\ at = "fixture" /\ at' = "report" /\ steps' = Checked("fixture_read", found)
      /\ LaneGathers /\ "fixture_read" \in StepIds
  BY DEF FixtureReturns, TruthInv, LaneInv, StepIds
<1>2. /\ found \subseteq CheckStatuses /\ "BLOCKED" \notin found
      /\ Dirty(found) <=> result.kind # "match"
  BY DEF NoMessage, Holds, CheckStatuses, Dirty
<1>3. SessionFitting(at, result) <=> result.kind = "match"
  BY <1>1 DEF SessionFitting
<1> HIDE DEF found
<1>4. /\ steps' \in StepRecords
      /\ \A s \in StepIds :
           /\ steps'[s].reason = steps[s].reason
           /\ steps'[s].checks = steps[s].checks \cup IF s = "fixture_read" THEN found ELSE {}
  BY <1>1, <1>2, CheckedTells DEF TruthInv, LaneInv
<1>5. \A s \in StepIds : ~steps'[s].reason /\ "BLOCKED" \notin steps'[s].checks
  BY <1>1, <1>2, <1>4 DEF LaneGathers
<1>6. (\A s \in StepIds : ~Dirty(steps'[s].checks))
         <=> (\A s \in StepIds : ~Dirty(steps[s].checks)) /\ result.kind = "match"
  BY <1>1, <1>2, <1>4, DirtyUnion, DirtyNone
<1>7. /\ Report' = "PASS" <=> \A s \in StepIds : ~Dirty(steps'[s].checks)
      /\ Report' # "BLOCKED"
  BY <1>4, <1>5, ReportTells, ReportIsIn
<1>8. (\A s \in StepIds : ~Dirty(steps[s].checks)) <=> flaws = {}
  <2>1. token = "held" /\ target.flow # "none" /\ local = {}
    BY <1>1 DEF TruthInv, PhaseInv, LaneGathers, Authorized, SessionPhases
  <2> QED  BY <1>1, <2>1, DirtyNone DEF LaneGathers, Faults
<1>9. flaws = {} /\ result.kind = "match" <=> flaws' = {} /\ "fixture" \in proved'
  BY <1>1, <1>3 DEF Judge
<1>10. ReportTellsTruth' /\ BlockHidesNothing'
  BY <1>1, <1>6, <1>7, <1>8, <1>9 DEF ReportTellsTruth, BlockHidesNothing
<1>11. PhaseInv'
  BY <1>1 DEF TruthInv, PhaseInv, Authorized, SessionPhases
<1> QED  BY <1>1, <1>4, <1>10, <1>11 DEF TruthInv, LaneInv

LEMMA SessionTells ==
  ASSUME TruthInv, target.program = "lane", NEW result, SessionReturns(result),
         result \in SessionAnswers(at) \/ result.kind = "failed",
         target' = target, call' = Idle, Judge(at, SessionFitting(at, result))
  PROVE  TruthInv'
<1>1. /\ UNCHANGED <<documentVars, local, token>> /\ at \in SessionPhases
      /\ local \subseteq ProbeStatuses /\ LaneGathers
  BY DEF SessionReturns, InitializeReturns, InitializedReturns, ListReturns, FixtureReturns,
         SessionPhases, TruthInv, LaneInv
<1>2. /\ flaws' # {} <=> flaws # {} \/ ~SessionFitting(at, result)
      /\ at # "fixture" => "fixture" \notin proved'
  BY <1>1 DEF Judge, LaneGathers
<1>3. "protocol_auth" \in StepIds /\ "tool_discovery" \in StepIds
  BY DEF StepIds
<1>4. ASSUME NEW S, S \subseteq {"PASS", "FAIL", "ERROR"}, StopWith(S), at # "fixture"
      PROVE  TruthInv'
  <2>1. S \in SUBSET CheckStatuses /\ "BLOCKED" \notin S
    BY <1>4 DEF CheckStatuses
  <2> QED  BY <1>1, <1>2, <1>4, <2>1, LaneStops DEF SessionPhases
<1>5. ASSUME NEW step \in {"protocol_auth", "tool_discovery"}, NEW S, S \subseteq {"PASS", "FAIL"},
             steps' = Checked(step, S), at # "fixture",
             "FAIL" \in S <=> ~SessionFitting(at, result), at' \in Authorized
      PROVE  TruthInv'
  <2>1. S \in SUBSET CheckStatuses /\ "BLOCKED" \notin S /\ (Dirty(S) <=> "FAIL" \in S)
    BY <1>5 DEF CheckStatuses, Dirty
  <2> QED  BY <1>1, <1>2, <1>3, <1>5, <2>1, LaneGoesOn DEF Authorized
<1>6. CASE InitializeReturns(result)
  <2>1. at = "initialize" /\ (SessionFitting(at, result) <=> result.kind = "negotiated")
    BY <1>6 DEF InitializeReturns, SessionFitting
  <2>2. result.kind \in {"failed", "status", "malformed", "rpc_error", "off_contract",
                         "incapable", "negotiated"}
    BY <2>1 DEF SessionAnswers
  <2>3. CASE result.kind = "incapable"
    <3>1. at' = "dismissed" /\ steps' = Checked("protocol_auth", {"PASS", "FAIL"})
      BY <1>6, <2>3 DEF InitializeReturns, NoMessage
    <3> QED  BY <1>5, <2>1, <2>3, <3>1 DEF Authorized, SessionPhases
  <2>4. CASE result.kind = "negotiated"
    <3>1. at' = "initialized" /\ steps' = Checked("protocol_auth", {"PASS"})
      BY <1>6, <2>4 DEF InitializeReturns, NoMessage
    <3> QED  BY <1>5, <2>1, <2>4, <3>1 DEF Authorized, SessionPhases
  <2>5. CASE result.kind \notin {"incapable", "negotiated"}
    <3>1. StopWith({"ERROR"}) \/ StopWith({"FAIL"}) \/ StopWith({"PASS", "FAIL"})
      BY <1>6, <2>2, <2>5 DEF InitializeReturns, NoMessage
    <3> QED  BY <1>4, <2>1, <3>1
  <2> QED  BY <2>3, <2>4, <2>5
<1>7. CASE InitializedReturns(result)
  <2>1. at \in {"initialized", "dismissed"} /\ (SessionFitting(at, result) <=> result.kind = "accepted")
    BY <1>7 DEF InitializedReturns, SessionFitting
  <2>2. \/ StopWith({"ERROR"}) \/ StopWith({"FAIL"}) \/ StopWith({"PASS"})
        \/ result.kind = "accepted" /\ at' = "list" /\ steps' = Checked("protocol_auth", {"PASS"})
    BY <1>7 DEF InitializedReturns
  <2> QED  BY <1>4, <1>5, <2>1, <2>2 DEF Authorized, SessionPhases
<1>8. CASE ListReturns(result)
  <2>1. at = "list"
    BY <1>8 DEF ListReturns
  <2>2. CASE ~(result.kind = "page" /\ ~Duplicate(result))
    <3>1. StopWith({"FAIL"}) \/ StopWith({"ERROR"})
      BY <1>8, <2>2 DEF ListReturns
    <3> QED  BY <1>4, <2>1, <3>1
  <2>3. CASE result.kind = "page" /\ ~Duplicate(result)
    <3> DEFINE c == WithPage(result)
    <3>1. result.more \in BOOLEAN
      BY <2>1, <2>3 DEF SessionAnswers, Pages
    <3>2. SessionFitting(at, result) <=>
            IF result.more THEN c.pages < target.config.maxPages
            ELSE /\ ToolCount(c) <= target.config.maxTools /\ c.pages <= target.config.maxListBytes
                 /\ c.fixture \in {"reads", "writes"}
      BY <2>1, <2>3 DEF SessionFitting
    <3>3. CASE result.more /\ c.pages < target.config.maxPages
      <4>1. UNCHANGED <<at, steps>>
        BY <1>8, <2>3, <3>3 DEF ListReturns
      <4>2. steps' = Checked("protocol_auth", {})
        <5>1. steps' \in StepRecords
          BY <4>1 DEF TruthInv, LaneInv
        <5> QED  BY <4>1, <5>1 DEF Checked, StepRecords
      <4> QED  BY <1>5, <2>1, <3>2, <3>3, <4>1, <4>2 DEF Authorized, SessionPhases
    <3>4. CASE ~(result.more /\ c.pages < target.config.maxPages)
      <4>1. at' = "select" /\ steps' = Checked("tool_discovery", CatalogueChecks(result, c))
        BY <1>8, <2>3, <3>4 DEF ListReturns
      <4>2. /\ CatalogueChecks(result, c) \subseteq {"PASS", "FAIL"}
            /\ "FAIL" \in CatalogueChecks(result, c) <=> ~SessionFitting(at, result)
        <5> HIDE DEF c
        <5>1. /\ "FAIL" \in CatalogueChecks(result, c) <=>
                  ~(/\ ~result.more /\ ToolCount(c) <= target.config.maxTools
                    /\ c.pages <= target.config.maxListBytes /\ c.fixture \in {"reads", "writes"})
              /\ CatalogueChecks(result, c) \subseteq {"PASS", "FAIL"}
          BY DEF CatalogueChecks, Holds
        <5> QED  BY <3>1, <3>2, <3>4, <5>1
      <4> QED  BY <1>5, <2>1, <4>1, <4>2 DEF Authorized
    <3> QED  BY <3>3, <3>4
  <2> QED  BY <2>2, <2>3
<1>9. CASE FixtureReturns(result)
  BY <1>1, <1>9, FixtureTells
<1> QED  BY <1>6, <1>7, <1>8, <1>9 DEF SessionReturns

(* An answer, or an error in its place, in any phase *)
LEMMA LaneReturnsTell ==
  ASSUME CredentialInv, TruthInv, target.program = "lane", NEW result, LaneReturns(result), call' = Idle,
         \/ at \notin SessionPhases /\ result \in ProbeAnswers(at)
         \/ at \in SessionPhases /\ result \in SessionAnswers(at)
         \/ result.kind = "failed",
         call # Idle \/ LaneSends
  PROVE  TruthInv'
<1>1. target' = target
  BY DEF LaneReturns
<1>2. CASE ProbeReturns(result) /\ UNCHANGED <<steps, catalogue>>
  <2>1. at \in ProbePhases /\ at \notin SessionPhases
    BY <1>2, ReturnsAreOrdered DEF ProbePhases, SessionPhases
  <2>2. Judge(at, Fitting(at, result)) /\ (call # Idle \/ ProbeSends)
    BY <2>1 DEF LaneReturns, LaneFitting, LaneSends
  <2>3. result.kind = "failed" => ~Fitting(at, result)
    BY DEF Fitting
  <2>4. Judge(at, result.kind # "failed" /\ Fitting(at, result))
    BY <2>2, <2>3 DEF Judge
  <2>5. LaneGathers
    BY <2>1 DEF TruthInv, LaneInv, ProbePhases
  <2>6. PhaseInv /\ local \subseteq ProbeStatuses /\ (Dirty(local) => Faults # {})
    BY <2>5 DEF TruthInv, LaneGathers
  <2>7. ProbeTold
    BY <1>1, <1>2, <2>1, <2>2, <2>4, <2>6, ProbeAnswerTold
  <2> QED  BY <1>1, <1>2, <2>7, LaneProbeKeeps DEF CredentialInv
<1>3. CASE SessionReturns(result)
  <2>1. at \in SessionPhases
    BY <1>3 DEF SessionReturns, InitializeReturns, InitializedReturns, ListReturns, FixtureReturns,
       SessionPhases
  <2>2. Judge(at, SessionFitting(at, result))
    BY <2>1 DEF LaneReturns, LaneFitting
  <2> QED  BY <1>1, <1>3, <2>1, <2>2, SessionTells
<1> QED  BY <1>2, <1>3 DEF LaneReturns

(* What a probe check becomes in the report of the lane *)
LEMMA FromProbeTells ==
  ASSUME local \subseteq ProbeStatuses, NEW blocked \in BOOLEAN
  PROVE  LET found == {FromProbe(c, blocked) : c \in local}
         IN  /\ found \in SUBSET CheckStatuses
             /\ ~blocked => /\ "BLOCKED" \notin found
                            /\ Dirty(found) <=> Dirty(local)
             /\ blocked => ~Dirty(found)
<1>1. \A c \in local : /\ FromProbe(c, blocked) \in CheckStatuses
                       /\ ~blocked => FromProbe(c, blocked) = IF c = "SKIP" THEN "INFO" ELSE c
                       /\ blocked => FromProbe(c, blocked) \notin {"FAIL", "ERROR"}
  BY DEF FromProbe, ProbeStatuses, CheckStatuses
<1>2. "BLOCKED" \notin local
  BY DEF ProbeStatuses
<1> QED  BY <1>1, <1>2 DEF Dirty

(* What the lane does between two awaits *)
LEMMA LaneCodeTells ==
  ASSUME CredentialInv, TruthInv, target.program = "lane", LaneCode
  PROVE  TruthInv'
<1>1. /\ call = Idle /\ UNCHANGED <<target, call, grants, calls, bytes>> /\ target \in Targets
      /\ PhaseInv /\ local \subseteq ProbeStatuses /\ steps \in StepRecords
  BY DEF LaneCode, TruthInv, LaneInv, CredentialInv
<1>2. BlockedSteps' = BlockedSteps
  BY <1>1 DEF BlockedSteps
<1>3. CASE Preflight
  <2>1. at = "begin" /\ LaneGathers /\ UNCHANGED <<local, token, proved, flaws>>
    BY <1>3 DEF Preflight, TruthInv, LaneInv
  <2>2. CASE BlockedSteps = {}
    <3>1. at' = "challenge" /\ steps' = steps
      BY <1>3, <2>2 DEF Preflight
    <3>2. Faults' = Faults
      BY <1>1, <2>1 DEF Faults
    <3>3. LaneGathers'
      BY <1>1, <1>2, <2>1, <2>2, <3>1, <3>2, DirtyNone DEF LaneGathers, Authorized, SessionPhases
    <3>4. PhaseInv'
      BY <1>1, <2>1, <3>1 DEF PhaseInv, Authorized, SessionPhases
    <3> QED  BY <1>1, <2>1, <3>1, <3>3, <3>4 DEF TruthInv, LaneInv
  <2>3. CASE BlockedSteps # {}
    <3> DEFINE st == [s \in StepIds |->
                        IF s \in BlockedSteps THEN [steps[s] EXCEPT !.checks = {"BLOCKED"}] ELSE steps[s]]
    <3>1. at' = "report" /\ steps' = SkipUnrun(st)
      BY <1>3, <2>3 DEF Preflight
    <3>2. PICK s \in StepIds : s \in BlockedSteps
      BY <2>3 DEF BlockedSteps, StepIds
    <3>3. st \in StepRecords /\ st[s].checks = {"BLOCKED"}
      BY <1>1, <3>2 DEF StepRecords, CheckStatuses
    <3> HIDE DEF st
    <3>4. steps' \in StepRecords /\ steps'[s].checks = {"BLOCKED"}
      BY <3>1, <3>3, SkipUnrunTells
    <3>5. Report' # "PASS"
      BY <3>2, <3>4, ReportTells, ReportIsIn
    <3>6. ReportTellsTruth' /\ BlockHidesNothing'
      BY <1>1, <1>2, <2>1, <2>3, <3>5 DEF LaneGathers, ReportTellsTruth, BlockHidesNothing
    <3>7. PhaseInv'
      BY <1>1, <2>1, <3>1 DEF PhaseInv, Authorized, SessionPhases
    <3> QED  BY <1>1, <2>1, <3>1, <3>4, <3>6, <3>7 DEF TruthInv, LaneInv
  <2> QED  BY <2>2, <2>3
<1>4. CASE Discovered
  <2> DEFINE found == {FromProbe(c, FALSE) : c \in local}
  <2>1. /\ at = "discovered" /\ at' = "contract" /\ steps' = Checked("protocol_auth", found)
        /\ local' = {} /\ UNCHANGED <<token, flaws, proved>> /\ LaneGathers
        /\ "protocol_auth" \in StepIds
    BY <1>4 DEF Discovered, TruthInv, LaneInv, StepIds
  <2>2. found \in SUBSET CheckStatuses /\ "BLOCKED" \notin found /\ (Dirty(found) <=> Dirty(local))
    BY <1>1, FromProbeTells
  <2> HIDE DEF found
  <2>3. /\ steps' \in StepRecords
        /\ \A s \in StepIds :
             /\ steps'[s].reason = steps[s].reason
             /\ steps'[s].checks = steps[s].checks \cup IF s = "protocol_auth" THEN found ELSE {}
    BY <1>1, <2>1, <2>2, CheckedTells
  <2>4. (\E s \in StepIds : Dirty(steps'[s].checks))
           <=> (\E s \in StepIds : Dirty(steps[s].checks)) \/ Dirty(local)
    BY <2>1, <2>2, <2>3, DirtyUnion, DirtyNone
  <2>5. Faults' = Faults
    BY <1>1, <2>1 DEF Faults
  <2>6. steps'["fixture_read"].checks = {}
    BY <2>1, <2>3 DEF LaneGathers, StepIds
  <2>7. \A s \in StepIds : ~steps'[s].reason /\ "BLOCKED" \notin steps'[s].checks
    BY <2>1, <2>2, <2>3 DEF LaneGathers
  <2>8. LaneGathers'
    BY <1>2, <2>1, <2>4, <2>5, <2>6, <2>7, DirtyNone DEF LaneGathers, Authorized, SessionPhases
  <2>9. PhaseInv'
    BY <1>1, <2>1 DEF PhaseInv, Authorized, SessionPhases
  <2> QED  BY <1>1, <2>1, <2>3, <2>8, <2>9 DEF TruthInv, LaneInv
<1>5. CASE TokenAcquired
  <2> DEFINE found == {FromProbe(c, token = "unavailable") : c \in local}
  <2>1. /\ at = "acquired" /\ local' = {} /\ UNCHANGED <<token, catalogue, flaws, proved>> /\ LaneGathers
        /\ IF token = "held" THEN at' = "initialize" /\ steps' = Checked("protocol_auth", found)
           ELSE StopWith(found)
    BY <1>5 DEF TokenAcquired, TruthInv, LaneInv
  <2>2. /\ found \in SUBSET CheckStatuses
        /\ token # "unavailable" => "BLOCKED" \notin found /\ (Dirty(found) <=> Dirty(local))
    BY <1>1, FromProbeTells
  <2> HIDE DEF found
  <2>3. CASE token = "held"
    <3>1. "protocol_auth" \in StepIds
      BY DEF StepIds
    <3>2. /\ steps' \in StepRecords
          /\ \A s \in StepIds :
               /\ steps'[s].reason = steps[s].reason
               /\ steps'[s].checks = steps[s].checks \cup IF s = "protocol_auth" THEN found ELSE {}
      BY <1>1, <2>1, <2>2, <2>3, <3>1, CheckedTells
    <3>3. (\E s \in StepIds : Dirty(steps'[s].checks))
             <=> (\E s \in StepIds : Dirty(steps[s].checks)) \/ Dirty(local)
      BY <2>2, <2>3, <3>1, <3>2, DirtyUnion, DirtyNone
    <3>4. Faults' = Faults
      BY <1>1, <2>1 DEF Faults
    <3>5. steps'["fixture_read"].checks = {}
      BY <2>1, <3>2 DEF LaneGathers, StepIds
    <3>6. \A s \in StepIds : ~steps'[s].reason /\ "BLOCKED" \notin steps'[s].checks
      BY <2>1, <2>2, <2>3, <3>2 DEF LaneGathers
    <3>7. at' = "initialize"
      BY <2>1, <2>3
    <3>8. LaneGathers'
      BY <1>2, <2>1, <3>3, <3>4, <3>5, <3>6, <3>7, DirtyNone DEF LaneGathers
    <3>9. PhaseInv'
      BY <1>1, <2>1, <2>3, <3>7 DEF PhaseInv
    <3> QED  BY <1>1, <2>1, <3>2, <3>7, <3>8, <3>9 DEF TruthInv, LaneInv
  <2>4. CASE token # "held" /\ token # "unavailable"
    BY <1>1, <2>1, <2>2, <2>4, LaneStops DEF LaneGathers
  <2>5. CASE token = "unavailable"
    <3>1. StopWith(found) /\ "token" \in flaws'
      BY <1>1, <2>1, <2>5 DEF PhaseInv
    <3>2. /\ steps' \in StepRecords /\ at' = "report" /\ Report' # "PASS"
          /\ Report' = "BLOCKED" => \A s \in StepIds : ~Dirty(steps[s].checks)
      BY <1>1, <2>1, <2>2, <3>1, StopTells
    <3>3. Report' = "BLOCKED" => flaws' \subseteq {"token"}
      BY <2>1, <3>2 DEF LaneGathers
    <3>4. BlockedSteps' = {}
      BY <1>2, <2>1 DEF LaneGathers
    <3>5. ReportTellsTruth' /\ BlockHidesNothing'
      BY <1>1, <2>1, <2>5, <3>1, <3>2, <3>3, <3>4 DEF ReportTellsTruth, BlockHidesNothing
    <3>6. PhaseInv'
      BY <1>1, <2>1, <3>2 DEF PhaseInv, Authorized, SessionPhases
    <3> QED  BY <1>1, <2>1, <3>2, <3>5, <3>6 DEF TruthInv, LaneInv
  <2> QED  BY <2>3, <2>4, <2>5
<1>6. CASE SelectFixture
  <2>1. /\ at = "select" /\ UNCHANGED <<local, token, catalogue, proved, flaws>> /\ LaneGathers
        /\ "fixture_read" \in StepIds
    BY <1>6 DEF SelectFixture, TruthInv, LaneInv, StepIds
  <2>2. CASE at' = "fixture" /\ steps' = Checked("fixture_read", {"PASS"})
    <3>1. {"PASS"} \in SUBSET CheckStatuses /\ ~Dirty({"PASS"}) /\ "BLOCKED" \notin {"PASS"}
      BY DEF CheckStatuses, Dirty
    <3>2. "fixture" \notin proved' /\ (flaws' # {} <=> flaws # {} \/ Dirty({"PASS"}))
      BY <2>1, <3>1 DEF LaneGathers
    <3> QED  BY <1>1, <2>1, <2>2, <3>1, <3>2, LaneGoesOn DEF Authorized, SessionPhases
  <2>3. ASSUME at' = "report", NEW S \in {{"FAIL"}, {"PASS", "BLOCKED"}},
               steps' = Checked("fixture_read", S),
               S = {"PASS", "BLOCKED"} => catalogue.fixture = "writes"
        PROVE  TruthInv'
    <3>1. S \in SUBSET CheckStatuses
      BY <2>3 DEF CheckStatuses
    <3>2. /\ steps' \in StepRecords
          /\ \A s \in StepIds :
               steps'[s].checks = steps[s].checks \cup IF s = "fixture_read" THEN S ELSE {}
      BY <1>1, <2>1, <2>3, <3>1, CheckedTells
    <3>3. Dirty(S) \/ "BLOCKED" \in S
      BY <2>3 DEF Dirty
    <3>4. Report' # "PASS"
      BY <2>1, <3>2, <3>3, ReportTells, ReportIsIn, DirtyUnion
    <3>5. Report' = "BLOCKED" => /\ \A s \in StepIds : ~Dirty(steps[s].checks)
                                 /\ S = {"PASS", "BLOCKED"}
      <4>1. Report' = "BLOCKED" => \A s \in StepIds : ~Dirty(steps'[s].checks)
        BY <3>2, ReportTells, ReportIsIn
      <4>2. Dirty({"FAIL"})
        BY DEF Dirty
      <4> QED  BY <2>1, <2>3, <3>2, <4>1, <4>2, DirtyUnion
    <3>6. Report' = "BLOCKED" => flaws' = {}
      <4>1. token = "held" /\ target.flow # "none" /\ local = {}
        BY <1>1, <2>1 DEF PhaseInv, LaneGathers, Authorized
      <4> QED  BY <2>1, <3>5, <4>1, DirtyNone DEF LaneGathers, Faults
    <3>7. BlockedSteps' = {} /\ "fixture" \notin proved'
      BY <1>2, <2>1 DEF LaneGathers
    <3>8. ReportTellsTruth' /\ BlockHidesNothing'
      BY <1>1, <2>1, <2>3, <3>4, <3>5, <3>6, <3>7 DEF ReportTellsTruth, BlockHidesNothing
    <3>9. PhaseInv'
      BY <1>1, <2>1, <2>3 DEF PhaseInv, Authorized, SessionPhases
    <3> QED  BY <1>1, <2>1, <2>3, <3>2, <3>8, <3>9 DEF TruthInv, LaneInv
  <2>4. \/ at' = "fixture" /\ steps' = Checked("fixture_read", {"PASS"})
        \/ at' = "report" /\ steps' = Checked("fixture_read", {"FAIL"})
        \/ /\ at' = "report" /\ steps' = Checked("fixture_read", {"PASS", "BLOCKED"})
           /\ catalogue.fixture = "writes"
    BY <1>6 DEF SelectFixture
  <2> QED  BY <2>2, <2>3, <2>4
<1>7. CASE ProbeSkips /\ UNCHANGED <<steps, catalogue, proved>>
               /\ flaws' = IF Skippable THEN flaws ELSE flaws \cup {at}
  <2>1. LaneGathers
    BY <1>7 DEF ProbeSkips, Absent, Acquired, TruthInv, LaneInv
  <2>2. Dirty(local) => Faults # {}
    BY <2>1 DEF LaneGathers
  <2>3. ProbeTold
    BY <1>1, <1>7, <2>2, ProbeSkipTold
  <2> QED  BY <1>1, <1>7, <2>3, LaneProbeKeeps
<1> QED  BY <1>3, <1>4, <1>5, <1>6, <1>7 DEF LaneCode

(* A request is sent, in either program. *)
LEMMA SendTells ==
  ASSUME TruthInv, ProbeSends \/ at \in SessionPhases,
         UNCHANGED <<target, at, documentVars, local, token, proved, flaws>>,
         target.program = "lane" => UNCHANGED <<steps, catalogue>>,
         target.program = "probe" => UNCHANGED runVars
  PROVE  TruthInv'
<1>1. at \in ProbePhases \cup SessionPhases /\ at \notin {"begin", "report"}
  BY DEF ProbeSends, ProbePhases, SessionPhases
<1>2. PhaseInv'
  BY <1>1 DEF TruthInv, PhaseInv, ProbeSends, Grant, SessionPhases
<1>3. Faults' = Faults /\ BlockedSteps' = BlockedSteps
  BY DEF Faults, BlockedSteps
<1>4. ASSUME target.program = "lane" PROVE LaneInv'
  <2>1. LaneGathers /\ steps' = steps /\ steps \in StepRecords
    BY <1>1, <1>4 DEF TruthInv, LaneInv
  <2>2. LaneGathers'
    BY <1>1, <1>3, <2>1 DEF LaneGathers
  <2> QED  BY <1>1, <2>1, <2>2 DEF LaneInv
<1>5. ASSUME target.program = "probe" PROVE RunInv'
  BY <1>1, <1>3, <1>5 DEF TruthInv, RunInv, RunGathers, runVars
<1> QED  BY <1>2, <1>4, <1>5 DEF TruthInv

LEMMA LaneTells ==
  ASSUME CredentialInv, TruthInv, target.program = "lane", LaneNext
  PROVE  TruthInv'
<1>1. CASE LaneCode
  BY <1>1, LaneCodeTells
<1>2. CASE LaneRequest
  BY <1>2, SendTells DEF LaneRequest, LaneSends
<1>3. CASE LaneRefused
  BY <1>3, LaneReturnsTell DEF LaneRefused, Failed
<1>4. CASE LaneAnswer
  <2>1. PICK a \in IF at \in SessionPhases THEN SessionAnswers(at) ELSE ProbeAnswers(at) :
          LaneReturns(IF bytes + 1 > target.config.maxBytes THEN Failed(Refusing(a)) ELSE a)
    BY <1>4 DEF LaneAnswer
  <2>2. CASE bytes + 1 > target.config.maxBytes
    BY <1>4, <2>1, <2>2, LaneReturnsTell DEF LaneAnswer, Failed
  <2>3. CASE ~(bytes + 1 > target.config.maxBytes)
    BY <1>4, <2>1, <2>3, LaneReturnsTell DEF LaneAnswer
  <2> QED  BY <2>2, <2>3
<1>5. CASE LaneLost
  BY <1>5, LaneReturnsTell DEF LaneLost, Failed
<1>6. CASE LaneCutShort
  <2>1. at \in ProbePhases \cup SessionPhases
    BY <1>6 DEF LaneCutShort, TruthInv, PhaseInv
  <2>2. LaneGathers
    BY <2>1 DEF TruthInv, LaneInv, ProbePhases, SessionPhases
  <2>3. {"ERROR"} \in SUBSET CheckStatuses /\ "BLOCKED" \notin {"ERROR"} /\ Dirty({"ERROR"})
    BY DEF CheckStatuses, Dirty
  <2>4. /\ StopWith({"ERROR"}) /\ call' = Idle /\ local' = {} /\ flaws' # {}
        /\ UNCHANGED <<target, token>>
    BY <1>6 DEF LaneCutShort, Judge
  <2> QED  BY <2>2, <2>3, <2>4, LaneStops
<1> QED  BY <1>1, <1>2, <1>3, <1>4, <1>5, <1>6 DEF LaneNext

-----------------------------------------------------------------------------
(* The exit code of the probe *)

LEMMA ExitTells == (ExitCode = 0 <=> ~Dirty(gathered)) /\ (ExitCode' = 0 <=> ~Dirty(gathered'))
BY DEF ExitCode, Dirty

(* A round trip comes back. *)
LEMMA RoundTripTells ==
  ASSUME TruthInv, target.program = "probe", NEW result, RoundTripReturns(result),
         result \in RoundTripAnswers(at) \/ result.kind = "failed",
         target' = target, call' = Idle,
         Judge(at, result.kind # "failed" /\ RunFitting(result))
  PROVE  TruthInv'
<1> DEFINE fits == result.kind # "failed" /\ RunFitting(result)
<1>1. /\ at \in RoundTripPhases /\ UNCHANGED token /\ RunGathers /\ token = "held"
      /\ target.flow # "none" /\ target.urlFine /\ local \subseteq ProbeStatuses
  BY DEF RoundTripReturns, RoundTripPhases, TruthInv, RunInv, RunGathers, PhaseInv, Authorized,
         SessionPhases
<1>2. /\ flaws' # {} <=> flaws # {} \/ ~fits
      /\ Faults' = flaws' /\ Faults = flaws
      /\ at = "list" /\ fits => "list" \in proved'
  BY <1>1 DEF Judge, Faults
<1>3. Dirty(gathered) \/ Dirty(local) <=> flaws # {}
  BY <1>1, <1>2 DEF RunGathers
<1>4. ASSUME NEW S, RoundTripEnds(S), fits <=> ~Dirty(S), at = "list" \/ Dirty(S)
      PROVE  TruthInv'
  <2>1. /\ at' = "report" /\ local' = {}
        /\ Dirty(gathered') <=> Dirty(gathered) \/ Dirty(local) \/ Dirty(S)
    BY <1>4, DirtyUnion DEF RoundTripEnds
  <2>2. ReportTellsTruth'
    BY <1>1, <1>2, <1>3, <1>4, <2>1, ExitTells DEF ReportTellsTruth
  <2>3. PhaseInv'
    BY <1>1, <2>1 DEF TruthInv, PhaseInv, Authorized, SessionPhases
  <2> QED  BY <2>1, <2>2, <2>3 DEF TruthInv, RunInv
<1>5. ASSUME NEW next \in RoundTripPhases, NEW S, RoundTripGoesOn(next, S), S \subseteq {"PASS"}, fits,
             listed'.pages \in Nat, listed'.pages < PageLimit
      PROVE  TruthInv'
  <2>1. /\ at' = next /\ gathered' = gathered /\ local' \subseteq ProbeStatuses
        /\ Dirty(local') <=> Dirty(local)
    BY <1>1, <1>5 DEF RoundTripGoesOn, ProbeStatuses, Dirty
  <2>2. RunGathers' /\ at' # "report"
    BY <1>1, <1>2, <1>3, <1>5, <2>1 DEF RunGathers, RoundTripPhases
  <2>3. PhaseInv'
    BY <1>1, <2>1 DEF TruthInv, PhaseInv, Authorized, SessionPhases, RoundTripPhases
  <2> QED  BY <2>1, <2>2, <2>3 DEF TruthInv, RunInv
<1>6. /\ Dirty({"ERROR"}) /\ Dirty({"FAIL"}) /\ Dirty({"PASS", "FAIL"}) /\ Dirty({"ERROR", "PASS"})
      /\ \A b \in BOOLEAN : Dirty({Holds(b)}) <=> ~b
  BY DEF Dirty, Holds
<1>7. CASE at \in {"initialize", "initialized"}
  <2>1. result.kind \in {"failed", "status", "malformed", "off_contract", "negotiated", "accepted"}
    BY <1>7 DEF RoundTripAnswers
  <2>2. fits <=> result.kind = IF at = "initialize" THEN "negotiated" ELSE "accepted"
    BY <1>7 DEF RunFitting
  <2>3. CASE result.kind \in {"negotiated", "accepted"}
    <3>1. fits /\ UNCHANGED listed /\ \E next \in {"initialized", "list"} : RoundTripGoesOn(next, {"PASS"})
      BY <1>7, <2>2, <2>3 DEF RoundTripReturns, RoundTripAnswers
    <3> QED  BY <1>1, <1>5, <3>1 DEF RunGathers, RoundTripPhases
  <2>4. CASE result.kind \notin {"negotiated", "accepted"}
    <3>1. ~fits
      BY <2>2, <2>4
    <3>2. \/ RoundTripEnds({"ERROR"}) \/ RoundTripEnds({"FAIL"})
          \/ RoundTripEnds({"ERROR", "PASS"}) \/ RoundTripEnds({"PASS", "FAIL"})
      <4>1. {"ERROR"} \cup {} = {"ERROR"} /\ {"ERROR"} \cup {"PASS"} = {"ERROR", "PASS"}
        OBVIOUS
      <4> QED  BY <2>1, <2>4, <4>1 DEF RoundTripReturns
    <3> HIDE DEF fits
    <3> QED  BY <1>4, <1>6, <3>1, <3>2
  <2> QED  BY <2>3, <2>4
<1>8. CASE at = "list"
  <2>1. CASE result.kind = "page"
    <3>1. result.more \in BOOLEAN
      BY <1>8, <2>1 DEF RoundTripAnswers
    <3>2. listed' = [pages |-> listed.pages + 1, tools |-> listed.tools + result.tools]
      BY <2>1 DEF RoundTripReturns
    <3>3. fits <=> IF result.more THEN listed.pages + 1 < PageLimit
                   ELSE listed.tools + result.tools >= target.minTools
      BY <1>8, <2>1 DEF RunFitting
    <3>4. CASE ~result.more
      <4>1. RoundTripEnds({Holds(listed'.tools >= target.minTools)})
        BY <2>1, <3>4 DEF RoundTripReturns
      <4>2. fits <=> listed'.tools >= target.minTools
        BY <3>2, <3>3, <3>4
      <4>3. fits <=> ~Dirty({Holds(listed'.tools >= target.minTools)})
        BY <4>2 DEF Dirty, Holds
      <4> QED  BY <1>4, <1>8, <4>1, <4>3
    <3>5. CASE result.more /\ listed'.pages = PageLimit
      <4>1. RoundTripEnds({"FAIL"})
        BY <2>1, <3>5 DEF RoundTripReturns
      <4>2. ~fits
        BY <1>1, <3>2, <3>3, <3>5, PageAssumption DEF RunGathers
      <4> QED  BY <1>4, <1>6, <4>1, <4>2
    <3>6. CASE result.more /\ listed'.pages # PageLimit
      <4>1. RoundTripGoesOn("list", {})
        BY <2>1, <3>6 DEF RoundTripReturns
      <4>2. /\ listed'.pages = listed.pages + 1 /\ listed.pages \in Nat /\ listed.pages < PageLimit
            /\ PageLimit \in Nat
        BY <1>1, <3>2, PageAssumption DEF RunGathers
      <4>3. listed'.pages \in Nat /\ listed'.pages < PageLimit /\ listed.pages + 1 < PageLimit
        BY <3>6, <4>2
      <4>4. fits
        BY <3>3, <3>6, <4>3
      <4> QED  BY <1>5, <4>1, <4>3, <4>4 DEF RoundTripPhases
    <3> QED  BY <3>1, <3>4, <3>5, <3>6
  <2>2. CASE result.kind # "page"
    <3>1. result.kind \in {"failed", "status", "malformed"}
      BY <1>8, <2>2 DEF RoundTripAnswers
    <3>2. ~fits
      BY <1>8, <2>2 DEF RunFitting
    <3>3. RoundTripEnds({"ERROR"}) \/ RoundTripEnds({"FAIL"})
      <4>1. {"ERROR"} \cup {} = {"ERROR"}
        OBVIOUS
      <4> QED  BY <1>8, <3>1, <4>1 DEF RoundTripReturns
    <3> HIDE DEF fits
    <3> QED  BY <1>4, <1>6, <3>2, <3>3
  <2> QED  BY <2>1, <2>2
<1> QED  BY <1>1, <1>7, <1>8 DEF RoundTripPhases

LEMMA RunReturnsTell ==
  ASSUME CredentialInv, TruthInv, target.program = "probe", NEW result, RunReturns(result), call # Idle,
         \/ at \notin RoundTripPhases /\ result \in ProbeAnswers(at)
         \/ at \in RoundTripPhases /\ result \in RoundTripAnswers(at)
         \/ result.kind = "failed"
  PROVE  TruthInv'
<1>1. target' = target /\ call' = Idle /\ Judge(at, result.kind # "failed" /\ RunFitting(result))
  BY DEF RunReturns
<1>2. CASE ProbeReturns(result) /\ UNCHANGED runVars
  <2>1. at \in ProbePhases /\ at \notin RoundTripPhases
    BY <1>2, ReturnsAreOrdered DEF ProbePhases, RoundTripPhases
  <2>2. RunFitting(result) <=> Fitting(at, result)
    BY <2>1 DEF RunFitting, RoundTripPhases
  <2>3. Judge(at, result.kind # "failed" /\ Fitting(at, result))
    BY <1>1, <2>2 DEF Judge
  <2>4. PhaseInv /\ local \subseteq ProbeStatuses /\ (Dirty(local) => Faults # {})
    BY <2>1 DEF TruthInv, RunInv, RunGathers, ProbePhases
  <2>5. ProbeTold
    BY <1>1, <1>2, <2>1, <2>3, <2>4, ProbeAnswerTold
  <2> QED  BY <1>1, <1>2, <2>5, RunProbeKeeps
<1>3. CASE RoundTripReturns(result)
  <2>1. result \in RoundTripAnswers(at) \/ result.kind = "failed"
    BY <1>3 DEF RoundTripReturns
  <2> QED  BY <1>1, <1>3, <2>1, RoundTripTells
<1> QED  BY <1>2, <1>3 DEF RunReturns

LEMMA RunCodeTells ==
  ASSUME CredentialInv, TruthInv, target.program = "probe", RunCode
  PROVE  TruthInv'
<1>1. /\ call = Idle /\ UNCHANGED <<target, call, grants, proved>> /\ PhaseInv
      /\ local \subseteq ProbeStatuses
  BY DEF RunCode, TruthInv
<1>2. CASE CheckTarget /\ UNCHANGED <<documentVars, token, flaws, listed>>
  <2>1. at = "begin" /\ local' = local /\ RunGathers /\ Faults' = Faults
    BY <1>1, <1>2 DEF CheckTarget, TruthInv, RunInv, Faults
  <2>2. CASE target.urlFine
    <3>1. at' = "challenge" /\ gathered' = {"PASS"}
      BY <1>2, <2>2 DEF CheckTarget
    <3>2. RunGathers'
      BY <1>1, <1>2, <2>1, <2>2, <3>1 DEF RunGathers, Dirty
    <3>3. PhaseInv'
      BY <1>1, <1>2, <3>1 DEF PhaseInv, Authorized, SessionPhases
    <3> QED  BY <1>1, <2>1, <3>1, <3>2, <3>3 DEF TruthInv, RunInv
  <2>3. CASE ~target.urlFine
    <3>1. at' = "report" /\ Dirty(gathered')
      BY <1>2, <2>3 DEF CheckTarget, Dirty
    <3>2. ReportTellsTruth'
      BY <1>1, <2>3, <3>1, ExitTells DEF ReportTellsTruth
    <3>3. PhaseInv'
      BY <1>1, <1>2, <3>1 DEF PhaseInv, Authorized, SessionPhases
    <3> QED  BY <1>1, <2>1, <3>1, <3>2, <3>3 DEF TruthInv, RunInv
  <2> QED  BY <2>2, <2>3
<1>3. CASE DiscoveryDone /\ UNCHANGED <<documentVars, token, flaws, listed>>
  <2>1. /\ at = "discovered" /\ at' = "contract" /\ local' = {} /\ RunGathers /\ Faults' = Faults
        /\ Dirty(gathered') <=> Dirty(gathered) \/ Dirty(local)
    BY <1>1, <1>3, DirtyUnion DEF DiscoveryDone, TruthInv, RunInv, Faults
  <2>2. RunGathers'
    BY <1>1, <1>3, <2>1, DirtyNone DEF RunGathers
  <2>3. PhaseInv'
    BY <1>1, <1>3, <2>1 DEF PhaseInv, Authorized, SessionPhases
  <2> QED  BY <1>1, <2>1, <2>2, <2>3 DEF TruthInv, RunInv
<1>4. CASE TokenDone /\ UNCHANGED <<documentVars, token, flaws, listed>>
  <2>1. ~Dirty({}) /\ ~Dirty({"SKIP"})
    BY DEF Dirty
  <2>2. /\ at = "acquired" /\ local' = {} /\ RunGathers /\ Faults' = Faults
        /\ at' = IF token = "held" THEN "initialize" ELSE "report"
        /\ Dirty(gathered') <=> Dirty(gathered) \/ Dirty(local)
    BY <1>1, <1>4, <2>1, DirtyUnion DEF TokenDone, TruthInv, RunInv, Faults
  <2>3. PhaseInv'
    BY <1>1, <1>4, <2>2 DEF PhaseInv, Authorized, SessionPhases
  <2>4. CASE token = "held"
    <3>1. RunGathers'
      BY <1>1, <1>4, <2>1, <2>2, <2>4 DEF RunGathers
    <3> QED  BY <1>1, <2>2, <2>3, <2>4, <3>1 DEF TruthInv, RunInv
  <2>5. CASE token # "held"
    <3>1. "token" \in flaws' /\ flaws' = flaws /\ target.urlFine
      BY <1>1, <1>4, <2>2, <2>5 DEF PhaseInv, RunGathers
    <3>2. ExitCode' = 0 <=> Faults' = {}
      BY <2>2, ExitTells DEF RunGathers
    <3>3. ReportTellsTruth'
      BY <1>1, <2>2, <2>5, <3>1, <3>2 DEF ReportTellsTruth, Faults
    <3> QED  BY <1>1, <2>2, <2>3, <2>5, <3>3 DEF TruthInv, RunInv
  <2> QED  BY <2>4, <2>5
<1>5. CASE ProbeSkips /\ UNCHANGED runVars /\ flaws' = IF Skippable THEN flaws ELSE flaws \cup {at}
  <2>1. RunGathers
    BY <1>5 DEF ProbeSkips, Absent, Acquired, TruthInv, RunInv
  <2>2. Dirty(local) => Faults # {}
    BY <2>1 DEF RunGathers
  <2>3. ProbeTold
    BY <1>1, <1>5, <2>2, ProbeSkipTold
  <2> QED  BY <1>1, <1>5, <2>3, RunProbeKeeps
<1> QED  BY <1>2, <1>3, <1>4, <1>5 DEF RunCode

LEMMA RunTells ==
  ASSUME CredentialInv, TruthInv, target.program = "probe", RunNext
  PROVE  TruthInv'
<1>1. CASE RunCode
  BY <1>1, RunCodeTells
<1>2. CASE RunRequest
  BY <1>2, SendTells DEF RunRequest, RunSends, RoundTripPhases, SessionPhases
<1>3. CASE RunResend
  <2>1. at \in {"prm", "as", "oidc"} /\ UNCHANGED <<target, at, local, token, proved, flaws, runVars>>
    BY <1>3 DEF RunResend, RetrySafe
  <2>2. PhaseInv'
    BY <2>1 DEF TruthInv, PhaseInv, Authorized, SessionPhases, ProbePhases
  <2>3. RunGathers' /\ at' # "report" /\ local' \subseteq ProbeStatuses
    BY <2>1 DEF TruthInv, RunInv, RunGathers, runVars, Faults
  <2> QED  BY <2>1, <2>2, <2>3 DEF TruthInv, RunInv
<1>4. CASE RunAnswer
  <2>1. PICK a \in IF at \in RoundTripPhases THEN RoundTripAnswers(at) ELSE ProbeAnswers(at) :
          RunReturns(a)
    BY <1>4 DEF RunAnswer
  <2> QED  BY <1>4, <2>1, RunReturnsTell DEF RunAnswer
<1>5. CASE RunLost
  BY <1>5, RunReturnsTell DEF RunLost, Failed
<1>6. CASE RunUnhandled
  <2>1. /\ at' = "report" /\ local' = {} /\ call' = Idle /\ UNCHANGED <<target, token>>
        /\ Dirty(gathered') /\ at \in flaws'
    BY <1>6 DEF RunUnhandled, Judge, Dirty
  <2>2. at # "token" \/ target.flow # "none"
    BY <1>6 DEF RunUnhandled, TruthInv, PhaseInv, Grant
  <2>3. ReportTellsTruth'
    BY <2>1, <2>2, ExitTells DEF ReportTellsTruth
  <2>4. PhaseInv'
    BY <2>1 DEF TruthInv, PhaseInv, Authorized, SessionPhases
  <2> QED  BY <2>1, <2>3, <2>4 DEF TruthInv, RunInv
<1> QED  BY <1>1, <1>2, <1>3, <1>4, <1>5, <1>6 DEF RunNext

-----------------------------------------------------------------------------
LEMMA InitTells == QualificationInit => TruthInv
<1> SUFFICES ASSUME QualificationInit PROVE TruthInv
  OBVIOUS
<1>1. /\ target \in Targets /\ at = "begin" /\ call = Idle /\ local = {} /\ token = "none"
      /\ flaws = {} /\ proved = {} /\ calls = 0 /\ gathered = {} /\ listed.pages = 0
      /\ steps = [s \in StepIds |-> Untouched]
  BY DEF QualificationInit, ProbeInit, LaneInit, RunInit
<1>2. Faults = {} /\ ~Dirty({})
  BY <1>1, DirtyNone DEF Faults
<1>3. /\ steps \in StepRecords
      /\ \A s \in StepIds : steps[s] = Untouched /\ ~steps[s].reason /\ steps[s].checks = {}
  BY <1>1 DEF StepRecords, Untouched
<1>4. LaneGathers
  BY <1>1, <1>2, <1>3 DEF LaneGathers, Authorized, SessionPhases, StepIds
<1>5. RunGathers
  BY <1>1, <1>2, PageAssumption DEF RunGathers
<1>6. PhaseInv
  BY <1>1 DEF PhaseInv, Authorized, SessionPhases
<1> QED  BY <1>1, <1>3, <1>4, <1>5, <1>6 DEF TruthInv, LaneInv, RunInv

(* What the checks say agrees with what came back, at every step of both   *)
(* programs and in their reports.                                          *)
THEOREM TruthInvariant == QualificationSpec => [](CredentialInv /\ TruthInv)
<1>1. CredentialInv /\ TruthInv /\ [QualificationNext]_qualificationVars => TruthInv'
  <2> SUFFICES ASSUME CredentialInv, TruthInv, [QualificationNext]_qualificationVars
               PROVE  TruthInv'
    OBVIOUS
  <2>1. CASE target.program = "lane" /\ LaneNext
    BY <2>1, LaneTells
  <2>2. CASE target.program = "probe" /\ RunNext
    BY <2>2, RunTells
  <2>3. CASE UNCHANGED qualificationVars
    <3>1. UNCHANGED <<target, at, call, local, token, proved, flaws, steps, calls, catalogue,
                      gathered, listed>>
      BY <2>3 DEF qualificationVars, probeVars, laneVars, runVars
    <3>2. /\ Faults' = Faults /\ BlockedSteps' = BlockedSteps /\ (PhaseInv' <=> PhaseInv)
          /\ Report' = Report /\ ExitCode' = ExitCode
      BY <3>1, ReportIsIn DEF Faults, BlockedSteps, PhaseInv, Grant, ExitCode
    <3>3. /\ ReportTellsTruth' <=> ReportTellsTruth
          /\ BlockHidesNothing' <=> BlockHidesNothing
      BY <3>1, <3>2 DEF ReportTellsTruth, BlockHidesNothing
    <3>4. (LaneGathers' <=> LaneGathers) /\ (RunGathers' <=> RunGathers)
      BY <3>1, <3>2 DEF LaneGathers, RunGathers
    <3> QED  BY <3>1, <3>2, <3>3, <3>4 DEF TruthInv, LaneInv, RunInv
  <2> QED  BY <2>1, <2>2, <2>3 DEF QualificationNext
<1> QED  BY InitTells, CredentialInvariant, <1>1, PTL DEF QualificationSpec

(* A report of the lane is a pass, and the probe exits with 0, exactly if  *)
(* everything that was asked for was done and was as it should be          *)
(* (Step.status, worst, exit_code).                                        *)
THEOREM ReportsTellTruth == QualificationSpec => []ReportTellsTruth
<1>1. CredentialInv /\ TruthInv => ReportTellsTruth
  BY ProbeAssumption DEF CredentialInv, TruthInv, LaneInv, RunInv, ReportTellsTruth
<1> QED  BY TruthInvariant, <1>1, PTL

(* A lane that reports that it was blocked found nothing wrong with the    *)
(* gateway (run_smoke, blocked_report).                                    *)
THEOREM BlocksHideNothing == QualificationSpec => []BlockHidesNothing
<1>1. CredentialInv /\ TruthInv => BlockHidesNothing
  BY DEF TruthInv, LaneInv, BlockHidesNothing
<1> QED  BY TruthInvariant, <1>1, PTL
=============================================================================
