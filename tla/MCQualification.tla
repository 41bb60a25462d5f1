-------------------------- MODULE MCQualification --------------------------
(* Instances of Qualification for TLC. *)
EXTENDS Qualification

CONSTANTS i1, i2

MCIssuers == {i1, i2}

(* Configurations of the smoke lane *)
Config ==
  [mode |-> "client_credentials", configured |-> FALSE, secrets |-> TRUE, legacy |-> FALSE,
   expected |-> {}, requireMetadata |-> TRUE, wellKnown |-> 2,
   usable |-> TRUE, placeholders |-> FALSE, approved |-> TRUE, dispatched |-> FALSE,
   maxCalls |-> 16, maxBytes |-> 16, maxPages |-> 2, maxTools |-> 2, maxListBytes |-> 1]

MCConfigs ==
  {[Config EXCEPT !.configured = c, !.legacy = l, !.expected = e, !.requireMetadata = r] :
     c \in BOOLEAN, l \in BOOLEAN, e \in {{}, {i1}}, r \in BOOLEAN}
  \cup {[Config EXCEPT !.mode = "bearer", !.requireMetadata = r] : r \in BOOLEAN}
  \cup {[Config EXCEPT !.maxCalls = n] : n \in {1, 4, 7}}
  \cup {[Config EXCEPT !.maxBytes = n] : n \in {2, 3, 6}}
  \cup {[Config EXCEPT !.dispatched = TRUE, !.maxListBytes = 2, !.maxTools = n] : n \in {1, 2}}
  \cup {[Config EXCEPT !.usable = u, !.placeholders = p, !.secrets = s, !.approved = a] :
          u \in BOOLEAN, p \in BOOLEAN, s \in BOOLEAN, a \in BOOLEAN}

(* Targets of the probe *)
Probe ==
  [program |-> "probe", flow |-> "client_credentials", disposable |-> FALSE, secrets |-> TRUE,
   configured |-> FALSE, legacy |-> FALSE, expected |-> {}, wellKnown |-> 2,
   prmPolicy |-> "required", asPolicy |-> "required", oidcPolicy |-> "supported",
   errorProbe |-> TRUE, urlFine |-> TRUE, retries |-> 1, addresses |-> 2, minTools |-> 1]

MCProbes ==
  {[Probe EXCEPT !.configured = c, !.legacy = l, !.expected = e] :
     c \in BOOLEAN, l \in BOOLEAN, e \in {{}, {i1}, MCIssuers}}
  \cup {[Probe EXCEPT !.flow = "authorization_code"]}
  \cup {[Probe EXCEPT !.flow = "refresh_token", !.disposable = d, !.configured = TRUE,
                      !.legacy = l] : d \in BOOLEAN, l \in BOOLEAN}
  \cup {[Probe EXCEPT !.flow = f, !.prmPolicy = p, !.asPolicy = p, !.oidcPolicy = p,
                      !.legacy = TRUE] :
          f \in {"none", "bearer"}, p \in {"required", "supported", "forbidden", "ignore"}}
  \cup {[Probe EXCEPT !.secrets = FALSE], [Probe EXCEPT !.urlFine = FALSE]}

MCTargets == {BuildTarget(c) : c \in MCConfigs} \cup MCProbes
=============================================================================
