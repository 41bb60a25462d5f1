\* The lane and the probe, for targets of every kind.
SPECIFICATION FairQualificationSpec
CONSTANTS
  i1 = i1
  i2 = i2
  Issuers <- MCIssuers
  Origin = i1
  NoIssuer = NoIssuer
  Targets <- MCTargets
  PageLimit = 2
INVARIANTS
  ReportTellsTruth
  BlockHidesNothing
  CredentialsStayHome
  GrantsAreSingle
PROPERTIES
  EveryRunReports
\* A run ends.
CHECK_DEADLOCK FALSE
