\* Faults, crashes and edits that eventually stop, auto-failover on; every target sets
\* externalHost.
CONSTANTS
  Cluster = {eu, us}
  Namespace = {ns1, ns2}
  None = None
  eu = eu
  us = us
  ap = ap
  ns1 = ns1
  ns2 = ns2
  Position <- MCPosition
  NamespaceOf <- OneNamespace
  HostKind <- AllDNS
  ExternalHost = {eu, us}
  AutoFailover = TRUE
  Threshold = 2
  InitSpecs <- EuPrimary
  UserSpecs <- AnyPrimary
  PatientUser = TRUE
  Flaky = TRUE
  Unstable = {}
  Losable = {eu}
  Deletable = FALSE
  Settling = TRUE
SPECIFICATION LiveSpec
PROPERTIES
  FailoverCompletes
  Converges
