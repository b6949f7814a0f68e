\* One cluster is reached by a DNS name, the others by IP addresses.
CONSTANTS
  Cluster = {eu, us, ap}
  Namespace = {ns1, ns2}
  None = None
  eu = eu
  us = us
  ap = ap
  ns1 = ns1
  ns2 = ns2
  Position <- MCPosition
  NamespaceOf <- OneNamespace
  HostKind <- MixedHosts
  ExternalHost = {}
  AutoFailover = FALSE
  Threshold = 2
  InitSpecs <- EuPrimary
  UserSpecs <- AnyPrimary
  PatientUser = TRUE
  Flaky = FALSE
  Unstable = {}
  Losable = {}
  Deletable = FALSE
  Settling = FALSE
SPECIFICATION Spec
INVARIANTS
  ReadyMeansConverged
