\* Two clusters with DNS hosts whose kubeconfig Secrets come and go, auto-failover on,
\* failing calls and crashes anywhere, every assignment of roles, to one target or none too.
CONSTANTS
  Cluster = {eu, us}
  Namespace = {ns1, ns2}
  None = None
  eu = eu
  us = us
  ap = ap
  ns1 = ns1
  ns2 = ns2
  Position <- MCPosition
  NamespaceOf <- OneNamespace
  HostKind <- AllDNS
  ExternalHost = {}
  AutoFailover = TRUE
  Threshold = 2
  InitSpecs <- EuPrimary
  UserSpecs <- AnyRoles
  PatientUser = TRUE
  Flaky = TRUE
  Unstable = {}
  Losable = {eu, us}
  Deletable = FALSE
  Settling = FALSE
SPECIFICATION Spec
INVARIANTS
  TypeOK
  NoSplitBrain
  ReadyMeansConverged
PROPERTIES
  PatchLeadsToFailover
  ImplementsTopology
