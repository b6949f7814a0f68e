\* Three clusters, failing calls and crashes anywhere, patient users.
CONSTANTS
  Cluster = {eu, us, ap}
  Namespace = {ns1, ns2}
  None = None
  eu = eu
  us = us
  ap = ap
  ns1 = ns1
  ns2 = ns2
  Position <- MCPosition
  NamespaceOf <- OneNamespace
  HostKind <- AllIP
  ExternalHost = {}
  AutoFailover = FALSE
  Threshold = 2
  InitSpecs <- EuPrimary
  UserSpecs <- AnyPrimary
  PatientUser = TRUE
  Flaky = TRUE
  Unstable = {}
  Losable = {}
  Deletable = FALSE
  Settling = FALSE
SPECIFICATION Spec
INVARIANTS
  SwitchInv
  NoSplitBrain
  ReadyMeansConverged
PROPERTIES
  FailoverSettles
  ImplementsTopology
