\* Deletion at any moment, with outages of one target, a kubeconfig Secret of the other that
\* comes and goes, failing calls and crashes, all of which eventually stop.
\* The system stops once the object is gone.
CONSTANTS
  Cluster = {eu, us}
  Namespace = {ns1, ns2}
  None = None
  eu = eu
  us = us
  ap = ap
  ns1 = ns1
  ns2 = ns2
  Position <- MCPosition
  NamespaceOf <- OneNamespace
  HostKind <- AllIP
  ExternalHost = {}
  AutoFailover = FALSE
  Threshold = 2
  InitSpecs <- EuPrimary
  UserSpecs <- AnyPrimary
  PatientUser = TRUE
  Flaky = TRUE
  Unstable = {eu}
  Losable = {us}
  Deletable = TRUE
  Settling = TRUE
SPECIFICATION LiveSpec
INVARIANTS
  FinalizedClean
PROPERTIES
  DeletionCompletes
  ImplementsTopology
CHECK_DEADLOCK FALSE
