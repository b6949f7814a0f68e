\* The kubeconfig Secret of the primary may be gone for good.
CONSTANTS
  Cluster = {eu, us}
  Namespace = {ns1, ns2}
  None = None
  eu = eu
  us = us
  ap = ap
  ns1 = ns1
  ns2 = ns2
  Position <- MCPosition
  NamespaceOf <- OneNamespace
  HostKind <- AllIP
  ExternalHost = {eu, us}
  AutoFailover = TRUE
  Threshold = 2
  InitSpecs <- EuPrimary
  UserSpecs <- AnyPrimary
  PatientUser = TRUE
  Flaky = FALSE
  Unstable = {}
  Losable = {eu}
  Deletable = FALSE
  Settling = TRUE
SPECIFICATION LiveSpec
PROPERTIES
  AutoFailoverRescues
