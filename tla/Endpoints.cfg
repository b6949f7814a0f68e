\* Both Service types, with and without externalHost; nodes, load balancer, port and role
\* change, calls fail and the operator crashes until all of it stops.
CONSTANTS
  Colon = Colon
  NoPort = NoPort
  DefaultNodePort = p32432
  PostgresPort = p5432
  p30001 = p30001
  tokA = tokA
  tokB = tokB
  lb = lb
  ext = ext
  Label = {tokA, tokB, lb, ext}
  Port = {p32432, p5432, p30001}
  Nodes = 2
  HostName <- MCHost
  HostKind <- MCHostKind
  NodeIP <- MCNodeIP
  Ingress <- MCIngress
  InitCfg <- MCInitCfg
SPECIFICATION Spec
INVARIANTS
  TypeOK
PROPERTIES
  ReadyTellsAddress
  StandbyReachesPrimary
  PromotionCompletes
