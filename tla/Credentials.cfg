\* Three clusters and both roles: failing calls, crashes, rotations, edits and failovers until they stop.
CONSTANTS
  None = None
  eu = eu
  us = us
  ap = ap
  Cluster = {eu, us, ap}
  Position <- MCPosition
  Rotation = {v1}
  InitPrimary = eu
SPECIFICATION Spec
INVARIANTS
  TypeOK
  OwnPasswordOnlyWhenExposed
PROPERTIES
  CredentialsConverge
