\* Two workers and one Secret that is created, rotated, broken, touched and deleted.
CONSTANTS
  Ref = {eu}
  Worker = {w1, w2}
  Kubeconfig = {k1, k2}
  None = None
  Broken = Broken
  MaxVersion = 3
SPECIFICATION Spec
INVARIANTS
  TypeOK
  CacheCoherent
  ServesWhatItRead
PROPERTIES
  RotationTakesEffect
