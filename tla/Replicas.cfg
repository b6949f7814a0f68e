\* Two operators at once, each with a cache that lags, over three clusters; calls that
\* fail and crashes until the world settles.
CONSTANTS
  Cluster = {eu, us, ap}
  None = None
  eu = eu
  us = us
  ap = ap
  Position <- MCPosition
  Operator = {o1, o2}
  MaxLag = 1
  Flaky = TRUE
  InitPrimary = eu
SPECIFICATION Spec
INVARIANTS
  OneWriterUntilDisturbed
PROPERTIES
  TopologyUntilDisturbed
  Heals
