\* One operator whose cache lags behind; nothing fails.
CONSTANTS
  Cluster = {eu, us}
  None = None
  eu = eu
  us = us
  ap = ap
  Position <- MCPosition
  Operator = {o1}
  MaxLag = 3
  Flaky = FALSE
  InitPrimary = eu
SPECIFICATION Spec
INVARIANTS
  OneWriter
