\* One interface with each backend, 2 calls at a time, 3 in all.
SPECIFICATION Spec
CONSTANTS
  foreign = foreign
  wanted = wanted
  leftover = leftover
  Slots = {s1, s2}
  Keys = {k1, k2}
  V4 <- V4Addresses
  V6 <- V6Addresses
  Tunnels <- TunnelSets
  StartRouters <- UsedRouter
  MaxCalls = 3
INVARIANTS TypeOK
PROPERTIES KeepsApplyPromise NoDropout OursReconciled
SYMMETRY Symmetry
CHECK_DEADLOCK FALSE
