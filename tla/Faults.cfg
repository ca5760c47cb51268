SPECIFICATION Spec
CONSTANTS
  Users = {u1}
  Claims = {c1}
  Providers = {pr1}
  Groups = {g1}
  Peers = {p1, p2}
  Ifaces = {1, 2}
  MaxGen = 1
  Slots = {s1}
  Start <- SettledStart
  Kinds = {"access", "user", "resync", "device", "interface", "fault", "crash"}
  MaxCrashes = 1
  NoUser = NoUser
  NoGroup = NoGroup
  Boot = boot
INVARIANT TypeOK
INVARIANT OwnDevicesOnly
PROPERTY SuccessMeansEnforced
PROPERTY EveryTaskEnds
