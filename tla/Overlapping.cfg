SPECIFICATION Spec
CONSTANTS
  Users = {u1}
  Claims = {c1}
  Providers = {pr1}
  Groups = {g1}
  Peers = {p1}
  Ifaces = {1}
  MaxGen = 2
  Slots = {s1, s2}
  Start <- SettledStart
  Kinds = {"device", "group", "lapse", "signin", "interface"}
  MaxCrashes = 0
  NoUser = NoUser
  NoGroup = NoGroup
  Boot = boot
INVARIANT FreshSyncExact
INVARIANT ShutStaysOut
SYMMETRY SlotSymmetry
