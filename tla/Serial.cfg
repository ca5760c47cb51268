SPECIFICATION FairSpec
CONSTANTS
  Users = {u1}
  Claims = {c1}
  Providers = {pr1}
  Groups = {g1}
  Peers = {p1}
  Ifaces = {1, 2}
  MaxGen = 2
  Slots = {s1}
  Start <- EmptyStart
  Kinds = {"interface", "group", "user", "access", "device", "resync", "crash"}
  MaxCrashes = 1
  NoUser = NoUser
  NoGroup = NoGroup
  Boot = boot
INVARIANT QuiescentExact
PROPERTY KeepsPromise
