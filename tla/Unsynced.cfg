SPECIFICATION FairSpec
CONSTANTS
  Users = {u1, u2}
  Claims = {c1}
  Providers = {pr1}
  Groups = {g1}
  Peers = {p1, p2}
  Ifaces = {1}
  MaxGen = 1
  Slots = {s1}
  Start <- ClaimedStart
  Kinds = {"lapse", "signin"}
  MaxCrashes = 0
  NoUser = NoUser
  NoGroup = NoGroup
  Boot = boot
PROPERTY LapseOrLoginTakesHold
