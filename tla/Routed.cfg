\* With the bounds used up and no request in flight there is nothing left to do.
SPECIFICATION Spec
CONSTANTS
  Width <- SmallWidth
  Users = {u1}
  NoUser = NoUser
  Slots = {s1}
  Subnets <- OnlyV6
  Rendered = {endpoint}
  Plain = {}
  Values = {v1}
  Limits = {1}
  Unlimited = Unlimited
  Lengths = {2}
  Fixed = {}
  Kinds = {"mine", "admin"}
  MaxDevices = 2
  MaxKeys = 1
  MaxVersion = 1
INVARIANTS
  AddressesDisjoint
CHECK_DEADLOCK FALSE
