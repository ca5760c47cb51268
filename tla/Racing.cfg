\* With the bounds used up and no request in flight there is nothing left to do.
SPECIFICATION Spec
CONSTANTS
  Width <- SmallWidth
  Users = {u1}
  NoUser = NoUser
  Slots = {s1, s2}
  Subnets <- DualStack
  Rendered = {endpoint}
  Plain = {}
  Values = {v1}
  Limits = {1}
  Unlimited = Unlimited
  Lengths = {}
  Fixed = {}
  Kinds = {"mine", "admin", "device", "fault"}
  MaxDevices = 3
  MaxKeys = 2
  MaxVersion = 1
SYMMETRY SlotSymmetry
INVARIANTS
  TypeOK
  AddressesDisjoint
  LimitOvershoot
CHECK_DEADLOCK FALSE
