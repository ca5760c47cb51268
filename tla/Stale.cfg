\* With the bounds used up and no request in flight there is nothing left to do.
SPECIFICATION Spec
CONSTANTS
  Width <- SmallWidth
  Users = {u1}
  NoUser = NoUser
  Slots = {s1, s2}
  Subnets <- OnlyV6
  Rendered = {endpoint}
  Plain = {}
  Values = {v1, v2}
  Limits = {1}
  Unlimited = Unlimited
  Lengths = {}
  Fixed = {}
  Kinds = {"mine", "update"}
  MaxDevices = 1
  MaxKeys = 1
  MaxVersion = 2
INVARIANTS
  UnmarkedIsCurrent
CHECK_DEADLOCK FALSE
