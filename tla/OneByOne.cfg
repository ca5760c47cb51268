\* With the bounds used up and no request in flight there is nothing left to do.
SPECIFICATION Spec
CONSTANTS
  Width <- SmallWidth
  Users = {u1}
  NoUser = NoUser
  Slots = {s1}
  Subnets <- OnlyV6
  Rendered = {endpoint}
  Plain = {download}
  Values = {v1, v2}
  Limits = {1, Unlimited}
  Unlimited = Unlimited
  Lengths = {1, 2}
  Fixed <- FixedHost
  Kinds = {"mine", "admin", "device", "update", "fault"}
  MaxDevices = 2
  MaxKeys = 2
  MaxVersion = 2
INVARIANTS
  UnmarkedIsCurrent
PROPERTY CarvedClear
CHECK_DEADLOCK FALSE
