\* Two requests at once, three in all, of an admin and a user.
SPECIFICATION Spec
CONSTANTS
  ann = ann
  bob = bob
  staff = staff
  adminToken = adminToken
  apiToken = apiToken
  Slots = {s1, s2}
  Emails = {ann, bob}
  AdminEmails = {ann}
  Claims = {staff}
  TokenKind <- Kinds
  AutoCreate = TRUE
  MaxAccounts = 2
  MaxEvents = 3
  MaxDevices = 3
  MaxKeys = 3
  Edits <- NewGroups
  StartUsers <- OldUsers
  StartDevices <- OldDevices
  StartSessions <- OldSessions
  StartGroup <- OldGroup
INVARIANTS TypeOK SeesOwnOnly BannedStaysOut
PROPERTIES TouchesOwnOnly ShutGetsNone LeavesOutKept
SYMMETRY Symmetry
CHECK_DEADLOCK FALSE
