CONSTANTS
  l1 = l1  l2 = l2  l3 = l3
  Links = {l1, l2, l3}
  ForeignLinks = {l3}
  RoleOf <- Roles
  NoLink = NoLink
  Exchanges = {x1, x2}
  Visits = {v1}
  Names = {"admin", "viewer"}
  Provisions = {1, 2, 3}
  Grants <- MCGrants
  NoGrant = NoGrant
SPECIFICATION AccountsSpec
INVARIANTS
  AccountsTypeOK
  LinkOpensOneSession
  RotationRetiresTheOld
PROPERTIES
  ExchangeIsAnswered
CHECK_DEADLOCK FALSE
