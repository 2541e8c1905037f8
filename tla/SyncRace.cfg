SPECIFICATION Spec
CONSTANTS
  Handlers = {h1, h2}
  Main = main
  Requests <- GrantsOfAnn
  UserId <- MCUserId
  GroupId <- MCGroupId
  RoleId <- MCRoleId
  ResourceName <- MCResourceName
  BindingId <- ManyBindingId
  ResourceId <- PolicyResourceId
  SeedUsers <- SeedAnn
  SeedRoles <- MCSeedRoles
  SeedBindings <- MCSeedBindings
  SeedResources <- ModelOnly
  Faults = {}
INVARIANTS EnforcedAtRest
