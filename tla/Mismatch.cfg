SPECIFICATION Spec
CONSTANTS
  Handlers = {h1}
  Main = main
  Requests <- BindMismatch
  UserId <- MCUserId
  GroupId <- MCGroupId
  RoleId <- MCRoleId
  ResourceName <- MCResourceName
  BindingId <- PolicyBindingId
  ResourceId <- PolicyResourceId
  SeedUsers <- SeedAnn
  SeedRoles <- SeedSsh
  SeedBindings <- MCSeedBindings
  SeedResources <- ModelOnly
  Faults = {}
INVARIANTS BindingsProjectable
