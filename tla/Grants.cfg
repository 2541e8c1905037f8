SPECIFICATION Spec
CONSTANTS
  Handlers = {h1}
  Main = main
  Requests <- GrantRequests
  UserId <- MCUserId
  GroupId <- MCGroupId
  RoleId <- MCRoleId
  ResourceName <- MCResourceName
  BindingId <- GrantBindingId
  ResourceId <- GrantResourceId
  SeedUsers <- MCSeedUsers
  SeedRoles <- MCSeedRoles
  SeedBindings <- MCSeedBindings
  SeedResources <- PolicySeedResources
  Faults = {"error"}
INVARIANTS Exact TreeIntact
PROPERTIES RevokeLowers AuthorizedChange
