SPECIFICATION Spec
CONSTANTS
  Handlers = {h1}
  Main = main
  Requests <- PolicyRequests
  UserId <- MCUserId
  GroupId <- MCGroupId
  RoleId <- MCRoleId
  ResourceName <- MCResourceName
  BindingId <- PolicyBindingId
  ResourceId <- PolicyResourceId
  SeedUsers <- MCSeedUsers
  SeedRoles <- MCSeedRoles
  SeedBindings <- MCSeedBindings
  SeedResources <- PolicySeedResources
  Faults = {"error", "crash"}
INVARIANTS TypeOK Exact
PROPERTIES Implements SuccessIsEnforced StartupRepairs UpdateKeepsSound
