SPECIFICATION FairSpec
CONSTANTS
  Handlers = {h1}
  Main = main
  Requests <- ProgressRequests
  UserId <- MCUserId
  GroupId <- MCGroupId
  RoleId <- MCRoleId
  ResourceName <- MCResourceName
  BindingId <- ProgressBindingId
  ResourceId <- ProgressResourceId
  SeedUsers <- MCSeedUsers
  SeedRoles <- MCSeedRoles
  SeedBindings <- MCSeedBindings
  SeedResources <- PolicySeedResources
  Faults = {}
INVARIANTS EnforcedAtRest DecidesAtRest
PROPERTIES Answered Converges
