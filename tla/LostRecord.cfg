SPECIFICATION Spec
CONSTANTS
  Handlers = {h1}
  Main = main
  Requests <- JoinAndLeave
  UserId <- MCUserId
  GroupId <- MCGroupId
  RoleId <- MCRoleId
  ResourceName <- MCResourceName
  BindingId <- PolicyBindingId
  ResourceId <- PolicyResourceId
  SeedUsers <- MCSeedUsers
  SeedRoles <- MCSeedRoles
  SeedBindings <- MCSeedBindings
  SeedResources <- ModelOnly
  Faults = {"lost-record", "crash"}
PROPERTIES StartupRepairs
