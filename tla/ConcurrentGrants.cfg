SPECIFICATION FairSpec
CONSTANTS
  Handlers = {h1, h2}
  Main = main
  Requests <- RacingRequests
  UserId <- MCUserId
  GroupId <- MCGroupId
  RoleId <- MCRoleId
  ResourceName <- MCResourceName
  BindingId <- GrantBindingId
  ResourceId <- PolicyResourceId
  SeedUsers <- SeedAnn
  SeedRoles <- MCSeedRoles
  SeedBindings <- MCSeedBindings
  SeedResources <- ModelOnly
  Faults = {"lost-record", "crash"}
INVARIANTS OneCompatibilityBinding
PROPERTIES StartupRecords Answered
