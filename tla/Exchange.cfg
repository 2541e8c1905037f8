\* The calls of the client and the life of the process.
SPECIFICATION FairSpec
CONSTANTS
  MaxStore = 2
  MaxModel = 2
  Names <- MCNames
  Calls <- MCCalls
INVARIANTS
  StartupTypeOK
  ExchangeTypeOK
  ServesRemembered
  RecordOfRemembered
  EngineThere
  CalledAsMeant
  Identified
  RefusalChangesNothing
  SuccessIsDone
  Understood
PROPERTIES
  CallsEnd
  StopsWhenTold
  Bootstraps
