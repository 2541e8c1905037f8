\* A failure that is told as a success.
SPECIFICATION Spec
CONSTANTS
  MaxStore = 1
  MaxModel = 1
  Names <- FewNames
  Calls <- FewCalls
INVARIANT FailuresTold
