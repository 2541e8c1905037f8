SPECIFICATION FairSpec
CONSTANTS
  Editors = {e1, e2}
  Contents <- MCContents
  Created <- MCCreated
  BindingId <- MCBindingId
  Supported <- MCSupported
  MaxRevision = 3
INVARIANTS TypeOK AuditIsHistory ReadsAreNotBehind
PROPERTIES NoLostUpdate PreviewIsKept RequestsEnd
