SPECIFICATION FairSpec
CONSTANTS
  NsBody = {n1}
  Extra = {e0, e1}
  NoExtra = e0
  NoSpace = NoSpace
  JobBody = {j1, bad}
  Invalid = {bad}
  Foreign = Foreign
  NoJob = NoJob
INVARIANTS TypeOK
PROPERTIES SubjectIsManaged ReportMatchesSpec UnmanagedKept
  NamespaceConverges JobConverges RefusalIsReported DeletionCompletes CascadeCompletes
CHECK_DEADLOCK FALSE
