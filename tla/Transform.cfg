CONSTANTS
  Programs <- MCPrograms
  Requests <- MCRequests
  Files = {1}
  Bridges = {2}
  MaxEdits = 1
  MaxPlans = 2
  IDs <- MCIDs
  Namespaces <- MCNamespaces
  Symbols = {"app.Get"}
  Durations <- MCDurations
  ByteSizes <- MCByteSizes
  Loads <- MCLoads
  Links <- MCLinks
  JSONNames = {"b.json"}
  RemoteNames = {"https://b.yaml"}
  AbsoluteNames = {"/a.yaml"}
  MaximumFileSize = 2
  MaximumIncludeDepth = 3
  MaximumTotalFiles = 3
  MaximumTotalBytes = 4
INIT Init
NEXT Next
INVARIANTS
  
  PrefetchesAreSafe
  PlanFilesMatch
  
  IncluderWins
  
PROPERTIES
  EditsSurvive
CHECK_DEADLOCK FALSE
