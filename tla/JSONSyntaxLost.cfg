CONSTANTS
  IDs <- MCIDs
  Namespaces <- MCNamespaces
  Symbols = {"app.Get"}
  Durations <- MCDurations
  ByteSizes <- MCByteSizes
  Loads <- MCLoads
  Links <- MCLinks
  JSONNames = {"b.json"}
  RemoteNames = {"https://b.yaml"}
  AbsoluteNames = {"/a.yaml"}
  MaximumFileSize = 2
  MaximumIncludeDepth = 3
  MaximumTotalFiles = 3
  MaximumTotalBytes = 4
INIT LoadInit
NEXT LoadNext
INVARIANTS
  SyntaxErrorsReported
CHECK_DEADLOCK FALSE
