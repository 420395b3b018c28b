CONSTANTS
    Ends <- MCEnds
    Peer <- MCPeer
    URIs = {1}
    MaxRunes = 3
    Sessions <- MCSessions
    Sources = {1, 2}
    SizeOf <- MCSizes
    Requests = {1, 2}
    MaxEntries = 2
    MaxBytes = 2
    MaxDiskBytes = 2
    MaxFaults = 1
    Daemons = {1, 2}
    NoDaemon = 0
    MaxCrashes = 2
SPECIFICATION Spec
INVARIANTS
    AnalysisCatchesUp
    
    ServedIsComputed
    OneOwner
PROPERTIES
    RequestsAnswered
    LookupsReturn
CHECK_DEADLOCK FALSE
