SPECIFICATION FairSpec
CONSTANTS
    Addr <- MCAddr
    NoAddr = 0
    Rom <- MCRom
    Val <- MCValZero
    Span <- MCSpan
    LineOf <- MCShared
    PageOf <- MCShared
    MaxSuccs = 1
    Writers <- MCCpuJitScsi
    StableEdges = TRUE
INVARIANTS
    NoStaleCode
    NoDanglingJump
PROPERTIES
    Progress
    EngineDescends
