SPECIFICATION Spec
CONSTANTS
    Addr <- MCAddr
    NoAddr = 0
    Rom <- MCNone
    Val <- MCVal
    Span <- MCSpanOverlap
    LineOf <- MCShared
    PageOf <- MCApart
    MaxSuccs = 1
    Writers <- MCCpuMo
    StableEdges = FALSE
INVARIANTS
    TypeOK
    NoStaleCode
    PageBitsCover
VIEW
    WithoutUnflushed
