SPECIFICATION FairSpec
CONSTANTS
    Src <- MCLines
    LevelOf <- MCLevelOf
    TIMER = "timer"
    Masks <- MCMasks
    Stats <- MCStats
    Ipls <- MCIpls
    Jit = FALSE
    RamJit = FALSE
INVARIANTS
    TypeOK
    PromptDelivery
    
    NmiTaken
PROPERTY
    Delivered
