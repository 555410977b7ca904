SPECIFICATION FairSpec
CONSTANTS
    Src <- MCTimer
    LevelOf <- MCLevelOfTimer
    TIMER = "timer"
    Masks <- MCMasksTimer
    Stats <- MCStats
    Ipls <- MCIplsTimer
    Jit = TRUE
    RamJit = TRUE
INVARIANT
    PromptDelivery
PROPERTY
    Delivered
