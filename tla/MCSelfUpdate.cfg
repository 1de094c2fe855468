SPECIFICATION FairSpec
CONSTANTS
    None = None
    common = common
    binary = binary
    webui = webui
    Newest = 3
    Files <- MCFiles
    Binary = binary
    LeftOut <- MCLeftOut
    MaxUpdates = 2
    Monit = TRUE
    MayFail = TRUE
    MaxStarts = 4
INVARIANTS
    HoldsLock
    SameRelease
PROPERTIES
    NeverDowngrades
    ToldWhatIs
    BringsBotBack
CHECK_DEADLOCK FALSE
