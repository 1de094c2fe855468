SPECIFICATION FairSpec
CONSTANTS
    NoChain = NoChain
    NoOwner = NoOwner
    NoConfig = NoConfig
    Partial = Partial
    p1 = p1
    p2 = p2
    c1 = c1
    c2 = c2
    empty = empty
    bad = bad
    Procs <- MCProcs
    Configs <- MCUsable
    EmptyConfigs = {}
    BadConfigs = {}
    Commands <- ApplyCommands
    Killable = TRUE
    NetworkMayFail = FALSE
    XrayMayFail = FALSE
    IptablesMayFail = TRUE
PROPERTIES
    Heals
