SPECIFICATION Spec
CONSTANTS
    NoChain = NoChain
    NoOwner = NoOwner
    NoConfig = NoConfig
    Partial = Partial
    p1 = p1
    p2 = p2
    c1 = c1
    c2 = c2
    empty = empty
    bad = bad
    Procs <- MCProcs
    Configs <- MCConfigs
    EmptyConfigs <- MCEmpty
    BadConfigs <- MCBad
    Commands <- SomeCommands
    Killable = TRUE
    NetworkMayFail = TRUE
    XrayMayFail = TRUE
    IptablesMayFail = TRUE
SYMMETRY Symmetry
INVARIANTS
    LockDiscipline
    SoleEffect
