SPECIFICATION FairSpec
CONSTANTS
    NoChain = NoChain
    NoHash = NoHash
    Tables <- MCTables
    ValidTables <- MCValidTables
    Clients <- MCClients
    LanClients <- MCLanClients
    IpSets <- MCIpSets
    Configs <- MCConfigs
    Hosts <- MCHosts
    Dests <- MCDests
    Covers <- MCCovers
    SetsOf <- MCSetsOf
    FieldMax = 2
    MaxSysMarks = 1
    Killable = TRUE
    IpRuleMayFail = TRUE
INVARIANTS
    TypeOK
    CertifiedRouting
    PartialChainMarksLess
    StopLeavesNothing
    NeverMisrouted
    NoOrphanIpRules
PROPERTIES
    Converges
