SPECIFICATION Spec
CONSTANTS
    NoChain = NoChain
    NoIpset = NoIpset
    Hosts <- MCHosts
    Dests <- MCDests
    LocalDests <- MCLocal
    IpSets <- MCIpSets
    SetsOf <- MCSetsOf
    Endpoints <- MCEndpoints
    Configs <- MCConfigs
    Killable = TRUE
    ModuleMayMiss = TRUE
    MaxFailures = 1
INVARIANTS
    NeverProxiesOthers
    MarkedIsRouted
    AppliedExactly
    StopRemovesAll
