SPECIFICATION DialoguesSpec
CONSTANTS
    None = None
    host = host
    ext = ext
    bad = bad
    ru = ru
    xray = xray
    ovpnc1 = ovpnc1
    de = de
    nl = nl
    Hosts <- MCHosts
    Foreign <- MCForeign
    Junk = bad
    Routes <- MCRoutes
    TunnelRoutes <- MCTunnels
    Countries <- MCCountries
    Default = ru
    ServerLists <- MCServers
    MaxClients = 1
    MaxIPs = 2
INVARIANTS
    OneUnlessOld
    NothingTakenBack
    ConfirmedFirst
PROPERTIES
    AddsOnce
