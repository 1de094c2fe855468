SPECIFICATION FairSpec
CONSTANTS
    Bot = Bot
    Xray = Xray
    Empty = Empty
    Mixed = Mixed
    None = None
    r1 = r1
    r2 = r2
    c = c
    t = t
    x = x
    ru = ru
    A = A
    B = B
    ipA = ipA
    ipB = ipB
    Requests <- MCRequests
    Clients <- MCClients
    Tunnels <- MCTunnels
    Excluded <- MCExcluded
    Sets <- MCSets
    Servers <- MCServers
    Lists <- MCLists
    IPsOf <- MCIPsOf
    WebOps <- SomeWebOps
    BotOps <- SomeBotOps
    MayFail = TRUE
    MaxOps = 3
INVARIANTS
    TypeOK
    UnreadableWhy
    ImportIsWhole
PROPERTIES
    ActsAsTwoWriters
    EveryoneAnswered
CHECK_DEADLOCK FALSE
