SPECIFICATION FairNotices
CONSTANTS
    u1 = u1
    u2 = u2
    own = own
    group = group
    Users <- MCUsers
    Listed = {u1}
    ChatsOf <- MCChatsOf
    Newest = 3
    Limit = 1
    MayFail = TRUE
    MaxRuns = 3
    NoRecord = NoRecord
    Torn = Torn
CHECK_DEADLOCK FALSE
INVARIANT NotifiedOnce
INVARIANT InactiveWasRefused
PROPERTY NobodyForgotten
PROPERTY EventuallyTold
