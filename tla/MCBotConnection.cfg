SPECIFICATION FairConnection
CONSTANTS
    Senders = {user, stranger}
    Allowed = {user}
    Buffer = 1
    Answers = 2
    MaxMessages = 3
    MaxStarts = 2
    NoJob = NoJob
CHECK_DEADLOCK FALSE
INVARIANT DeliveredOnce
INVARIANT NeverGivesUp
INVARIANT NothingSkipped
PROPERTY Served
