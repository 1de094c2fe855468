SPECIFICATION FairSpec
CONSTANTS
    Addresses = {a1}
    Requests = {r1, r2}
    Passwords = {p1}
    MaxAttempts = 2
    Window = 2
    Lockout = 2
    Lifetime = 2
    MaxStarts = 2
    None = None
    NotRead = NotRead
    NoLogin = NoLogin
    Odd = Odd
CHECK_DEADLOCK FALSE
INVARIANT NoUndueLockout
INVARIANT Throttled
INVARIANT StaysLoggedIn
PROPERTY Forgotten
