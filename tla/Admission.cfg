SPECIFICATION Spec
CONSTANTS
    Sockets <- MCSockets
    Nameless <- MCNameless
    Maxima <- MCMaxima
    Throttles <- MCThrottles
    BanTimes <- MCBanTimes
    Considered = 3
    None = None
INVARIANTS
    TypeOK
    CapOverrun
    RateLimited
    Forgiven
