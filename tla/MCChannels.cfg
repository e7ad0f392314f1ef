SPECIFICATION MCFairSpec
CONSTANTS
    sniffo = sniffo
    Channel <- MCOne
    Fallback = TRUE
    KICK_MAX = 1
    Strangers = TRUE
    MaxKicks = 2
    MaxChanges = 2
    MaxWire = 1
    azzurra = azzurra
    libera = libera
    plan = plan
    named = named
    Proc <- MCProc
    Mine <- MCOneReserved
    Text <- MCText
    Shares <- MCShares
    Names <- MCNames
    TTL = 1
    PRUNE_BYTES = 1
    MaxClock = 2
    MaxHeard = 3
    MaxSent = 1
    Machine <- Both
CHECK_DEADLOCK FALSE
INVARIANTS
    TypesOK
    JoinedIsMembershipAlone
    RejoinsBounded
    StoreKeepsWindow
    WordsStayInside
PROPERTIES
    Converges
