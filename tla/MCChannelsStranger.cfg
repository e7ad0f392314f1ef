SPECIFICATION MCSpec
CONSTANTS
    sniffo = sniffo
    Channel <- MCOne
    Fallback = TRUE
    KICK_MAX = 1
    Strangers = TRUE
    MaxKicks = 1
    MaxChanges = 1
    MaxWire = 2
    azzurra = azzurra
    libera = libera
    plan = plan
    named = named
    Proc <- MCProc
    Mine <- MCOneReserved
    Text <- MCText
    Shares <- MCShares
    Names <- MCNames
    TTL = 1
    PRUNE_BYTES = 1
    MaxClock = 2
    MaxHeard = 3
    MaxSent = 1
    Machine <- JustChannels
CHECK_DEADLOCK FALSE
INVARIANTS
    JoinedIsMembership
