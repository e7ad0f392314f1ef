SPECIFICATION LeakSpec
CONSTANTS
    azzurra = azzurra
    libera = libera
    plan = plan
    joke = joke
    name = name
    Proc <- MCProc
    Mine <- MCProc
    Text <- MCText
    Shares <- MCShares
    Names = {}
    TTL = 1
    PRUNE_BYTES = 1
    MaxClock = 1
    MaxHeard = 3
    MaxSent = 1
CHECK_DEADLOCK FALSE
INVARIANTS
    WordsStayInside
