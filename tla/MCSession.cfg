SPECIFICATION FairSpec
CONSTANTS
    bot = bot
    bot_100 = bot_100
    bot_101 = bot_101
    eve = eve
    Nick <- MCNick
    NICK = bot
    Temp <- MCTemp
    Profiles <- MCProfiles
    GHOST_RECLAIM_MAX = 5
    MaxOthers = 2
    MaxOperator = 2
CHECK_DEADLOCK FALSE
INVARIANTS
    TypeOK
    StartedLoggedIn
    StartedOnOurNick
    MeIsServerNick
    OneReclaimInFlight
PROPERTIES
    SessionEnds
