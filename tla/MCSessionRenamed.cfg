SPECIFICATION Spec
CONSTANTS
    bot = bot
    bot_100 = bot_100
    bot_101 = bot_101
    eve = eve
    Nick <- MCNick
    NICK = bot
    Temp <- MCTemp
    Profiles <- MCSaslOnly
    GHOST_RECLAIM_MAX = 2
    MaxOthers = 2
    MaxOperator = 1
CHECK_DEADLOCK FALSE
INVARIANTS
    StartupOnRightNick
