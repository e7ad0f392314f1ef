SPECIFICATION MCFairSpec
CONSTANTS
    vjt = vjt
    lucy = lucy
    owner = owner
    eve = eve
    NoKey = NoKey
    NoNick = NoNick
    Nick <- MCNick
    Person <- MCPerson
    Pins <- MCPins
    Listed <- MCListed
    Home <- MCHome
    DM_HOLD_MAX = 1
    MaxLines = 2
    MaxTexts = 1
    MaxMoves = 1
    MaxEdits = 2
    MaxEvents = 4
    MaxWire = 1
    SENT_MAX = 1
    Room = 2
    MaxReplies = 3
    MaxNacks = 1
    MaxTurns = 2
    agent = agent
    operator = operator
    Sayer <- MCSayer
    SayLines <- MCSayLines
    Garbled <- MCGarbled
    MaxRestarts = 1
    IdleChan = {"sniffo", "opers"}
    Lo = 2
    Hi = 3
    MaxHumans = 3
    Ports = {1}
    MaxOffers = 2
    Blocks = 2
    Buffer = 1
    Machine <- Each
CHECK_DEADLOCK FALSE
INVARIANTS
    TypesOK
    EveryLineOnce
    ReplyFollowsTheLastDm
    LostIsToldOnce
    NoHolesInAMessage
    OneIdlePerSilence
    ReadersGetTheirFile
PROPERTIES
    NothingHangs
    PinsFollowTheFile
    EveryReplySettles
    ImplementsLineFate
