CONSTANTS
    vjt = vjt
    rob = rob
    eve = eve
    pup = pup
    NickServ = NickServ
    home = home
    away = away
    Nick <- MCOneListed
    Rules <- MCOneRule
    DmAllow = {}
    Service = {}
    InSight <- MCInSight
    IdentReply = "307"
    DM_HOLD_MAX = 2
    Said = {"dm"}
    MaxLines = 3
    MaxHolds = 2
    MaxExtras = 1
    MaxWire = 3
    DmRejectMsg = FALSE
    RejectMax = 1
    RejectEvict = 1
    MaxCooling = 1
    Host <- MCHost
SPECIFICATION Spec
CHECK_DEADLOCK FALSE
INVARIANTS
    TypeOK
    HeldAwaitsWhois
    AnswerUnderWay
    EveryLineAccounted
    IdentifiedDmNotLost
    TrustedDmsInOrder
