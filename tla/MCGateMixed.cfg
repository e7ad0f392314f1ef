CONSTANTS
    vjt = vjt
    rob = rob
    eve = eve
    pup = pup
    NickServ = NickServ
    home = home
    away = away
    Nick <- MCStrangers
    Rules <- MCOneRule
    DmAllow <- MCDmAllow
    Service <- MCService
    InSight <- MCInSight
    IdentReply = "330"
    DM_HOLD_MAX = 1
    Said = {"dm", "channel", "invite"}
    MaxLines = 2
    MaxHolds = 2
    MaxExtras = 0
    MaxWire = 2
    DmRejectMsg = TRUE
    RejectMax = 1
    RejectEvict = 1
    MaxCooling = 2
    Host <- MCHost
SPECIFICATION FairSpec
CHECK_DEADLOCK FALSE
INVARIANTS
    TrustedIsIdentified
    StrangersStayOut
PROPERTIES
    ImplementsLineFate
    EveryLineEnds
