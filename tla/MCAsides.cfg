SPECIFICATION Spec
CONSTANTS
    Machine <- Each
    ann = ann
    bob = bob
    eve = eve
    joe = joe
    zoe = zoe
    Nick <- MCNick
    DmRejectMsg = TRUE
    RejectMax = 4
    RejectEvict = 2
    MaxCooling = 6
    DEBOUNCE = 4
    IDLE = 1
    RESOLVE_ALERT = 1
    MAX_TURNS = 2
    IDLE_MIN_TURNS = 1
    MaxUnread = 2
    Width <- MCWidth
    Space = "space"
    MAX_BODY = 4
    MaxText = 5
    RECV_RETRY_MAX = 2
    MaxBytes = 5
    DAY = 3
    Fold = 3
    Back = 2
    MaxTime = 5
    MaxLate = 1
    MaxLog = 2
    MaxKills = 2
CHECK_DEADLOCK FALSE
INVARIANTS
    TypesOK
    SecondReplyOnlyAfterFlood
    ChunksMakeTheText
    CountedRight
    LinesArriveWhole
PROPERTIES
    ClearsAreDue
    LoopsGoOn
