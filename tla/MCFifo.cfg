SPECIFICATION FifoSpec
CONSTANTS
    agent = agent
    operator = operator
    Sayer <- MCSayer
    SayLines <- MCSayLines
    Garbled = {}
    MaxRestarts = 0
CHECK_DEADLOCK FALSE
INVARIANTS
    EachLineBecomesAMessage
