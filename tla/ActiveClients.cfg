SPECIFICATION Spec
CONSTANTS
    Clients = {c1, c2}
    Proxy = c1
    WaClients = {c2}
    Wq = wq
    Isr = isr
    NoThread = none
    CoalMapped = TRUE
    TagMayFail = TRUE
INVARIANTS TypeOK Balance VoteKeepsClocks NoAssert
PROPERTIES LossOnlyByDefer ImplementsClockVote
