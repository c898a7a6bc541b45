SPECIFICATION Spec
CONSTANTS
    Clients = {1}
    Skip = {1}
    Apps = {1}
    Async = {1}
    Sync = {1}
    Atomic = {}
    Suspenders = {}
    Wq = wq
    NoClient = none
    MaxVotes = 2
INVARIANT WaitersWoken
PROPERTY DriftOnlyByStaleState
