SPECIFICATION Spec
CONSTANTS
    Clients = {1}
    Skip = {}
    Apps = {1}
    Async = {}
    Sync = {1}
    Atomic = {}
    Suspenders = {s}
    Wq = wq
    NoClient = none
    MaxVotes = 2
INVARIANT WaitersWoken
