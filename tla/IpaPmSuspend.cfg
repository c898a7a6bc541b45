SPECIFICATION FairSpec
CONSTANTS
    Clients = {1}
    Skip = {}
    Apps = {}
    Async = {1}
    Sync = {}
    Atomic = {t}
    Suspenders = {s}
    Wq = wq
    NoClient = none
    MaxVotes = 1
PROPERTIES SuspendReturns NotStuck
