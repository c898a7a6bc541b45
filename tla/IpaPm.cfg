SPECIFICATION Spec
CONSTANTS
    Clients = {1, 2}
    Skip = {1, 2}
    Apps = {1, 2}
    Async = {2}
    Sync = {1}
    Atomic = {t}
    Suspenders = {}
    Wq = wq
    NoClient = none
    MaxVotes = 2
INVARIANTS TypeOK VoteBalance NoUnexpectedState BitsCurrent AwakeWhileActive PlanCurrent
