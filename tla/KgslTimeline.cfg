SPECIFICATION FairSpec
CONSTANTS
    Threads = {t1, t2}
    Fences = {f1, f2}
    MaxValue = 2
    NoOne = NoOne
INVARIANTS TypeOK RefExact FenceRefs ListSound NoLostFence
PROPERTY FenceSignaled
CHECK_DEADLOCK FALSE
