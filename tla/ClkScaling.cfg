SPECIFICATION Spec
CONSTANTS
    Handles = {1, 2, 3}
    Names = {"USB", "ETH", "WLAN"}
    NoName = NoName
    GroupOf <- MCGroupOf
    Pipes = {0}
    Tputs = {2, 3}
    Exceptions <- MCExceptions
    DefaultThreshold <- MCDefaultThreshold
    Registrars = {t1, t2}
    NoClient = NoClient
INVARIANTS TypeOK NoDangling   AggregateGreedy
