SPECIFICATION FairSpec
CONSTANTS
    Clients = {c1}
    Proxy = c1
    WaClients = {}
    Wq = wq
    Isr = isr
    NoThread = none
    CoalMapped = TRUE
    TagMayFail = FALSE
PROPERTIES  IrqServed
