SPECIFICATION Spec
CONSTANTS
    Configs = {{"WAN_COAL", "WAN", "LLD", "WAN_PROD"}, {"LAN_COAL", "LAN", "LL"}, {"WAN", "ODL", "LLD"}}
    Versions = {"v4", "v5"}
    MaxPolls = 2
INVARIANTS TypeOK PollingMasked  SuspensionUndone 
PROPERTY StartsStopped
