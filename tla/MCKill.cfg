SPECIFICATION FairSpec
CONSTANTS
    systemd = systemd
    miner = miner
    noName = noName
    Workers = {w1, w2}
    Pids <- MCPids
    Names = {systemd, miner}
    ProtectedPids = {1}
    ProtectedNames = {systemd}
    Boot <- MCBoot
    NoName = noName
    MaxUse = 2
    Limit <- Twice
INVARIANTS TypeOK ProtectedAreSpared KilledAreDead
PROPERTY HandlerReturns
CHECK_DEADLOCK FALSE
