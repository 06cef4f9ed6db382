SPECIFICATION Spec
CONSTANTS
    systemd = systemd
    miner = miner
    noName = noName
    Workers = {w1}
    Pids <- MCPids
    Names = {systemd, miner}
    ProtectedPids = {1}
    ProtectedNames = {systemd}
    Boot <- MCBoot
    NoName = noName
    MaxUse = 1
    Limit <- Quiet
INVARIANT LoggedAreReported
CHECK_DEADLOCK FALSE
