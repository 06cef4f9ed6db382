SPECIFICATION Spec
CONSTANTS
    gateway = gateway
    attacker = attacker
    subnet = subnet
    Threads = {t1}
    Actions = {a1, a2}
    Ips <- HostIps
    Addresses <- MCAddresses
    Covers <- HostCovers
    Protected <- MCProtected
    NoIp = NoIp
    NoAction = NoAction
    InitProfile <- HostProfile
    Limit <- OneEach
PROPERTY UnblockedMeansUnblocked
CHECK_DEADLOCK FALSE
