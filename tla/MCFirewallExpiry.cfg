SPECIFICATION FairSpec
CONSTANTS
    gateway = gateway
    attacker = attacker
    subnet = subnet
    Threads = {t1}
    Actions = {a1, a2}
    Ips <- HostIps
    Addresses <- MCAddresses
    Covers <- HostCovers
    Protected <- MCProtected
    NoIp = NoIp
    NoAction = NoAction
    InitProfile <- HostProfile
    Limit <- NoFault
PROPERTY BlocksExpire
