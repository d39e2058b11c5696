CONSTANTS
    Phys = {p1}
    Intf = {}
    Bridge = vrf0
    Lags = {lag1}
    Vlans <- MCVlans
    Settings <- MCSettings
    Vrf = TRUE
    MayFail = FALSE
    MaxRules = 1
    NoBundle = NoBundle
    NoPort = NoPort
    Netdevs <- MCNetdevs
    NRules = 3
    Pairs = {2}
    MaxThreads = 3
SPECIFICATION VrfCloseSpec
INVARIANT
    ThreadNetdevAlive
CHECK_DEADLOCK FALSE
