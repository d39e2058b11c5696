CONSTANTS
    Phys = {p1}
    Intf = {}
    Bridge = vrf0
    Lags = {lag1}
    Vlans <- MCVlans
    Settings <- MCSettings
    Vrf = TRUE
    MayFail = FALSE
    MaxRules = 1
    NoBundle = NoBundle
    NoPort = NoPort
    Netdevs <- MCNetdevs
    NRules = 3
    Pairs = {2}
    MaxThreads = 4
SPECIFICATION VrfSpec
INVARIANTS
    MutexExcludes
    RulesMatchFlag
    LeakNeedsReordering
PROPERTY
    EventuallySettled
CHECK_DEADLOCK FALSE
