CONSTANTS
    p1 = p1  p2 = p2  i1 = i1  i2 = i2
    Phys = {p1, p2}
    Intf = {i1, i2}
    Bridge = br0
    Lags = {lag1}
    Vlans <- MCVlans
    Settings <- MCSettings
    Vrf = FALSE
    MayFail = FALSE
    MaxRules = 2
    NoBundle = NoBundle
    NoPort = NoPort
SPECIFICATION VlanSpecNoCrash
CONSTRAINTS SecondAlone StaleApart
SYMMETRY Symmetry
INVARIANTS
    TypeOK
    AsicMatchesConfig
    TrunksFollowInterfaces
    RulesFollowBundles
    SwitchedPortsBlocked
PROPERTIES
    BlockedWhileMember
    AsicIsolation
    OnlyBondsBreakLists
    ImplementsSwitch
CHECK_DEADLOCK FALSE
