CONSTANTS
    p1 = p1  p2 = p2
    Phys = {p1, p2}
    Intf = {i1}
    Bridge = br0
    Lags = {lag1}
    Vlans <- MCVlans
    Settings <- MCSettings
    Vrf = FALSE
    MayFail = TRUE
    MaxRules = 2
    NoBundle = NoBundle
    NoPort = NoPort
SPECIFICATION BothSpec
CONSTRAINT IntfAlone
SYMMETRY BothSymmetry
INVARIANTS
    InputRuleOnce
    AddedIsPresent
    RoutedPortsOpen
