CONSTANTS
    p1 = p1  vrf0 = vrf0
    Phys = {p1}
    Intf = {}
    Bridge = vrf0
    Lags = {}
    Vlans <- MCVlans
    Settings <- MCSettings
    Vrf = TRUE
    MayFail = FALSE
    MaxRules = 2
    NoBundle = NoBundle
    NoPort = NoPort
    SflowRequests <- MCRequests
    Dirs = {"ingress"}
    Matches <- ExactMatches
    MaxSamples = 2
    NoCfg = NoCfg
SPECIFICATION SflowSpec
SYMMETRY SflowSymmetry
INVARIANTS
    SflowTypeOK
    SflowInSync
PROPERTIES
    SamplesEnabledBundles
    ImplementsCounter
