CONSTANTS
    p1 = p1  vrf0 = vrf0
    Phys = {p1}
    Intf = {}
    Bridge = vrf0
    Lags = {lag1}
    Vlans <- MCVlans
    Settings <- MCSettings
    Vrf = TRUE
    MayFail = FALSE
    MaxRules = 2
    NoBundle = NoBundle
    NoPort = NoPort
    SflowRequests <- OneRequest
    Dirs = {"ingress"}
    Matches <- ExactMatches
    MaxSamples = 1
    NoCfg = NoCfg
SPECIFICATION SflowSpec
INVARIANT
    GoneBundlesDeleted
