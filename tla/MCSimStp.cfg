SPECIFICATION StpSpec
CONSTANTS
    StpPorts = {p1, p2}
    ValidStates = {"blocking", "forwarding"}
    StpMayFail = TRUE
    MaxDrift = 1
INVARIANTS
    StpTypeOK
    StatesReachKernel
    PortsJoin
    StpEnabledWithPorts
PROPERTIES
    StatesEventuallyReach
