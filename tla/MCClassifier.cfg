SPECIFICATION ClsSpec
CONSTANTS
    l1 = l1
    l2 = l2
    l3 = l3
    p1 = p1
    p2 = p2
    lag = lag
    Lists = {l1, l2, l3}
    RollbackList = l3
    Hash <- MCHash
    Sizes = {2}
    ClsPorts = {p1, p2}
    ClsBundles = {lag}
    MaxAce = 5
    CountMod = 6
    MaxCounted = 1
INVARIANTS ClsTypeOK BindingsHaveAcl BoundOnce CapacityHolds
SYMMETRY MCSymmetry
