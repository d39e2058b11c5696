SPECIFICATION MirrorSpec
CONSTANTS
    MPorts = {b1, b2}
    Mbundles = {a1, a2}
    Mirrors = {m1, m2}
    MAX_MIRRORS = 1
    MirrorCmdsMayFail = TRUE
SYMMETRY MirrorSymmetry
INVARIANTS
    MirrorTypeOK
    SourcesAlive
    NothingElseMirrored
PROPERTY DestinationsLeave
