CONSTANTS
    e1 = e1  lo1 = lo1
    Netdevs = {e1, lo1}
    Classes <- MCClasses
    Speeds = {1000, 25000}
    PauseArgs = {"none", "rx", "tx", "rxtx"}
    MacArgs = {m1}
    Absent = Absent
    MaxConstructs = 3
SPECIFICATION ConfigSpec
INVARIANTS
    StatusNotStale
    PauseSinceUp
    ConstructedAddressesDiffer
