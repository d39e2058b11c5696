CONSTANTS
    Netdevs = {d1}
    NRules = 8
    Pairs = {5, 7}
    MaxThreads = 4
SPECIFICATION PollSpec
INVARIANTS
    PollMixNeedsDelete
    SettledPollsExact
CHECK_DEADLOCK FALSE
