SPECIFICATION FairSpec
CONSTANTS
    c1 = c1
    c2 = c2
    h1 = h1
    h2 = h2
    Captures = {c1, c2}
    Hashes = {h1, h2}
    HashOf <- MCHashOf
    Missing = Missing
    Keep = 1
    Bounds <- MCBounds
CHECK_DEADLOCK FALSE
INVARIANTS TypeOK NoResurrection NothingQuoted  ArchivesStay
PROPERTIES PruneKeepsOne RedactionsReachTheChain
