SPECIFICATION Spec
CONSTANTS
    Importers = {i1, i2}
    NoSegment = NoSegment
    MaxSeq = 3
    MaxFiles = 2
    MaxUpsets = 1
SYMMETRY Symmetry
INVARIANTS TypeOK HeldIsChain NoFalseFork AckMeansApplied
CHECK_DEADLOCK FALSE
