SPECIFICATION FairSpec
CONSTANTS
    Calls = {c1, c2}
    Events = {e}
    Other = Other
    None = None
    MaxRows = 2
    MaxAlters = 1
    MaxFaults = 1
INVARIANTS TypeOK AnchorIsEarned NoFalseAlarm
PROPERTIES VerdictIsEarned Reanchors
