SPECIFICATION Spec
CONSTANTS
    Callers = {c1, c2}
    Prompts = {p1}
    Pages = {g1}
    Decisions = {d1}
    Claims = {k1}
    NoCaller = NoCaller
    NoItem = NoItem
    MaxCalls = 3
INVARIANT RevertedOnce
