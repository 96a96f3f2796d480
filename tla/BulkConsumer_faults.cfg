SPECIFICATION Spec
CONSTANTS
    Msgs = {m1, m2, m3, m4}
    MaxItems = 2
    Interval = 1
    NoMsg = NoMsg
    MaxFaults = 2
SYMMETRY Symmetry
INVARIANT LossBounded
INVARIANT DuplicatesBounded
