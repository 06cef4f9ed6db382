SPECIFICATION Spec
CONSTANTS
    Rows = {r1, r2}
    Writers = {w1, w2}
    NoRow = NoRow
    MaxStamp = 4
    Limit <- Everything
SYMMETRY Symmetry
INVARIANTS TypeOK MirrorIsCurrent 
CHECK_DEADLOCK FALSE
