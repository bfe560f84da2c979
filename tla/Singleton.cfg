SPECIFICATION Spec
CONSTANTS
    Process = {g, p1, p2, p3, p4, p5}
    Ghost = g
    None = None
INVARIANTS
    FirstInstanceWins
SYMMETRY MCSymmetry
CHECK_DEADLOCK FALSE
