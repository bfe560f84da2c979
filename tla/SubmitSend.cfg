SPECIFICATION Spec
CONSTANTS
    s1 = s1
    s2 = s2
    f1 = f1
    f2 = f2
    Sender = {s1, s2}
    Frame = {f1, f2}
    MaxFaults = 1
    Blank = Blank
SYMMETRY Symmetry
INVARIANTS
    TypeOK
    QuietOkProvesEnter
    SubmittedWhole
    CallbackInTime
CHECK_DEADLOCK FALSE
