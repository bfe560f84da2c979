SPECIFICATION FairSpec
CONSTANTS
    Session = {s1}
    Handler = {h1}
    Command <- MCCommand
    Sender = {k1}
    Discovery = Discovery
    Adder = Adder
    Nobody = Nobody
INVARIANTS
    TypeOK
    OnlyInversionWedges
PROPERTIES
    AnsweredOrExited
    PausedResumes
CHECK_DEADLOCK FALSE
