\* Requests may carry times far enough ahead of the clock to overtake each other.
SPECIFICATION Spec
CONSTANTS
    Projects = {p1}
    Sessions = {s1, s2}
    Segments = {g1, g2, g3}
    Reasons = {"manual"}
    MaxTime = 3
    Horizon = 2
    NoRow = NoRow
SYMMETRY IdSymmetry
PROPERTIES FailingListStays ImplementsLedger
