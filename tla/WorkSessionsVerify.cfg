\* What db/verify/verify.sql requires of running sessions.
SPECIFICATION Spec
CONSTANTS
    Projects = {p1}
    Sessions = {s1}
    Segments = {g1, g2}
    Reasons = {"manual"}
    MaxTime = 2
    Horizon = 0
    NoRow = NoRow
INVARIANTS RunningSessionsAreOpen
