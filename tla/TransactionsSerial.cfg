\* Two clients, two sessions with up to three segments, every endpoint but corrections and archiving.
SPECIFICATION TxnSpec
CONSTANTS
    Projects = {p1}
    Sessions = {s1, s2}
    Segments = {g1, g2, g3}
    Clients = {c1, c2}
    Requests = {"create_project", "start", "update", "pause", "resume", "stop", "pause_all", "resume_all", "resume_selected", "stop_all", "delete"}
    Reasons = {"manual"}
    MaxTime = 2
    Horizon = 2
    NoRow = NoRow
SYMMETRY IdSymmetry
CHECK_DEADLOCK TRUE
INVARIANTS TxnTypeOK
PROPERTIES Serializable
