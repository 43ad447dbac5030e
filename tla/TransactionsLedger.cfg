\* Two clients, one session with up to two segments, corrections and archiving among the requests.
SPECIFICATION FairTxnSpec
CONSTANTS
    Projects = {p1}
    Sessions = {s1}
    Segments = {g1, g2}
    Clients = {c1, c2}
    Requests = {"create_project", "patch_project", "start", "pause", "resume", "stop", "correct", "delete"}
    Reasons = {"manual"}
    MaxTime = 2
    Horizon = 2
    NoRow = NoRow
PROPERTIES FollowsLedger EveryRequestEnds
