\* Two sessions, three segments, requests up to one unit ahead of the clock.
SPECIFICATION Spec
CONSTANTS
    Projects = {p1}
    Sessions = {s1, s2}
    Segments = {g1, g2, g3}
    Reasons = {"manual", "lock"}
    MaxTime = 3
    Horizon = 1
    NoRow = NoRow
SYMMETRY IdSymmetry
INVARIANTS TypeOK SegmentsAreDisjoint QuietSessionsAreClosed SessionRowCoversItsSegments
PROPERTIES OnlyCorrectionStrands StrandedForGood StoppedIsFinal RecordedTimeIsKept
