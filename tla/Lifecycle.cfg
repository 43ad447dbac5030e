\* The watchdog with its real intervals, two operators, every failure.
SPECIFICATION FairSpec
CONSTANTS
    Operators = {o1, o2}
    Poll = 10
    MaxBackoff = 300
INVARIANTS TypeOK
PROPERTIES StoppedStaysDown RestoresStack SettlesBehindMarker StopRequestEndsService
