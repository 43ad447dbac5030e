\* A stop of a running stack that meets a recovery in progress.
SPECIFICATION RaceSpec
CONSTANTS
    Operators = {o1}
    Poll = 10
    MaxBackoff = 40
PROPERTIES NoRecoveryWhileStopped
