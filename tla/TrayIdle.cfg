\* What a failed refresh does to the idle thread.
SPECIFICATION Spec
CONSTANTS
    Projects = {p1}
    Causes = {"lock", "sleep"}
    Choices = {{"lock", "sleep", "idle", "prompt"}}
    MaxPending = 1
    MaxPrompts = 2
INVARIANTS IdleDetectionSurvives
