\* Two callers probe at the same time; one of them fails.
SPECIFICATION Spec
CONSTANTS
    Callers = {c1, c2}
    Operators = {}
    Outcomes = {"ok", "fail"}
    FailureThreshold = 1
    SuccessThreshold = 1
    Timeout = 1
    MaxFailed = 3
PROPERTIES
    OnlyTheCycle
