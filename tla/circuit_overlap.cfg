\* Two overlapping callers and an operator who resets; three operations fail.
SPECIFICATION FairSpec
CONSTANTS
    Callers = {c1, c2}
    Operators = {o1}
    Outcomes = {"ok", "fail"}
    FailureThreshold = 2
    SuccessThreshold = 2
    Timeout = 1
    MaxFailed = 3
INVARIANTS
    EnoughSuccessesClose
PROPERTIES
    StaysCutOff
    Recovers
