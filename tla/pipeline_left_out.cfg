\* Three strategies of one priority, two of which are asked; one evaluation.
SPECIFICATION PipelineSpec
CONSTANTS
    Evaluators = {e1}
    Strategies = {s1, s2, s3}
    Priorities = {1}
    Decisions = {}
    MaxConcurrent = 2
    MinConfidence = 50
    MinProfit = 9
    ScoreMax = 700
    MaxOperations = 3
INVARIANTS
    AllActiveAsked
