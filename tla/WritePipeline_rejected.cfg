SPECIFICATION Spec
CONSTANTS
    ann = ann
    bob = bob
    Users = {ann}
    PipelineSize = 4
    MaxWrites = 4
    MaxSwitches = 0
    MaxBreaks = 0
CHECK_DEADLOCK FALSE
INVARIANT RejectedIsTheProblem
