SPECIFICATION FairSpec
CONSTANTS
    ann = ann
    bob = bob
    Users = {ann, bob}
    PipelineSize = 4
    MaxWrites = 5
    MaxSwitches = 1
    MaxBreaks = 1
CHECK_DEADLOCK FALSE
INVARIANTS
    TypeOK
    ResponsesMatch
    CallbacksQueued
    IdleOnlyWhenDrained
    ServerCatchesUp
PROPERTIES
    IsAWriteQueue
    EventuallyDrained
