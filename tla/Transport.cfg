SPECIFICATION Spec
CONSTANTS
    SeqMax = 3
    MaxSends = 4
    Capacity = 1
INVARIANTS AnswersCorrelate CallIsTracked PingIsTracked
PROPERTIES GoneFreesCaller DropEnds
CHECK_DEADLOCK FALSE
