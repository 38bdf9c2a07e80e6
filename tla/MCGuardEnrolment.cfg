\* Two flows, so that one is started while the other goes on or after it has failed.
SPECIFICATION Spec
CONSTANT MaxFlows = 2
INVARIANT LayersAgree
PROPERTIES
    SuccessIsSaved
    RequestsAnswered
CHECK_DEADLOCK FALSE
