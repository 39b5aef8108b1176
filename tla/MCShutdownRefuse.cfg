CONSTANT MaxFailures = 1
SPECIFICATION Spec
PROPERTY RefusesWhenInProgress
CHECK_DEADLOCK FALSE
