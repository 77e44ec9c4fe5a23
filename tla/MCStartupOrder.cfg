SPECIFICATION Spec
CONSTANT MaxFailures = 2
PROPERTY Starts
CHECK_DEADLOCK FALSE
