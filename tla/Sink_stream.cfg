SPECIFICATION Spec
CONSTANTS
    Shapes <- MCShapes
    Size = 2
    Cap = 3
    Atomic = 1
    MaxEvents = 3
INVARIANTS TypeOK HeldUntilWritten 
PROPERTIES StreamSpec
CHECK_DEADLOCK FALSE
