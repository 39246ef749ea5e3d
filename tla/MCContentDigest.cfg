SPECIFICATION DSpec
CONSTANTS
    Names <- MCNames
    Bodies <- MCBodies
    Required <- MCRequired
    MaxRewrites = 2
CHECK_DEADLOCK FALSE
INVARIANTS StreamingAgrees BodyIntact WrittenIsRead
