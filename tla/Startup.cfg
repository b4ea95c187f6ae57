CONSTANTS
    Bodies <- MCBodies
    MaxUnits = 3
    MaxFrames = 2
SPECIFICATION Spec
INVARIANT
    TokenStripped
PROPERTY
    EndsWithPeer
CHECK_DEADLOCK FALSE
