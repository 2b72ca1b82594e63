CONSTANTS
    NumChannels = 4
SPECIFICATION Spec
INVARIANTS
    FullLap
