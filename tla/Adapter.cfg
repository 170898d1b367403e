\* A call that is over is the end of the behaviour.
SPECIFICATION Spec
CHECK_DEADLOCK FALSE
CONSTANTS
    MaxLines = 4
    EchoPieces <- MCEchoPieces
INVARIANTS EverythingArrives
PROPERTIES RefinesBackend
