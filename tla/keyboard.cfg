SPECIFICATION FairSpec
CONSTANTS
    Keys = {"SHIFT", "EXIT", "RUN", "ARROW", "KEY"}
    Commands = {"FAIL", "STOP", "XEQ", "GETKEY", "PSE", "OFF", "LONG"}
    MaxKeys = 3
    KEYBUF_SIZE = 3
    MaxWork = 2
INVARIANTS
    KeysInOrder
    WorkIsScheduled
    NoPowerOffLoop
PROPERTIES
    ExitStops
    PauseEnds
    QueueDrains
\* The user stops typing after MaxKeys keystrokes.
CHECK_DEADLOCK FALSE
