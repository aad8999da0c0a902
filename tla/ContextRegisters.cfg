CONSTANTS
    Procs = {1, 2}
    Levels = {0}
    Stamps = {0, 1}
    StackFrames = 4
SPECIFICATION ContextSpec
PROPERTY AllRestored
