CONSTANTS
    Procs = {1, 2}
    Levels = {0, 1}
    Stamps = {0, 1}
    StackFrames = 4
SPECIFICATION ContextSpec
INVARIANT OwnRegistersOnly
PROPERTY ResumesWhereStopped
