CONSTANTS
    Procs = {p1}
    Names = {a, b}
    MAX_FILE_NUM = 4
    Fids = 2
    KB = 2
    MAX_FILE_SIZE = 2
    MAX_CONTROL_NUM = 3
    Sizes = {1, 2, 3}
    Bytes = {0, 1, 2}
    Writes <- MCWrites
    Counts = {0, 1, 2}
    MaxOffset = 3
    a = a
    b = b
    p1 = p1
SPECIFICATION Spec
INVARIANT OpenMeansFile
PROPERTY ImplementsFileStore
