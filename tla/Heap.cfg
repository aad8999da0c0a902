CONSTANTS
    HeapSize = 16
    Hdr = 2
    Requests = {1, 2, 4}
SPECIFICATION FairSpec
INVARIANTS WellFormed PayloadsDisjoint AllFreedIsOneBlock WalkOK
PROPERTY AllocTerminates
