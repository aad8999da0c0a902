CONSTANTS
    Data = {0, 1, 2}
    Size = 3
SPECIFICATION RingSpec
PROPERTY ImplementsFifo
