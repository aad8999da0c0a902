CONSTANTS
    Keys = {1, 2, 7, 9, 11, 15, 16}
    Colliding = {7}
    Names <- MCNames
    Values = {1}
    Pool = {2, 3, 4, 5, 6, 7, 8, 9, 10, 11}
SPECIFICATION GrownSpec
INVARIANTS Balanced SearchFinds NoNodeLost ChainOrdered
PROPERTY OperationsExact
