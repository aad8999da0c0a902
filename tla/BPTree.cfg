CONSTANTS
    Keys = {1, 2, 3, 4, 5, 6}
    Colliding = {3}
    Names <- MCNames
    Values = {1, 2}
    Pool = {2, 3, 4, 5, 6, 7, 8}
SPECIFICATION Spec
PROPERTY ImplementsStore
