SPECIFICATION Spec
CONSTANTS
    NULL = NULL
    Keys = {k, j}
    Vals = {v, w}
    Prefixed = {k, j}
    Tasks = {a}
    Slots = 2
    MaxSem = 1
    MaxPosts = 1
SYMMETRY Symmetry
INVARIANT PowerFailSafe
