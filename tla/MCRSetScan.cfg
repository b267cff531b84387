SPECIFICATION Spec
CONSTANTS
    Objs = {o1, o2, o3, o4}
    None = None
    MaxRefs = 6
SYMMETRY Symmetry
CHECK_DEADLOCK FALSE
INVARIANTS SetsAreCycles CountsExact
