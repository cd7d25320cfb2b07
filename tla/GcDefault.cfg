SPECIFICATION Spec
CONSTANTS
    Obj = {o1, o2, o3, o4}
    Field = {f}
    None = None
    MaxRoots = 2
    RootLimit = 2
    Threshold = 1
    PromoAge = 2
    Pressure = "never"
SYMMETRY Symmetry
INVARIANT RootsLive
