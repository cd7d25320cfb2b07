SPECIFICATION Spec
CONSTANTS
    Obj = {o1, o2, o3}
    Field = {f}
    None = None
    MaxRoots = 3
    RootLimit = 2
    Threshold = 1
    PromoAge = 1
    Pressure = "calm"
SYMMETRY Symmetry
INVARIANT RootsLive
INVARIANT OldToYoungRemembered
PROPERTY MajorIsExact
