SPECIFICATION Spec
CONSTANTS
    c1 = c1
    c2 = c2
    v1 = v1
    v2 = v2
    s1 = s1
    s2 = s2
    t1 = t1
    None = None
    Cases <- TwoCases
    Versions <- TwoVersions
    Slots <- TwoSlots
    Threads <- OneThread
    MaxCalls = 3
    MaxCrashes = 1
INVARIANTS
    CataloguedIsWhole
    BundleStaysBound
    BundleIsWhole
    RebuildSucceeds
SYMMETRY Names
CHECK_DEADLOCK FALSE
