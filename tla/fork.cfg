CONSTANTS
    e1 = e1
    e2 = e2
    Env = {e1, e2}
    First = e1
    NPAGES = 7
    MaxOps = 4
    MaxFrames = 2
    None = None
SPECIFICATION FairSpec
CHECK_DEADLOCK FALSE
INVARIANTS Isolation FrameIntact ChildComplete
PROPERTIES AccessEnds
