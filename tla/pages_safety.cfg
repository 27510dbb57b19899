CONSTANTS
    p1 = p1
    p2 = p2
    p3 = p3
    p4 = p4
    p5 = p5
    p6 = p6
    c1 = c1
    e1 = e1
    e2 = e2
    None = None
    CPU = {c1}
    Env = {e1, e2}
    Page = {p1, p2, p3, p4, p5, p6}
    FreeOrder <- SixPages
    NVA = 3
    NPTENTRIES = 2
    RefMod = 16
    Image <- OnePage
    Guests = TRUE
SYMMETRY Symmetry
SPECIFICATION Spec
INVARIANTS RefsExact FreeListExact KernelPagesPrivate 
