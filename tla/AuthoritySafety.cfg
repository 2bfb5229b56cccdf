CONSTANTS
    o1 = o1
    o2 = o2
    p1 = p1
    p2 = p2
    g1 = g1
    g2 = g2
    NoOne = NoOne
    Calls = {c1, c2}
    Keys = {k1}
    ApprovalKeys = {x1, x2}
    Ops = {o1, o2}
    Bodies <- MCBodies
    Native = {}
    Images <- MCImages
    FirstImage <- MCFirstImage
    Represented <- MCRepresented
    Assets = {a1, a2}
    Sessions = {s1}
    Threads = {w1, w2}
    CapabilityCap = 2
    ContextCap = 1
    MaxChanges = 1
SPECIFICATION AuthoritySpec
SYMMETRY Symmetry
CHECK_DEADLOCK FALSE
INVARIANTS
    OneRequestPerKey
    OneApprovalPerRequest
    LaunchedOnce
PROPERTIES
    ClosedParentStartsNothing
    LaunchedAsApproved
