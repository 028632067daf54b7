SPECIFICATION Spec
CHECK_DEADLOCK FALSE
CONSTANTS
    Null = Null
    Proc = {p, q}
    Region = {r1, r2, r3}
    Frame = {f1, f2, f3}
    Block = {b1}
    Value = {0, 1}
    Zero = 0
    MaxPages = 2
SYMMETRY Sym
INVARIANTS
    FramesExact
    ReadsOwnWrites
PROPERTY ImplementsAddrSpaces
