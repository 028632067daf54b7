SPECIFICATION Spec
CHECK_DEADLOCK FALSE
CONSTANTS
    a = a
    b = b
    c = c
    p1 = p1
    p2 = p2
    Null = Null
    Thread = {a, b, c}
    Proc = {p1, p2}
    ProcOf <- MCProcOf
    Calls <- MCCalls
    Init0 = p1
    Fd = {0, 1}
    Slot = {s1, s2}
    File = {data, fs}
    FsChan = {fs}
    Sem = {m1}
SYMMETRY Sym
CONSTRAINT OnTrack
INVARIANTS
    CountsExact
    FreedWithLastUse
    LonelyAlone
