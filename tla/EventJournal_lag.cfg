SPECIFICATION Spec
CONSTANTS
    p1 = p1
    Proc = {p1}
    NoProc = NoProc
    Workload = {"note"}
    MaxCommands = 2
    CrashAt <- AnyCrash
    TornTails = {}
    MirrorRaises = FALSE
INVARIANTS RecoveryVerifies
