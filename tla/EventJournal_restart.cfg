SPECIFICATION Spec
CONSTANTS
    p1 = p1
    Proc = {p1}
    NoProc = NoProc
    Workload = {"note", "command"}
    MaxCommands = 4
    CrashAt <- SafeCrashes
    TornTails = {"partial"}
    MirrorRaises = FALSE
INVARIANTS Durable NoOrphanAfterRecovery CommandsRecordedOnce
