SPECIFICATION Spec
CONSTANTS
    p1 = p1
    Proc = {p1}
    NoProc = NoProc
    Workload = {"human.note", "file.created", "checkpoint", "finalize", "validate", "status"}
    Requests = {"auto", "process", "workflow"}
    Modes = {"monitored"}
    Verdicts = {"passed", "failed"}
    Upgrades = 1
    Changes = 1
    MaxCommands = 3
    CrashAt <- AnyCrash
    BuildRaises = TRUE
INVARIANTS FreshIsMaterialized ShippedIsCurrent
