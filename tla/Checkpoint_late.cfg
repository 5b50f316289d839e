SPECIFICATION Spec
CONSTANTS
    p1 = p1
    p2 = p2
    Proc = {p1, p2}
    NoProc = NoProc
    Workload = {"human.note", "checkpoint"}
    Requests = {"auto"}
    Modes = {"monitored"}
    Verdicts = {"passed", "failed"}
    Upgrades = 0
    Changes = 0
    MaxCommands = 2
    CrashAt <- NoCrash
    BuildRaises = FALSE
INVARIANTS FreshIsMaterialized
