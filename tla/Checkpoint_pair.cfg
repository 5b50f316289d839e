SPECIFICATION FairSpec
CONSTANTS
    p1 = p1
    p2 = p2
    Proc = {p1, p2}
    NoProc = NoProc
    Workload = {"checkpoint"}
    Requests = {"auto", "process", "workflow"}
    Modes = {"monitored"}
    Verdicts = {"passed", "failed"}
    Upgrades = 1
    Changes = 0
    MaxCommands = 3
    CrashAt <- KeyCrashes
    BuildRaises = TRUE
INVARIANTS FreshIsMaterialized
PROPERTIES CheckpointNeverRegresses AllCommandsEnd
