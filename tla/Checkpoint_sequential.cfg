SPECIFICATION Spec
CONSTANTS
    p1 = p1
    Proc = {p1}
    NoProc = NoProc
    Workload = {"human.note", "file.created", "checkpoint", "finalize", "validate", "status", "stop"}
    Requests = {"auto"}
    Modes = {"advisory", "monitored", "enforced"}
    Verdicts = {"passed", "failed"}
    Upgrades = 0
    Changes = 0
    MaxCommands = 4
    CrashAt <- SafeCrashes
    BuildRaises = TRUE
INVARIANTS FreshIsValidated ShippedIsCurrent SoundBookkeeping StopIsCurrent
