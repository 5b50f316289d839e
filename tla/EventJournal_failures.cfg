SPECIFICATION FairSpec
CONSTANTS
    p1 = p1
    p2 = p2
    Proc = {p1, p2}
    NoProc = NoProc
    Workload = {"note", "separator", "command", "hook"}
    MaxCommands = 3
    CrashAt <- AnyCrash
    TornTails = {"partial"}
    MirrorRaises = TRUE
PROPERTIES AppendOnly AllCommandsEnd
