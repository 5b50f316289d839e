SPECIFICATION Spec
CONSTANTS
    p1 = p1
    p2 = p2
    Proc = {p1, p2}
    NoProc = NoProc
    Workload = {"note", "command"}
    MaxCommands = 4
    CrashAt <- SafeCrashes
    TornTails = {}
    MirrorRaises = FALSE
INVARIANTS TypeOK JournalInv ChainIntact StateAgrees
PROPERTIES ImplementsAtomicJournal
