CONSTANTS
    cli = cli
    hooks = hooks
    n1 = n1
    n2 = n2
    NoName = NoName
    NoProc = NoProc
    Proc = {cli, hooks}
    Names = {n1, n2}
    Script <- AgentAndHooks
    Extras <- SomeExtras
    KillBefore <- SafeKills
    StartsAlone = TRUE
SYMMETRY Symmetry
CONSTRAINT UndoneBound
SPECIFICATION Spec
INVARIANTS JournalIsOfRun ArchivedRunsWhole EventsKept CrateIsOfRun StateFollowsJournal
