SPECIFICATION FairSpec
CONSTANTS
    PipeCap = 1
    MaxLines = 3
    ArgvSecrets = {0, 1}
    DiskFails = TRUE
INVARIANTS RecordsAgree
PROPERTIES Implements CommandEnds
