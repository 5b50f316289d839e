SPECIFICATION Spec
CONSTANTS
    NoteTexts = {{"project"}, {"assignment"}}
    RunTexts = {{"project", "assignment"}}
    OutputTexts = {{}, {"credential"}}
    JournalPublic = FALSE
    MaxCommands = 3
    MaxChanges = 2
    Kills = TRUE
    Raises = TRUE
INVARIANTS PublicHoldsNoSecret ShippedVerifies RedactionHolds EventsSurvive FreshCrateVerifies
