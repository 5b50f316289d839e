SPECIFICATION Spec
CONSTANTS
  NoStep = NoStep
  NoPath = NoPath
  AgentPath = AgentPath
  Internal = {"store"}
  Definitions = {"main.cwl"}
  DefinedSteps <- MCDefinedSteps
  Paths <- MCPaths
  Outside = {"/abs"}
  Ignored = {"tmp", "store"}
  Sensitive = {"key.pem"}
  BaseName <- MCBaseName
  Initially = {"in", "main.cwl", "key.pem", "/abs"}
  Prologues <- MCPrologues
  Declarations <- MCDeclarations
  CommandLines <- MCCommandLines
  DeleteTools <- MCTools
  Edits <- MCEdits
  Names <- MCNames
  Requests = {"auto", "process"}
  Policy <- MCPolicy
  MaxEvents = 5
INVARIANTS RefsResolve CommandsRepresented TimelineFollowsJournal ConformsToProfile SensitiveNeverCopied
PROPERTIES ReferencesPresentFiles ProducedIsCaptured CrateGrows
CHECK_DEADLOCK FALSE
