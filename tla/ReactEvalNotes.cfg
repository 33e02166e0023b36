CONSTANTS
  Settings <- Evaluations
  MaxRetries = 1
  MaxIterations = 3
  FinalizeWindow = 1
  Budget = 0
  RequoteBudget = 1
  TaskRetries = 1
  RoomLevels = 0
  MaxBatch = 2
  ToolKinds = {"note", "fold"}
  Sections = {"findings", "working", "plain"}
  LoadFaults = FALSE
  NoSubmission = NoSubmission
SPECIFICATION Spec
PROPERTY AppendKeepsNotes
CHECK_DEADLOCK FALSE
