CONSTANTS
  Settings <- AllTasks
  MaxRetries = 1
  MaxIterations = 3
  FinalizeWindow = 1
  Budget = 6
  RequoteBudget = 1
  TaskRetries = 1
  RoomLevels = 0
  MaxBatch = 2
  ToolKinds = {"note", "fold"}
  Sections = {"plain"}
  LoadFaults = TRUE
  NoSubmission = NoSubmission
SPECIFICATION LiveSpec
INVARIANTS SubmissionScreened BilledOnce NotesSurvive CallsPaired ToldToFinish
PROPERTY Terminates
CHECK_DEADLOCK FALSE
