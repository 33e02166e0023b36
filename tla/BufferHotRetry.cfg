CONSTANTS
  e1 = e1
  e2 = e2
  draft = draft
  edit = edit
  Entries = {e1, e2}
  Contents = {draft, edit}
  Draft = draft
  AutoStop = FALSE
  AutoApprove = TRUE
  Toggles = FALSE
  MaxNotes = 0
  MaxFaults = 2
  Unsent = Unsent
SPECIFICATION Spec
INVARIANT BackoffRespected
