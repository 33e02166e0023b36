CONSTANTS
  e1 = e1
  e2 = e2
  draft = draft
  edit = edit
  Entries = {e1, e2}
  Contents = {draft, edit}
  Draft = draft
  AutoStop = TRUE
  AutoApprove = TRUE
  Toggles = TRUE
  MaxNotes = 1
  MaxFaults = 2
  Unsent = Unsent
SPECIFICATION FairSpec
INVARIANTS InOnePlace BatchIsReleasable
PROPERTIES KeepsPromise EveryResponseLeaves
