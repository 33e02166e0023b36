CONSTANTS
  e1 = e1
  o1 = o1
  o2 = o2
  draft = draft
  clean = clean
  bad = bad
  Entries = {e1}
  Contents = {draft, clean, bad}
  Draft = draft
  AutoStop = FALSE
  AutoApprove = FALSE
  Toggles = FALSE
  MaxNotes = 2
  MaxFaults = 1
  Unsent = Unsent
  Operators = {o1, o2}
  Pipeline = TRUE
  Refused = {bad}
  Rewrite <- SanitizeDraft
  NoEntry = NoEntry
  NoText = NoText
SPECIFICATION ReviewSpec
SYMMETRY OperatorSymmetry
INVARIANTS LatestEditPublished HashesResolve
PROPERTY ManualReleaseVetted
