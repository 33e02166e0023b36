CONSTANTS
  a1 = a1  a2 = a2  b1 = b1  alice = alice  bob = bob
  Posts = {a1, a2, b1}
  From <- SenderOf
  Slugged = {a1, a2, b1}
  Mailed = {b1}
  Draftable = {b1}
  PageSize = 1
  MaxLog = 2
  Nothing = Nothing
  Calls = {c1, c2, c3}
  Lanes = 2
  MaxPending = 1
  CountFaults = FALSE
  Appenders = {w1, w2, w3}
  Setters = {ws}
  MaxAttempts = 2
  x = x  y = y
  Agents <- TwoAgents
  MaxFailures = 2
  Handlers = {h1, h2}
  Base = 2
  Cap = 6
  Interval = 2
  RefreshTime = 1
  MaxStrikes = 3
  Work <- Moved
  StaticDir = "home"
  MaxWaits = 1
  MaxCalls = 2
  NoCall = NoCall
  MaxLength = 10
  MaxId = 7
  BatchSize = 2
  Keeps = {0, 2}
  Requests = {q1, q2, q3}
  Permits = 2
  MaxTries = 2
  PayBudget = 3
  PayCap = 2
  Spacing = 2
  WantsOtherName = TRUE
  MaxBeats = 2
  Envelope = 2
  Whole = 2
  Longest = 4
  MaxOutput = 3
  Readers = {r1, r2}
  Objects = {o1, o2}
  Length = 3
  Window = 2
  MaxCursors = 1
  Notes = {n1, n2, n3}
  NotesFaults = FALSE
SPECIFICATION PhaseSpec
INVARIANT ResultIsFresh
CHECK_DEADLOCK FALSE
