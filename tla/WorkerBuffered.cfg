CONSTANTS
  t1 = t1
  t2 = t2
  j1 = j1
  j2 = j2
  Tasks = {t1, t2}
  Jobs = {j1, j2}
  JobOf <- OwnJob
  Poison = {}
  Manifests = {j1}
  Handlers = {h1, h2, h3}
  MaxAckPending = 1
  Buffered = TRUE
  PropagatePaymentError = TRUE
  Allowed = {"skip", "fail", "crash", "kv_error", "ack_lost", "ack_error", "publish_error", "reject", "payment", "marker_error", "block"}
  MaxFaults = 2
  NoTask = NoTask
  NoJob = NoJob
SPECIFICATION Spec
INVARIANTS SingleFlight OneResultPerTask JobsBounded WorkingJobReported
SYMMETRY HandlerSymmetry
CHECK_DEADLOCK FALSE
