CONSTANTS
  t1 = t1
  t2 = t2
  j1 = j1
  j2 = j2
  Tasks = {t1, t2}
  Jobs = {j1, j2}
  JobOf <- SameJob
  Poison = {t2}
  Manifests = {j1}
  Handlers = {h1, h2}
  MaxAckPending = 0
  Buffered = FALSE
  PropagatePaymentError = FALSE
  Allowed = {"skip", "fail", "payment", "block", "crash", "kv_error", "publish_error", "ack_error", "ack_lost", "stall", "pause"}
  MaxFaults = 2
  NoTask = NoTask
  NoJob = NoJob
SPECIFICATION Spec
INVARIANTS AckedMeansAnswered ProcessedMeansAnswered
SYMMETRY HandlerSymmetry
CHECK_DEADLOCK FALSE
