CONSTANTS
  t1 = t1
  t2 = t2
  j1 = j1
  j2 = j2
  Tasks = {t1, t2}
  Jobs = {j1, j2}
  JobOf <- SameJob
  Poison = {}
  Manifests = {}
  Handlers = {h1, h2}
  MaxAckPending = 1
  Buffered = FALSE
  PropagatePaymentError = FALSE
  Allowed = {"fail", "crash", "kv_error", "publish_error", "ack_lost", "ack_error"}
  MaxFaults = 2
  NoTask = NoTask
  NoJob = NoJob
SPECIFICATION FairSpec
PROPERTY EveryTaskSettled
CHECK_DEADLOCK FALSE
