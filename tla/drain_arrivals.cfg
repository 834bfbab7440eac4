SPECIFICATION Spec
CONSTANTS
  VMIs = {1, 2}
  Arriving = {2}
  Hotplugged = {}
  Pods = {p}
  PodStarts = {"absent", "guarded"}
  LateClasses = {"guarded", "barred"}
  MaxAttempts = 1
  Hazards = {"arrival", "foreign", "incoming"}
  ClusterLimit = 1
  ParallelOutbound = 0
  Retries = 1
  AbortUncordons = FALSE
INVARIANTS SuccessMeansEmpty
