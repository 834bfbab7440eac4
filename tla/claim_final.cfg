SPECIFICATION Spec
CONSTANTS
  VMIs = {1}
  Arriving = {1}
  Hotplugged = {}
  Pods = {p}
  PodStarts = {"absent"}
  LateClasses = {"barred"}
  MaxAttempts = 1
  Hazards = {"arrival", "incoming"}
  ClusterLimit = 1
  ParallelOutbound = 0
  Retries = 1
  AbortUncordons = FALSE
INVARIANTS NoWorkloadsRemain
