SPECIFICATION Spec
CONSTANTS
  VMIs = {1}
  Arriving = {}
  Hotplugged = {1}
  Pods = {}
  PodStarts = {"absent"}
  LateClasses = {}
  MaxAttempts = 1
  Hazards = {"foreign"}
  ClusterLimit = 1
  ParallelOutbound = 0
  Retries = 1
  AbortUncordons = FALSE
INVARIANTS AllObservedVerified
