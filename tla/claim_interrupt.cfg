SPECIFICATION Spec
CONSTANTS
  VMIs = {1}
  Arriving = {}
  Hotplugged = {}
  Pods = {p}
  PodStarts = {"evictable"}
  LateClasses = {}
  MaxAttempts = 1
  Hazards = {"interrupt"}
  ClusterLimit = 1
  ParallelOutbound = 0
  Retries = 1
  AbortUncordons = FALSE
INVARIANTS InterruptWaits
