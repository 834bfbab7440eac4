SPECIFICATION Spec
CONSTANTS
  VMIs = {1, 2}
  Arriving = {2}
  Hotplugged = {1, 2}
  Pods = {}
  PodStarts = {"absent"}
  LateClasses = {}
  MaxAttempts = 1
  Hazards = {"restart", "incoming", "operator"}
  ClusterLimit = 1
  ParallelOutbound = 0
  Retries = 1
  AbortUncordons = FALSE
INVARIANTS HotplugVerified
