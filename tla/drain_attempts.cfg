SPECIFICATION Spec
CONSTANTS
  VMIs = {1, 2, 3}
  Arriving = {}
  Hotplugged = {}
  Pods = {}
  PodStarts = {"absent"}
  LateClasses = {}
  MaxAttempts = 3
  Hazards = {"failure"}
  ClusterLimit = 2
  ParallelOutbound = 3
  Retries = 1
  AbortUncordons = FALSE
INVARIANTS TypeOK LimitRespected RequestsWithinBudget
