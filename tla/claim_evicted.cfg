SPECIFICATION FairSpec
CONSTANTS
  VMIs = {1}
  Arriving = {}
  Hotplugged = {}
  Pods = {}
  PodStarts = {"absent"}
  LateClasses = {}
  MaxAttempts = 2
  Hazards = {"foreign", "failure"}
  ClusterLimit = 1
  ParallelOutbound = 0
  Retries = 1
  AbortUncordons = FALSE
PROPERTIES LaunchersEvicted
