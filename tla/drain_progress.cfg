SPECIFICATION FairSpec
CONSTANTS
  VMIs = {1, 2}
  Arriving = {}
  Hotplugged = {}
  Pods = {p}
  PodStarts = {"guarded"}
  LateClasses = {}
  MaxAttempts = 2
  Hazards = {"failure", "interrupt"}
  ClusterLimit = 1
  ParallelOutbound = 0
  Retries = 1
  AbortUncordons = TRUE
PROPERTIES LoopEnds InterruptSettles KeepsPromise
