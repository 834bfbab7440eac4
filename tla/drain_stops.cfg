SPECIFICATION Spec
CONSTANTS
  VMIs = {1, 2}
  Arriving = {}
  Hotplugged = {}
  Pods = {p}
  PodStarts = {"guarded", "evictable"}
  LateClasses = {}
  MaxAttempts = 1
  Hazards = {"interrupt", "kill", "deadline", "unsafe", "fault"}
  ClusterLimit = 1
  ParallelOutbound = 0
  Retries = 1
  AbortUncordons = TRUE
INVARIANTS LosesOneVMAtMost OneEvictionAfterSignal
PROPERTIES EvictsOnlyCordoned RestoreOnlyWhenClear
