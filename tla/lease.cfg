SPECIFICATION NodeSpec
CONSTANTS
  Runs = {r1, r2}
  None = None
  Other = Other
  CarefulOperator = TRUE
  MaxRevision = 2
  OtherWriters = {"kubectl cordon", "kubectl uncordon", "kvdrain uncordon", "status", "replace"}
SYMMETRY RunSymmetry
INVARIANTS MutualExclusion LeaksOnlyAfterTrouble DrainsClosedNode
PROPERTIES ReleasesOwnLease SparesCordonOfOthers RefusedOnlyWhenStale
