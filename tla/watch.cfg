SPECIFICATION Spec
CONSTANTS
  Migrations = {1, 2}
  NameOf <- Names
  VmiOf <- VMIs
  SourceOf <- Sources
  Annotated = {2}
  Nodes = {"node"}
  Unknown = "unknown"
  Faults = {"break", "list", "open", "output", "signal"}
INVARIANTS CaughtUp
PROPERTIES ReportsTruly EndIsReported
