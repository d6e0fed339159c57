SPECIFICATION Spec
CONSTANTS
  Runs = {r1}
  Kinds = {"invocations", "ingest"}
INVARIANT CompletedHasSummary
CHECK_DEADLOCK FALSE
