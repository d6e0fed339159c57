SPECIFICATION VariantSpec
CONSTANTS
  Runs = {r1}
  Groups = {g1}
  NoGroup = NoGroup
  MaxReceiveCount = 3
  AwsCallsMayFail = TRUE
  OverlapPossible = TRUE
  Environments = {e1, e2, e3}
  Directories = {e1, e2, e3, reports}
  ReportsDir = reports
  NoEnvironment = NoEnvironment
INVARIANT CompletedRowHasReport
INVARIANT RowLeftOpenHasCause
INVARIANT BucketHoldsAcknowledged
PROPERTY S3ImplementsJob
SYMMETRY MCSymmetry
CHECK_DEADLOCK FALSE
