SPECIFICATION Spec
CONSTANTS
  Runs = {r1}
  Groups = {g1}
  NoGroup = NoGroup
  MaxReceiveCount = 2
  AwsCallsMayFail = FALSE
  OverlapPossible = FALSE
  Environments = {e1}
  Directories = {e1, reports}
  ReportsDir = reports
  NoEnvironment = NoEnvironment
INVARIANT AcknowledgedReportIsServed
CHECK_DEADLOCK FALSE
