SPECIFICATION Spec
CONSTANTS
  Runs = {r1}
  Groups = {g1}
  NoGroup = NoGroup
  MaxReceiveCount = 1
  AwsCallsMayFail = FALSE
  OverlapPossible = FALSE
  Environments = {e1}
  Directories = {e1, reports}
  ReportsDir = reports
  NoEnvironment = NoEnvironment
PROPERTY AcknowledgedRunCompletes
CHECK_DEADLOCK FALSE
