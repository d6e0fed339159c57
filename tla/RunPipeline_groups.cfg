SPECIFICATION Spec
CONSTANTS
  Runs = {r1, r2}
  Groups = {g1}
  NoGroup = NoGroup
  MaxReceiveCount = 2
  AwsCallsMayFail = FALSE
  OverlapPossible = FALSE
  Environments = {e1, e2}
  Directories = {e1, e2, reports}
  ReportsDir = reports
  NoEnvironment = NoEnvironment
INVARIANT OneExecutionPerGroup
INVARIANT FailedIsNotAcknowledged
INVARIANT DeadLetteredIsFailed
PROPERTY EveryMessageSettles
CHECK_DEADLOCK FALSE
