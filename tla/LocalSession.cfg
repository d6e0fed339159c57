SPECIFICATION SessionSpec
CONSTANTS
  Runs = {r1}
  Kinds = {"invocations", "ingest"}
  MaxRetries = 5
  MaxReloads = 1
INVARIANT SessionTypeOK
INVARIANT ReportHasBody
INVARIANT CompletedCarriesResult
PROPERTY FinishedStaysFinished
PROPERTY ScreenNeverRunsAhead
PROPERTY ScreenNeverFallsBack
PROPERTY EverySubmissionFinishes
PROPERTY EveryEndIsShown
PROPERTY LossIsReported
CHECK_DEADLOCK FALSE
