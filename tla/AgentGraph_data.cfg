SPECIFICATION Spec
CONSTANTS
  Agents <- MCAgents
  Cascade <- MCPremiumCascade
  MaxCorrectionRounds = 2
INVARIANT ReportRestsOnUsableData
CHECK_DEADLOCK FALSE
