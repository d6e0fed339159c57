SPECIFICATION Spec
CONSTANTS
  Agents <- MCAgents
  Cascade <- MCPremiumCascade
  MaxCorrectionRounds = 2
INVARIANT TemplateKeepsWorking
CHECK_DEADLOCK FALSE
