SPECIFICATION Spec
CONSTANTS
  Agents <- MCAgents
  Cascade <- MCPremiumCascade
  MaxCorrectionRounds = 2
INVARIANT TypeOK
INVARIANT ValidationSeesAllAgents
INVARIANT NodesRunOnce
INVARIANT ReturnedHasReport
INVARIANT AllLatenciesReported
INVARIANT DossierIsValidated
PROPERTY GraphEnds
CHECK_DEADLOCK FALSE
