SPECIFICATION Spec
CONSTANTS
  Texts <- MCTexts
  EmptyText = 0
  Words <- MCWords
  Parts <- MCParts
  Short <- MCShort
  MaxItems = 3
INVARIANT OrderOfItemsIsIrrelevant
 
INVARIANT AdverseNewsComesFirst
INVARIANT AdverseSignalNeverDemotes
CHECK_DEADLOCK FALSE
