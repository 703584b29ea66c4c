SPECIFICATION SessionSpec
CONSTANTS
  MAX_ITEMS_IN_BATCH = 5
  MaxWords = 100
  UnknownSelector = 200
  SelectorOf <- MCSelectorOf
  Limb <- MCLimb
  MaxLimb <- MCMaxLimb
  CallSelectors = {}
  CallWords = {}
  Tokens <- MCTokens
  Transactions <- MCFiveItems
INVARIANTS
  ScreensAccepted
