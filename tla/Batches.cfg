SPECIFICATION FairSession
CONSTANTS
  MAX_ITEMS_IN_BATCH = 5
  MaxWords = 200
  UnknownSelector = 200
  SelectorOf <- MCSelectorOf
  Limb <- MCLimb
  MaxLimb <- MCMaxLimb
  CallSelectors = {}
  CallWords = {}
  Tokens <- MCTokens
  Transactions <- MCBatches
INVARIANTS
  ItemsDecoded
  SettledBeforeDeferral
  ScreensAccepted
  NoPhantomItem
PROPERTIES
  ReviewIsTrue
  ReviewComes
