SPECIFICATION Spec
CONSTANTS
  MAX_ITEMS_IN_BATCH = 2
  MaxWords = 14
  SelectorOf <- MCSelectorOf
  Limb <- MCLimb
  CallSelectors <- MCCallSelectors
  CallWords <- MCCallWords
INVARIANTS
  TypeOK
  IndexInBounds
  CounterInRange
  HandlerMatchesItem
PROPERTIES
  ItemsSettleInOrder
  RestIsIgnored
CHECK_DEADLOCK FALSE
